---------------------- MODULE PipelineRefinementProofs ----------------------
(* The refinement of SequentialCore by Pipeline.  A clone takes effect when *)
(* it enters writeback, a jump when it is taken; SequentialCore's registers *)
(* are those after writeback's clone (SRegNow, VRegNow, HeapNow) and its pc *)
(* is that of the oldest clone behind it (Front).  Three things make that   *)
(* true: the clones in the stages follow each other as the program does     *)
(* (Path), each still works on the registers as they are (OwnCurrent        *)
(* of PipelineProofs; Sources, Addressed, NotTaken), and what an operation  *)
(* in mem found when it was started is what SequentialCore finds when the   *)
(* operation is done (Private, Contents, Deadlines).  It needs WRITEs that   *)
(* no operation in place overtakes (WritesSettled): which programs are of   *)
(* that kind can be told from the order of their instructions (Spaced), and *)
(* the loops of Kernels are (LoopKernelsPipelined).                         *)
EXTENDS PipelineProofs, Kernels

-----------------------------------------------------------------------------
(* Which registers share a buffer.                                         *)

\* The partition of the vector registers that a map to buffers makes.
Class(V, r) == {q \in Vector : V[q] = V[r]}
Classes(V) == {Class(V, r) : r \in Vector}

\* The partition after d joined the class of s.
Joining(V, d, s) ==
  {IF s \in c THEN c \cup {d} ELSE c : c \in {e \ {d} : e \in Classes(V)} \ {{}}}

\* The form in which Pipeline gives it to SequentialCore.
LEMMA ByBuffer ==
  ASSUME NEW V
  PROVE  {{r \in Vector : V[r] = b} : b \in {V[r] : r \in Vector}} = Classes(V)
BY DEF Classes, Class

\* A register lies in one class, its own.
LEMMA OwnClass ==
  ASSUME NEW V, NEW r \in Vector
  PROVE  /\ Class(V, r) \in Classes(V) /\ r \in Class(V, r)
         /\ \A c \in Classes(V) : r \in c => c = Class(V, r)
BY DEF Classes, Class

\* Registers that are given a buffer of their own leave their classes for one.
LEMMA ReboundClasses ==
  ASSUME NEW V, NEW D \in SUBSET Vector, D # {}, NEW b, \A r \in Vector : V[r] # b
  PROVE  Classes([r \in Vector |-> IF r \in D THEN b ELSE V[r]])
           = ({c \ D : c \in Classes(V)} \ {{}}) \cup {D}
<1> DEFINE X == [r \in Vector |-> IF r \in D THEN b ELSE V[r]]
<1>1. ASSUME NEW r \in Vector
      PROVE  Class(X, r) = IF r \in D THEN D ELSE Class(V, r) \ D
  BY <1>1 DEF Class
<1>2. ASSUME NEW r \in Vector
      PROVE  Class(X, r) \in ({c \ D : c \in Classes(V)} \ {{}}) \cup {D}
  <2>1. CASE r \notin D
    <3>1. r \in Class(V, r) \ D
      BY <2>1 DEF Class
    <3> QED BY <1>1, <2>1, <3>1 DEF Classes
  <2> QED BY <1>1, <2>1
<1>3. ASSUME NEW c \in Classes(V), c \ D # {}
      PROVE  c \ D \in Classes(X)
  <2>1. PICK r \in c : r \notin D
    BY <1>3
  <2>2. r \in Vector /\ c = Class(V, r)
    BY <2>1 DEF Classes, Class
  <2> HIDE DEF X
  <2> QED BY <1>1, <2>1, <2>2 DEF Classes
<1>4. D \in Classes(X)
  <2>1. PICK r \in D : r \in Vector
    OBVIOUS
  <2> HIDE DEF X
  <2> QED BY <1>1, <2>1 DEF Classes
<1>5. Classes(X) \subseteq ({c \ D : c \in Classes(V)} \ {{}}) \cup {D}
  <2> HIDE DEF X
  <2> SUFFICES ASSUME NEW e \in Classes(X)
               PROVE  e \in ({c \ D : c \in Classes(V)} \ {{}}) \cup {D}
    OBVIOUS
  <2>1. PICK r \in Vector : e = Class(X, r)
    BY DEF Classes
  <2> QED BY <1>2, <2>1
<1> HIDE DEF X
<1>6. ({c \ D : c \in Classes(V)} \ {{}}) \cup {D} \subseteq Classes(X)
  BY <1>3, <1>4
<1>7. Classes(X) = ({c \ D : c \in Classes(V)} \ {{}}) \cup {D}
  BY <1>5, <1>6
<1> QED BY <1>7 DEF X

\* A register that is given another's buffer joins the other's class.
LEMMA JoinedClasses ==
  ASSUME NEW V, DOMAIN V = Vector, NEW d \in Vector, NEW s \in Vector, d \notin Class(V, s)
  PROVE  Classes([V EXCEPT ![d] = V[s]]) = Joining(V, d, s)
<1> DEFINE X == [V EXCEPT ![d] = V[s]]
           Cut == {e \ {d} : e \in Classes(V)} \ {{}}
           Glued(c) == IF s \in c THEN c \cup {d} ELSE c
<1>1. s # d /\ \A r \in Vector : X[r] = IF r = d THEN V[s] ELSE V[r]
  BY DEF Class
<1> HIDE DEF X
<1>2. ASSUME NEW r \in Vector, r # d
      PROVE  Class(X, r) = Glued(Class(V, r) \ {d})
  <2>1. CASE V[r] = V[s]
    BY <1>1, <1>2, <2>1 DEF Class
  <2>2. CASE V[r] # V[s]
    BY <1>1, <1>2, <2>2 DEF Class
  <2> QED BY <2>1, <2>2
<1>3. Class(X, d) = Class(X, s)
  BY <1>1 DEF Class
<1>4. ASSUME NEW r \in Vector, r # d
      PROVE  Class(V, r) \ {d} \in Cut
  <2>1. r \in Class(V, r) \ {d}
    BY <1>4 DEF Class
  <2> QED BY <2>1 DEF Classes
<1>5. Classes(X) \subseteq {Glued(c) : c \in Cut}
  <2> SUFFICES ASSUME NEW e \in Classes(X)
               PROVE  \E c \in Cut : e = Glued(c)
    OBVIOUS
  <2>1. PICK r \in Vector : e = Class(X, r)
    BY DEF Classes
  <2>2. PICK q \in Vector : q # d /\ e = Class(X, q)
    BY <1>1, <1>3, <2>1
  <2> HIDE DEF Glued, Cut
  <2> QED BY <1>2, <1>4, <2>2
<1>6. {Glued(c) : c \in Cut} \subseteq Classes(X)
  <2> SUFFICES ASSUME NEW c \in Cut
               PROVE  Glued(c) \in Classes(X)
    OBVIOUS
  <2>1. PICK e \in Classes(V) : c = e \ {d} /\ c # {}
    OBVIOUS
  <2>2. PICK q \in Vector : e = Class(V, q)
    BY DEF Classes
  <2>3. PICK r \in c : r \in Vector /\ r # d /\ V[r] = V[q]
    BY <2>1, <2>2 DEF Class
  <2>4. c = Class(V, r) \ {d}
    BY <2>1, <2>2, <2>3 DEF Class
  <2> HIDE DEF Glued, Cut
  <2> QED BY <1>2, <2>3, <2>4 DEF Classes
<1>7. Classes(X) = {Glued(c) : c \in Cut}
  BY <1>5, <1>6
<1>8. {Glued(c) : c \in Cut} = Joining(V, d, s)
  BY Zenon DEF Joining
<1> QED BY <1>7, <1>8 DEF X

-----------------------------------------------------------------------------
(* What a clone does when it retires, in terms of the registers as they    *)
(* are: by OwnCurrent they still are as the clone read them.               *)

SRegOf(i) ==
  CASE i.op = "MOV" /\ i.in1 = NoReg -> [sreg EXCEPT ![i.dst] = i.imm]
    [] i.op = "MOV" /\ i.in1 \in SReg -> [sreg EXCEPT ![i.dst] = sreg[i.in1]]
    [] Immediate(i) -> [sreg EXCEPT ![Dest(i)] = Combine(i, sreg[i.in1], i.imm)]
    [] Folding(i) ->
         [sreg EXCEPT ![Dest(i)] =
           Combine(i, IF Dest(i) = i.in1 THEN Neutral(i) ELSE sreg[i.in1],
                   heap[vreg[i.in2]])]
    [] OTHER -> sreg

Second(i) == IF i.op \in ScalarOps THEN sreg[i.in2] ELSE heap[vreg[i.in2]]
HeapOf(i) ==
  IF Vectorial(i)
    THEN [heap EXCEPT ![vreg[i.in1]] = Combine(i, heap[vreg[i.in1]], Second(i))]
    ELSE heap

\* b is the buffer of what was read.
VRegOf(i, b) ==
  CASE i.op = "SCRATCH_READ" -> [vreg EXCEPT ![i.dst] = b]
    [] IsMem(i) -> [r \in Vector |-> IF r \in Latched(i) THEN b ELSE vreg[r]]
    [] i.op = "MOV" /\ i.in1 \in Vector -> [vreg EXCEPT ![i.dst] = vreg[i.in1]]
    [] Vectorial(i) -> [vreg EXCEPT ![Dest(i)] = vreg[i.in1]]
    [] OTHER -> vreg

\* Which operands an instruction has.
LEMMA Shapes ==
  ASSUME NEW i \in Instruction, WellFormed(i)
  PROVE  /\ i.op = "READ" => i.in1 \in SReg \cup {NoReg} /\ i.dst \in VReg \cup {NoReg}
         /\ i.op = "WRITE" => /\ i.in1 \in Vector \cup {NoReg} /\ i.in2 \in SReg \cup {NoReg}
                              /\ i.dst \in VReg \cup {NoReg}
         /\ i.op = "SCRATCH_READ" => i.dst \in Vector /\ i.dst # NoReg
         /\ i.op = "SCRATCH_WRITE" => i.in1 \in Vector
         /\ i.op = "MOV" => \/ i.in1 \in SReg \cup {NoReg} /\ i.dst \in SReg
                            \/ i.in1 \in Vector /\ i.dst \in Vector
         /\ Immediate(i) => i.in1 \in SReg /\ Dest(i) \in SReg
         /\ Folding(i) => i.in1 \in SReg /\ i.in2 \in Vector /\ Dest(i) \in SReg
         /\ Vectorial(i) => /\ i.in1 \in Vector /\ Dest(i) \in Vector
                            /\ IF i.op \in ScalarOps THEN i.in2 \in SReg ELSE i.in2 \in Vector
         /\ i.op \in CondJumps => i.in1 \in SReg /\ i.in2 \in SReg
<1> USE Names DEF Immediate, Folding, Vectorial, ImmOps, RedOps, ScalarOps, VecOps, Ignored,
                  CondJumps
<1>1. i.op \in {"READ", "WRITE", "SCRATCH_READ", "SCRATCH_WRITE"} =>
        /\ i.op = "READ" => i.in1 \in SReg \cup {NoReg} /\ i.dst \in VReg \cup {NoReg}
        /\ i.op = "WRITE" => /\ i.in1 \in Vector \cup {NoReg} /\ i.in2 \in SReg \cup {NoReg}
                             /\ i.dst \in VReg \cup {NoReg}
        /\ i.op = "SCRATCH_READ" => i.dst \in Vector /\ i.dst # NoReg
        /\ i.op = "SCRATCH_WRITE" => i.in1 \in Vector
  BY DEF WellFormed
<1>2. i.op = "MOV" => \/ i.in1 \in SReg \cup {NoReg} /\ i.dst \in SReg
                      \/ i.in1 \in Vector /\ i.dst \in Vector
  BY DEF WellFormed
<1>3. Immediate(i) => i.in1 \in SReg /\ Dest(i) \in SReg
  BY DEF WellFormed, Dest
<1>4. Folding(i) => i.in1 \in SReg /\ i.in2 \in Vector /\ Dest(i) \in SReg
  BY DEF WellFormed, Dest
<1>5. Vectorial(i) => /\ i.in1 \in Vector /\ Dest(i) \in Vector
                      /\ IF i.op \in ScalarOps THEN i.in2 \in SReg ELSE i.in2 \in Vector
  BY DEF WellFormed, Dest
<1>6. i.op \in CondJumps => i.in1 \in SReg /\ i.in2 \in SReg
  BY DEF WellFormed
<1> QED BY <1>1, <1>2, <1>3, <1>4, <1>5, <1>6

\* Every instruction is of one kind.
LEMMA Kinds ==
  ASSUME NEW i \in Instruction
  PROVE  \/ /\ IsMem(i) /\ i.op \in {"READ", "WRITE"}
            /\ ~Immediate(i) /\ ~Folding(i) /\ ~Vectorial(i) /\ ~IsScratch(i)
            /\ i.op \notin CondJumps /\ i.op \notin {"MOV", "SCRATCH_READ", "JMP"}
         \/ /\ IsScratch(i) /\ i.op \in {"SCRATCH_READ", "SCRATCH_WRITE"}
            /\ ~Immediate(i) /\ ~Folding(i) /\ ~Vectorial(i) /\ ~IsMem(i)
            /\ i.op \notin CondJumps /\ i.op \notin {"MOV", "READ", "WRITE", "JMP"}
         \/ /\ i.op = "MOV"
            /\ ~Immediate(i) /\ ~Folding(i) /\ ~Vectorial(i) /\ ~IsMem(i) /\ ~IsScratch(i)
            /\ i.op \notin CondJumps
         \/ /\ Immediate(i) /\ ~Folding(i) /\ ~Vectorial(i) /\ ~IsMem(i) /\ ~IsScratch(i)
            /\ i.op \notin CondJumps
            /\ i.op \notin {"MOV", "READ", "WRITE", "SCRATCH_READ", "SCRATCH_WRITE", "JMP"}
         \/ /\ Folding(i) /\ ~Immediate(i) /\ ~Vectorial(i) /\ ~IsMem(i) /\ ~IsScratch(i)
            /\ i.op \notin CondJumps
            /\ i.op \notin {"MOV", "READ", "WRITE", "SCRATCH_READ", "SCRATCH_WRITE", "JMP"}
         \/ /\ Vectorial(i) /\ ~Immediate(i) /\ ~Folding(i) /\ ~IsMem(i) /\ ~IsScratch(i)
            /\ i.op \notin CondJumps
            /\ i.op \notin {"MOV", "READ", "WRITE", "SCRATCH_READ", "SCRATCH_WRITE", "JMP"}
         \/ /\ i.op \in CondJumps \cup Ignored \cup {"JMP", "NOP"}
            /\ ~Immediate(i) /\ ~Folding(i) /\ ~Vectorial(i) /\ ~IsMem(i) /\ ~IsScratch(i)
            /\ i.op \notin {"MOV", "READ", "WRITE", "SCRATCH_READ", "SCRATCH_WRITE"}
BY DEF Instruction, OpType, IsMem, IsScratch, MemOps, ScratchOps, Immediate, Folding, Vectorial,
       ImmOps, RedOps, ScalarOps, VecOps, Ignored, CondJumps

\* What retires works on the registers as they are.
LEMMA RetiresNow ==
  ASSUME NEW c, OwnCurrentAt(c), Code(c) \in Instruction, WellFormed(Code(c))
  PROVE  /\ SRegAfter(c) = SRegOf(Code(c))
         /\ HeapAfter(c) = HeapOf(Code(c))
         /\ VRegAfter(c) = VRegOf(Code(c), c.data)
<1> DEFINE i == Code(c)
           o == opVals[c.pc]
<1>1. /\ i.in1 \in SReg => o.in1 = sreg[i.in1]
      /\ i.in1 \in Vector => o.in1 = vreg[i.in1]
      /\ i.in2 \in SReg => o.in2 = sreg[i.in2]
      /\ i.in2 \in Vector => o.in2 = vreg[i.in2]
  BY Names DEF OwnCurrentAt, Now
<1>2. SRegAfter(c) = SRegOf(i)
  <2>1. Immediate(i) => i.in1 \in SReg
    BY Shapes
  <2> QED BY <1>1, <2>1 DEF SRegAfter, SRegOf
<1>3. HeapAfter(c) = HeapOf(i)
  <2>1. Vectorial(i) => /\ i.in1 \in Vector
                        /\ IF i.op \in ScalarOps THEN i.in2 \in SReg ELSE i.in2 \in Vector
    BY Shapes
  <2> QED BY <1>1, <2>1 DEF HeapAfter, HeapOf, Second
<1>4. VRegAfter(c) = VRegOf(i, c.data)
  <2>1. Vectorial(i) => i.in1 \in Vector
    BY Shapes
  <2> QED BY <1>1, <2>1 DEF VRegAfter, VRegOf
<1> QED BY <1>2, <1>3, <1>4

-----------------------------------------------------------------------------
(* The instructions of SequentialCore, from what a retirement does.        *)

\* The instance has definitions of its own of what Instructions says.
LEMMA SameInstructions ==
  /\ Sequential!Vector = Vector /\ Sequential!NoReg = NoReg /\ Sequential!Gdl = Gdl
  /\ Sequential!CondJumps = CondJumps /\ Sequential!Ignored = Ignored
  /\ \A i : /\ Sequential!IsMem(i) = IsMem(i) /\ Sequential!IsScratch(i) = IsScratch(i)
           /\ Sequential!Immediate(i) = Immediate(i) /\ Sequential!Folding(i) = Folding(i)
           /\ Sequential!Vectorial(i) = Vectorial(i) /\ Sequential!Dest(i) = Dest(i)
           /\ Sequential!OffsetReg(i) = OffsetReg(i) /\ Sequential!Neutral(i) = Neutral(i)
           /\ Sequential!Latched(i) = Latched(i)
  /\ \A i, x, y : /\ Sequential!Combine(i, x, y) = Combine(i, x, y)
                 /\ Sequential!Taken(i, x, y) = Taken(i, x, y)
  /\ \A p : Sequential!Succ(p) = Succ(p)
  /\ \A p, n : Sequential!Relocated(p, n) = Relocated(p, n)
<1>1. /\ Sequential!Vector = Vector /\ Sequential!NoReg = NoReg /\ Sequential!Gdl = Gdl
      /\ Sequential!CondJumps = CondJumps /\ Sequential!Ignored = Ignored
  BY DEF Sequential!Vector, Vector, Sequential!NoReg, NoReg, Sequential!Gdl, Gdl,
     Sequential!CondJumps, CondJumps, Sequential!Ignored, Ignored
<1>2. ASSUME NEW i
      PROVE  /\ Sequential!IsMem(i) = IsMem(i) /\ Sequential!IsScratch(i) = IsScratch(i)
             /\ Sequential!Immediate(i) = Immediate(i) /\ Sequential!Folding(i) = Folding(i)
             /\ Sequential!Vectorial(i) = Vectorial(i)
             /\ Sequential!OffsetReg(i) = OffsetReg(i) /\ Sequential!Neutral(i) = Neutral(i)
  BY DEF Sequential!IsMem, IsMem, Sequential!MemOps, MemOps, Sequential!IsScratch, IsScratch,
     Sequential!ScratchOps, ScratchOps, Sequential!Immediate, Immediate, Sequential!ImmOps, ImmOps,
     Sequential!Folding, Folding, Sequential!RedOps, RedOps, Sequential!Vectorial, Vectorial,
     Sequential!ScalarOps, ScalarOps, Sequential!VecOps, VecOps,
     Sequential!OffsetReg, OffsetReg, Sequential!Neutral, Neutral
<1>3. ASSUME NEW i
      PROVE  Sequential!Dest(i) = Dest(i) /\ Sequential!Latched(i) = Latched(i)
  BY <1>1 DEF Sequential!Dest, Dest, Sequential!Latched, Latched
<1>4. ASSUME NEW i, NEW x, NEW y
      PROVE  /\ Sequential!Combine(i, x, y) = Combine(i, x, y)
             /\ Sequential!Taken(i, x, y) = Taken(i, x, y)
  BY DEF Sequential!Combine, Combine, Sequential!Taken, Taken
<1>5. ASSUME NEW p
      PROVE  Sequential!Succ(p) = Succ(p)
  BY DEF Sequential!Succ, Succ
<1>6. ASSUME NEW p, NEW n
      PROVE  Sequential!Relocated(p, n) = Relocated(p, n)
  BY DEF Sequential!Relocated, Relocated, Sequential!IsJump, IsJump, Sequential!CondJumps, CondJumps
<1> QED BY <1>1, <1>2, <1>3, <1>4, <1>5, <1>6

\* The values SequentialCore sees, and the sharing.
ValNow == [r \in Vector |-> HeapNow[VRegNow[r]]]

\* The classes, in the terms of SequentialCore.
LEMMA Sharing ==
  /\ {{r \in Vector : VRegNow[r] = b} : b \in {VRegNow[r] : r \in Vector}} = Classes(VRegNow)
  /\ \A r \in Vector : Sequential!ClassOf(r) = Class(VRegNow, r)
  /\ \A D : Sequential!Detached(D) = {c \ D : c \in Classes(VRegNow)} \ {{}}
<1>1. {{r \in Vector : VRegNow[r] = b} : b \in {VRegNow[r] : r \in Vector}} = Classes(VRegNow)
  BY ByBuffer
<1>2. ASSUME NEW r \in Vector
      PROVE  Sequential!ClassOf(r) = Class(VRegNow, r)
  <2>1. Sequential!ClassOf(r) = CHOOSE c \in Classes(VRegNow) : r \in c
    BY <1>1 DEF Sequential!ClassOf
  <2> QED BY <2>1, OwnClass
<1>3. ASSUME NEW D
      PROVE  Sequential!Detached(D) = {c \ D : c \in Classes(VRegNow)} \ {{}}
  BY <1>1, Zenon DEF Sequential!Detached
<1> QED BY <1>1, <1>2, <1>3

\* An operation in place, and the move of a vector.
LEMMA SharedNow ==
  ASSUME VRegNow \in [Vector -> Buffer], HeapNow \in [Buffer -> Value],
         NEW d \in Vector, NEW s \in Vector, NEW v,
         VRegNow' = [VRegNow EXCEPT ![d] = VRegNow[s]],
         HeapNow' = [HeapNow EXCEPT ![VRegNow[s]] = v],
         SRegNow' = SRegNow, mem' = mem
  PROVE  Sequential!Shared(d, s, v)
<1>1. ValNow' = [r \in Vector |-> IF r \in Class(VRegNow, s) \cup {d} THEN v ELSE ValNow[r]]
  BY DEF ValNow, Class
<1>2. Classes(VRegNow') = Sequential!Joined(d, s)
  <2>1. CASE d \in Class(VRegNow, s)
    <3>1. VRegNow' = VRegNow
      BY <2>1 DEF Class
    <3>2. Classes(VRegNow') = Classes(VRegNow)
      BY <3>1 DEF Classes, Class
    <3> QED BY <2>1, <3>2, Sharing DEF Sequential!Joined
  <2>2. CASE d \notin Class(VRegNow, s)
    <3>1. Classes(VRegNow') = Classes([VRegNow EXCEPT ![d] = VRegNow[s]])
      OBVIOUS
    <3>2. Sequential!Joined(d, s) = Joining(VRegNow, d, s)
      <4>1. Sequential!Detached({d}) = {e \ {d} : e \in Classes(VRegNow)} \ {{}}
            /\ d \notin Sequential!ClassOf(s)
        BY <2>2, Sharing
      <4> QED BY <4>1, Zenon DEF Sequential!Joined, Joining
    <3>3. DOMAIN VRegNow = Vector
      OBVIOUS
    <3>4. Classes([VRegNow EXCEPT ![d] = VRegNow[s]]) = Joining(VRegNow, d, s)
      BY <2>2, <3>3, JoinedClasses
    <3> QED BY <3>1, <3>2, <3>4, Zenon
  <2> QED BY <2>1, <2>2
<1>3. {{r \in Vector : VRegNow[r] = b} : b \in {VRegNow[r] : r \in Vector}}' = Classes(VRegNow')
  BY ByBuffer
<1>4. ValNow' = [r \in Vector |-> IF r \in Sequential!ClassOf(s) \cup {d} THEN v ELSE ValNow[r]]
  BY <1>1, Sharing
<1> QED BY <1>2, <1>3, <1>4, SameInstructions, Zenon DEF Sequential!Shared, ValNow

\* Registers that take a buffer of their own.
LEMMA ReboundNow ==
  ASSUME VRegNow \in [Vector -> Buffer], HeapNow \in [Buffer -> Value],
         NEW D \in SUBSET Vector, D # {}, NEW b \in Buffer, \A r \in Vector : VRegNow[r] # b,
         VRegNow' = [r \in Vector |-> IF r \in D THEN b ELSE VRegNow[r]],
         HeapNow' = HeapNow
  PROVE  /\ ValNow' = [r \in Vector |-> IF r \in D THEN HeapNow[b] ELSE ValNow[r]]
         /\ {{r \in Vector : VRegNow[r] = q} : q \in {VRegNow[r] : r \in Vector}}'
              = Sequential!Rebound(D)
<1>1. ValNow' = [r \in Vector |-> IF r \in D THEN HeapNow[b] ELSE ValNow[r]]
  BY DEF ValNow
<1>2. Classes(VRegNow') = Sequential!Rebound(D)
  <2>1. Classes(VRegNow') = Classes([r \in Vector |-> IF r \in D THEN b ELSE VRegNow[r]])
    OBVIOUS
  <2>2. Classes([r \in Vector |-> IF r \in D THEN b ELSE VRegNow[r]])
          = ({c \ D : c \in Classes(VRegNow)} \ {{}}) \cup {D}
    BY ReboundClasses, Zenon
  <2>3. Sequential!Rebound(D) = ({c \ D : c \in Classes(VRegNow)} \ {{}}) \cup {D}
    BY Sharing, Zenon DEF Sequential!Rebound
  <2> QED BY <2>1, <2>2, <2>3, Zenon
<1>3. {{r \in Vector : VRegNow[r] = q} : q \in {VRegNow[r] : r \in Vector}}' = Classes(VRegNow')
  BY ByBuffer
<1> QED BY <1>1, <1>2, <1>3

-----------------------------------------------------------------------------
(* The invariant of the refinement, on top of IInv and OwnCurrent.         *)

\* The instruction behind each stage is the one that follows it in the order
\* of the program, once the jumps in between fall through.
BehindFetch   == pc
BehindDecode  == IF Full("fetch") THEN ins["fetch"].pc ELSE BehindFetch
BehindExecute == IF Full("decode") THEN ins["decode"].pc ELSE BehindDecode
BehindMem     == IF Full("execute") THEN ins["execute"].pc ELSE BehindExecute
Flow(p) == IF cache[p + 1].op = "JMP" THEN cache[p + 1].addr ELSE Succ(p)
Path ==
  /\ Full("fetch") => BehindFetch = Flow(ins["fetch"].pc)
  /\ Full("decode") => BehindDecode = Flow(ins["decode"].pc)
  /\ Full("execute") => BehindExecute = Flow(ins["execute"].pc)
  /\ Full("mem") => BehindMem = Flow(ins["mem"].pc)

\* The address a clone carries, indexed once it has left decode.
Offset(i) == IF IsMem(i) /\ OffsetReg(i) # NoReg THEN sreg[OffsetReg(i)] ELSE 0
Addressed ==
  /\ \A s \in {"fetch", "decode"} : Full(s) => ins[s].addr = Code(ins[s]).addr
  /\ \A s \in {"execute", "mem"} : Full(s) =>
       ins[s].addr = Code(ins[s]).addr + Offset(Code(ins[s]))

\* The buffer a clone is to store is still that of the register it names.
Sources ==
  \A s \in {"execute", "mem"} : Full(s) =>
    /\ s = "mem" /\ Code(ins[s]).op = "WRITE" => ins[s].src = Source(ins[s])
    /\ Code(ins[s]).op = "SCRATCH_WRITE" => ins[s].src = Source(ins[s])

\* What is being read lies in a buffer that no register and no other read has.
Loads(c) == IsMem(Code(c)) \/ Code(c).op = "SCRATCH_READ"
Private ==
  /\ \A s \in {"mem", "writeback"} : Full(s) /\ Loads(ins[s]) =>
       \A r \in Vector : vreg[r] # ins[s].data
  /\ Full("mem") /\ Loads(M) /\ Full("writeback") /\ Loads(W) => M.data # W.data

\* What was read or stored when an operation started is what is there when
\* everything before it has retired.
Contents ==
  Full("mem") =>
    /\ Code(M).op = "READ" => heap[M.data] = mem[M.addr]
    /\ Code(M).op = "WRITE" => heap[M.data] = HeapNow[M.src]
    /\ Code(M).op = "SCRATCH_READ" => heap[M.data] = scratch[M.addr]
    /\ Code(M).op = "SCRATCH_WRITE" =>
         M.addr \in Scratch /\ scratch[M.addr] = HeapNow[M.src]

\* A jump that has left execute was not taken.
NotTaken ==
  /\ Full("execute") => ins["execute"].state # "DONE"
  /\ Full("mem") /\ Code(M).op \in CondJumps
       => ~Taken(Code(M), sreg[Code(M).in1], sreg[Code(M).in2])

\* A SCRATCH_WRITE spends two cycles in execute: whatever worked in place
\* before it has retired when its deadline has passed.
InPlace(s) == Full(s) /\ Vectorial(Code(ins[s]))
Settled ==
  Full("execute") /\ Code(ins["execute"]).op = "SCRATCH_WRITE" =>
    LET left == ins["execute"].left IN
    /\ left = 0 => ~InPlace("mem")
    /\ left = 0 /\ phase \notin {"handle", "drain"} => ~InPlace("writeback")
    /\ left = 1 /\ phase \notin {"handle", "drain", "writeback"} => ~InPlace("mem")
Deadlines ==
  /\ Settled
  /\ phase = "writeback" => ~Full("writeback")
  /\ Full("mem") /\ ~IsMem(Code(M)) => M.left = 0

\* The rest of the state, as the invariants above see it.
Known == IInv /\ Declared /\ OwnCurrent

-----------------------------------------------------------------------------
(* What each call of a tick does to the stages and to what they work on.   *)

\* The stages by name.
LEMMA StageNames ==
  /\ Stages = {"fetch", "decode", "execute", "mem", "writeback"}
  /\ Older = {"execute", "mem", "writeback"} /\ Older \subseteq Stages
  BY DEF Stages, Older

\* Draining leaves writeback empty, and the registers as they were seen.
LEMMA DrainDoes ==
  ASSUME IInv, Drain
  PROVE  /\ phase = "drain" /\ phase' = "writeback" /\ ~Full("writeback")'
         /\ \A s \in Stages : s # "writeback" => ins'[s] = ins[s]
         /\ sreg' = SRegNow /\ vreg' = VRegNow /\ heap' = HeapNow
         /\ UNCHANGED <<cache, loads, pc, opVals, scratch, mem, inflight, log>>
<1>1. ins \in [Stages -> Clone \cup {None}]
  BY DEF IInv, TypeOK
<1>2. Full("writeback") => IsDone(ins["writeback"])
  BY DEF IInv, StartedOnce
<1>3. /\ phase = "drain" /\ phase' = "writeback"
      /\ UNCHANGED <<cache, loads, pc, opVals, scratch, mem, inflight, log>>
  BY DEF Drain, At, Goto, bank, regs
<1>4. CASE Full("writeback")
  <2>1. /\ sreg' = SRegAfter(W) /\ vreg' = VRegAfter(W) /\ heap' = HeapAfter(W)
        /\ ins' = [ins EXCEPT !["writeback"] = None]
    BY <1>2, <1>4 DEF Drain, W
  <2>2. ~Full("writeback")' /\ \A s \in Stages : s # "writeback" => ins'[s] = ins[s]
    BY <1>1, <2>1, StageNames DEF Full
  <2> QED BY <1>3, <1>4, <2>1, <2>2 DEF SRegNow, VRegNow, HeapNow
<1>5. CASE ~Full("writeback")
  BY <1>3, <1>5 DEF Drain, regs, Full, SRegNow, VRegNow, HeapNow
<1> QED BY <1>4, <1>5

\* Either the clone in mem enters an empty writeback, or nothing moves.
LEMMA WritebackDoes ==
  ASSUME IInv, PropagateWriteback
  PROVE  /\ phase = "writeback" /\ phase' = "mem"
         /\ UNCHANGED <<cache, loads, pc, opVals, sreg, vreg, heap, scratch>>
         /\ \/ /\ UNCHANGED <<ins, mem>>
               /\ Full("writeback") \/ ~Full("mem") \/ ~IsDone(M)
            \/ /\ ~Full("writeback") /\ Full("mem") /\ ~Full("mem")' /\ Full("writeback")'
               /\ \A s \in {"fetch", "decode", "execute"} : ins'[s] = ins[s]
               /\ ins'["writeback"].pc = M.pc /\ ins'["writeback"].own = M.own
               /\ ins'["writeback"].data = M.data
               /\ mem' = IF Code(M).op = "WRITE" THEN [mem EXCEPT ![M.addr] = heap[M.src]]
                                                 ELSE mem
<1> DEFINE d == [M EXCEPT !.state = "DONE", !.ready = IsMem(Code(M))]
<1>1. ins \in [Stages -> Clone \cup {None}]
  BY DEF IInv, TypeOK
<1>2. /\ phase = "writeback" /\ phase' = "mem"
      /\ UNCHANGED <<cache, loads, pc, opVals, sreg, vreg, heap, scratch>>
  BY DEF PropagateWriteback, At, Goto, regs
<1>3. CASE ~(~Full("writeback") /\ Full("mem") /\ IsDone(M))
  BY <1>2, <1>3 DEF PropagateWriteback, M
<1>4. CASE ~Full("writeback") /\ Full("mem") /\ IsDone(M)
  <2>1. /\ Moves("mem", "writeback", d)
        /\ IF IsMem(Code(M)) /\ ~M.ready
             THEN mem' = IF Code(M).op = "WRITE" THEN [mem EXCEPT ![M.addr] = heap[M.src]]
                                                 ELSE mem
             ELSE mem' = mem
    BY <1>4 DEF PropagateWriteback, M
  <2>2. M \in Clone /\ ~M.ready
    BY <1>1, <1>4, StageNames DEF M, Full, IInv, Boxed
  <2>3. d.pc = M.pc /\ d.own = M.own /\ d.data = M.data
    BY <2>2 DEF Clone
  <2>4. d.pc # -1
    BY <2>2, <2>3, SizeAssumption DEF Clone, Pc
  <2> HIDE DEF d
  <2>5. ins'["writeback"] = d /\ ins'["mem"] = None
        /\ \A s \in {"fetch", "decode", "execute"} : ins'[s] = ins[s]
    BY <1>1, <2>1, StageNames DEF Moves
  <2>6. Full("writeback")' /\ ~Full("mem")'
    BY <2>4, <2>5 DEF Full, None
  <2>7. mem' = IF Code(M).op = "WRITE" THEN [mem EXCEPT ![M.addr] = heap[M.src]] ELSE mem
    BY <2>1, <2>2 DEF IsMem, MemOps
  <2> QED BY <1>2, <1>4, <2>3, <2>5, <2>6, <2>7
<1> QED BY <1>3, <1>4

\* What is started or accessed on the way from execute to mem, by its kind: c
\* is the clone in execute, d what it becomes.
Effect(c, d) ==
  \/ /\ IsMem(Code(c)) /\ scratch' = scratch
     /\ d.data = Fresh /\ (Code(c).op = "WRITE" => d.src = Source(c))
     /\ heap' = [heap EXCEPT ![Fresh] =
                   IF Code(c).op = "READ" THEN mem[c.addr] ELSE heap[Source(c)]]
  \/ /\ Code(c).op = "SCRATCH_READ" /\ scratch' = scratch
     /\ c.addr \in Scratch /\ c.left = 0 /\ d.left = 0
     /\ d.data = Fresh /\ heap' = [heap EXCEPT ![Fresh] = scratch[c.addr]]
  \/ /\ Code(c).op = "SCRATCH_WRITE" /\ heap' = heap
     /\ c.addr \in Scratch /\ c.left = 0 /\ d.left = 0
     /\ d.src = c.src /\ d.was = scratch[c.addr]
     /\ scratch' = [scratch EXCEPT ![c.addr] = heap[c.src]]
  \/ /\ ~IsMem(Code(c)) /\ ~IsScratch(Code(c)) /\ ~Jumps(c)
     /\ d.left = 0 /\ UNCHANGED <<heap, scratch>>

\* What moves to mem has an effect of its own kind there.
LEMMA MemDoes ==
  ASSUME IInv, PropagateMem
  PROVE  LET c == ins["execute"]
             d == ins'["mem"]
         IN
         /\ phase = "mem" /\ phase' = "execute"
         /\ UNCHANGED <<cache, loads, opVals, sreg, vreg, mem>>
         /\ ins'["writeback"] = ins["writeback"]
         /\ \/ UNCHANGED <<ins, pc, heap, scratch>>
            \/ /\ ~Full("mem") /\ Full("execute") /\ Full("mem")' /\ ~Full("execute")'
               /\ ins'["fetch"] = ins["fetch"] /\ ins'["decode"] = ins["decode"]
               /\ pc' = pc
               /\ d.pc = c.pc /\ d.own = c.own /\ d.addr = c.addr
               /\ Effect(c, d)
            \/ /\ ~Full("mem") /\ Full("execute") /\ ~Full("mem")'
               /\ ~Full("execute")' /\ ~Full("decode")' /\ ~Full("fetch")'
               /\ Jumps(c) /\ pc' = Code(c).addr /\ UNCHANGED <<heap, scratch>>
<1> DEFINE c == ins["execute"]
           d == ins'["mem"]
           stays == Full("mem") \/ ~Full("execute") \/ ~(IsDone(c) \/ IsMem(Code(c)))
<1>1. ins \in [Stages -> Clone \cup {None}]
  BY DEF IInv, TypeOK
<1>2. /\ phase = "mem" /\ phase' = "execute"
      /\ UNCHANGED <<cache, loads, opVals, sreg, vreg, mem>>
  BY DEF PropagateMem, At, Goto
<1>3. CASE stays
  BY <1>2, <1>3 DEF PropagateMem
<1>4. ASSUME ~stays
      PROVE  /\ c \in Clone /\ c.pc # -1 /\ ~Full("mem") /\ Full("execute")
             /\ (c.state = "COLD" <=> IsMem(Code(c)))
             /\ ~IsMem(Code(c)) => c.left = 0
  <2>1. c \in Clone
    BY <1>1, <1>4, StageNames DEF Full
  <2> QED BY <1>4, <2>1, SizeAssumption DEF IInv, StartedOnce, IsDone, Clone, Pc
<1>5. ASSUME ~stays, NEW e, Moves("execute", "mem", e), e.pc = c.pc
      PROVE  /\ ins'["mem"] = e /\ Full("mem")' /\ ~Full("execute")'
             /\ ins'["fetch"] = ins["fetch"] /\ ins'["decode"] = ins["decode"]
             /\ ins'["writeback"] = ins["writeback"]
  <2>1. /\ ins'["mem"] = e /\ ins'["execute"] = None
        /\ ins'["fetch"] = ins["fetch"] /\ ins'["decode"] = ins["decode"]
        /\ ins'["writeback"] = ins["writeback"]
    BY <1>1, <1>5, StageNames DEF Moves
  <2>2. e # None
    BY <1>4, <1>5 DEF None
  <2> QED BY <2>1, <2>2 DEF Full
<1>6. ASSUME ~stays, NEW e, Moves("execute", "mem", e), e.pc = c.pc, e.own = c.own,
             e.addr = c.addr, pc' = pc, d = e => Effect(c, d)
      PROVE  /\ ins'["writeback"] = ins["writeback"]
             /\ ~Full("mem") /\ Full("execute") /\ Full("mem")' /\ ~Full("execute")'
             /\ ins'["fetch"] = ins["fetch"] /\ ins'["decode"] = ins["decode"]
             /\ pc' = pc
             /\ d.pc = c.pc /\ d.own = c.own /\ d.addr = c.addr
             /\ Effect(c, d)
  BY <1>4, <1>5, <1>6
<1>7. CASE ~stays /\ IsMem(Code(c))
  <2>1. Moves("execute", "mem", Started(c)) /\ Issue(c) /\ pc' = pc /\ scratch' = scratch
    BY <1>4, <1>7 DEF PropagateMem
  <2>2. PICK src : src = IF Code(c).op = "WRITE" THEN Source(c) ELSE NoBuf
    OBVIOUS
  <2>3. /\ Started(c).pc = c.pc /\ Started(c).own = c.own /\ Started(c).addr = c.addr
        /\ Started(c).data = Fresh /\ Started(c).src = src
    <3>1. Started(c) = [c EXCEPT !.state = "WARM", !.data = Fresh, !.src = src]
      BY <2>2 DEF Started
    <3> QED BY <1>4, <1>7, <3>1 DEF Clone
  <2>4. heap' = [heap EXCEPT ![Fresh] =
                   IF Code(c).op = "READ" THEN mem[c.addr] ELSE heap[Source(c)]]
    <3>1. Code(c).op # "READ" => Code(c).op = "WRITE"
      BY <1>7 DEF IsMem, MemOps
    <3>2. (IF Code(c).op = "READ" THEN mem[c.addr] ELSE heap[Started(c).src])
            = IF Code(c).op = "READ" THEN mem[c.addr] ELSE heap[Source(c)]
      BY <2>2, <2>3, <3>1
    <3> QED BY <2>1, <3>2 DEF Issue
  <2>5. d = Started(c) => Effect(c, d)
    BY <1>7, <2>1, <2>2, <2>3, <2>4 DEF Effect
  <2>6. /\ ins'["writeback"] = ins["writeback"]
        /\ ~Full("mem") /\ Full("execute") /\ Full("mem")' /\ ~Full("execute")'
        /\ ins'["fetch"] = ins["fetch"] /\ ins'["decode"] = ins["decode"]
        /\ pc' = pc
        /\ d.pc = c.pc /\ d.own = c.own /\ d.addr = c.addr
        /\ Effect(c, d)
    BY <1>6, <1>7, <2>1, <2>3, <2>5
  <2> QED BY <1>2, <2>6
<1>8. CASE ~stays /\ IsScratch(Code(c))
  <2>1. ~IsMem(Code(c))
    BY <1>8 DEF IsScratch, ScratchOps, IsMem, MemOps
  <2>2. /\ c.addr \in Scratch /\ Moves("execute", "mem", Accessed(c)) /\ Access(c)
        /\ pc' = pc
    BY <1>4, <1>8, <2>1 DEF PropagateMem
  <2>3. PICK data : data = IF Code(c).op = "SCRATCH_READ" THEN Fresh ELSE c.data
    OBVIOUS
  <2>4. /\ Accessed(c).pc = c.pc /\ Accessed(c).own = c.own /\ Accessed(c).addr = c.addr
        /\ Accessed(c).data = data /\ Accessed(c).src = c.src
        /\ Accessed(c).was = scratch[c.addr] /\ Accessed(c).left = c.left
    <3>1. Accessed(c) = [c EXCEPT !.state = "DONE", !.data = data, !.was = scratch[c.addr]]
      BY <2>3 DEF Accessed
    <3> QED BY <1>4, <1>8, <3>1 DEF Clone
  <2>5. d = Accessed(c) => Effect(c, d)
    BY <1>4, <1>8, <2>1, <2>2, <2>3, <2>4 DEF Access, IsScratch, ScratchOps, Effect
  <2>6. /\ ins'["writeback"] = ins["writeback"]
        /\ ~Full("mem") /\ Full("execute") /\ Full("mem")' /\ ~Full("execute")'
        /\ ins'["fetch"] = ins["fetch"] /\ ins'["decode"] = ins["decode"]
        /\ pc' = pc
        /\ d.pc = c.pc /\ d.own = c.own /\ d.addr = c.addr
        /\ Effect(c, d)
    BY <1>6, <1>8, <2>2, <2>4, <2>5
  <2> QED BY <1>2, <2>6
<1>9. CASE ~stays /\ ~IsMem(Code(c)) /\ ~IsScratch(Code(c)) /\ Jumps(c)
  <2>1. /\ pc' = Code(c).addr /\ UNCHANGED <<heap, scratch>>
        /\ ins' = [s \in Stages |-> IF s \in Flushed THEN None ELSE ins[s]]
    BY <1>4, <1>9 DEF PropagateMem
  <2>2. /\ ~Full("execute")' /\ ~Full("decode")' /\ ~Full("fetch")'
        /\ ins'["mem"] = ins["mem"] /\ ins'["writeback"] = ins["writeback"]
    BY <2>1, StageNames DEF Full, Flushed
  <2> QED BY <1>2, <1>4, <1>9, <2>1, <2>2 DEF Full
<1>10. CASE ~stays /\ ~IsMem(Code(c)) /\ ~IsScratch(Code(c)) /\ ~Jumps(c)
  <2> DEFINE e == [c EXCEPT !.state = "DONE"]
  <2>1. Moves("execute", "mem", e) /\ UNCHANGED <<pc, heap, scratch>>
    BY <1>4, <1>10 DEF PropagateMem
  <2>2. e.pc = c.pc /\ e.own = c.own /\ e.addr = c.addr /\ e.left = c.left
    BY <1>4, <1>10 DEF Clone
  <2> HIDE DEF e
  <2>3. d = e => Effect(c, d)
    BY <1>4, <1>10, <2>1, <2>2 DEF Effect
  <2>6. /\ ins'["writeback"] = ins["writeback"]
        /\ ~Full("mem") /\ Full("execute") /\ Full("mem")' /\ ~Full("execute")'
        /\ ins'["fetch"] = ins["fetch"] /\ ins'["decode"] = ins["decode"]
        /\ pc' = pc
        /\ d.pc = c.pc /\ d.own = c.own /\ d.addr = c.addr
        /\ Effect(c, d)
    BY <1>6, <1>10, <2>1, <2>2, <2>3
  <2> QED BY <1>2, <2>6
<1> QED BY <1>3, <1>7, <1>8, <1>9, <1>10

\* What leaves decode takes its indexed address, a SCRATCH_WRITE its source.
LEMMA ExecuteDoes ==
  ASSUME IInv, PropagateExecute
  PROVE  LET c == ins["decode"]
             e == ins'["execute"]
         IN
         /\ phase = "execute" /\ phase' = "decode"
         /\ UNCHANGED <<cache, loads, pc, sreg, vreg, heap, scratch, mem>>
         /\ \A s \in {"fetch", "mem", "writeback"} : ins'[s] = ins[s]
         /\ \/ UNCHANGED ins
            \/ /\ ~Full("execute") /\ Full("decode") /\ Full("execute")' /\ ~Full("decode")'
               /\ e.pc = c.pc /\ e.addr = c.addr + Offset(Code(c)) /\ e.state # "DONE"
               /\ Code(c).op = "SCRATCH_WRITE" => e.src = vreg[Code(c).in1] /\ e.left = 2
<1> DEFINE c == ins["decode"]
           i == Code(c)
           d == Entered(c)
<1>1. ins \in [Stages -> Clone \cup {None}]
  BY DEF IInv, TypeOK
<1>2. /\ phase = "execute" /\ phase' = "decode"
      /\ UNCHANGED <<cache, loads, pc, sreg, vreg, heap, scratch, mem>>
  BY DEF PropagateExecute, At, Goto, regs, bank
<1>3. CASE ~(~Full("execute") /\ Full("decode") /\ (c.state = "COLD" \/ IsMem(i)))
  BY <1>2, <1>3 DEF PropagateExecute
<1>4. CASE ~Full("execute") /\ Full("decode") /\ (c.state = "COLD" \/ IsMem(i))
  <2>1. c \in Clone /\ c.state = "COLD" /\ c.pc # -1 /\ c.addr \in Nat
    BY <1>1, <1>4, StageNames, SizeAssumption DEF Full, Clone, Pc, IInv, StartedOnce
  <2>2. Moves("decode", "execute", d)
    BY <1>4 DEF PropagateExecute
  <2>3. /\ d.pc = c.pc /\ d.addr = Indexed(c)
        /\ d.state # "DONE"
        /\ i.op = "SCRATCH_WRITE" => d.src = vreg[i.in1] /\ d.left = 2
    <3>1. PICK left, src, state :
            /\ left = IF IsScratch(i) THEN PastDeadline ELSE c.left
            /\ src = IF i.op = "SCRATCH_WRITE" THEN vreg[i.in1] ELSE c.src
            /\ state = IF IsMem(i) THEN c.state ELSE "WARM"
      OBVIOUS
    <3>2. d = [c EXCEPT !.own = ReadOperands(c), !.addr = Indexed(c), !.left = left,
                        !.src = src, !.state = state]
      BY <3>1 DEF Entered
    <3>3. /\ d.pc = c.pc /\ d.addr = Indexed(c) /\ d.left = left /\ d.src = src
          /\ d.state = state
      BY <2>1, <3>2 DEF Clone
    <3> QED BY <2>1, <3>1, <3>3 DEF IsScratch, ScratchOps, PastDeadline
  <2>4. Indexed(c) = c.addr + Offset(i)
    BY <2>1 DEF Indexed, Offset
  <2> HIDE DEF d
  <2>5. /\ ins'["execute"] = d /\ ins'["decode"] = None
        /\ \A s \in {"fetch", "mem", "writeback"} : ins'[s] = ins[s]
    BY <1>1, <2>2, StageNames DEF Moves
  <2>6. Full("execute")' /\ ~Full("decode")'
    BY <2>1, <2>3, <2>5 DEF Full, None
  <2> QED BY <1>2, <1>4, <2>3, <2>4, <2>5, <2>6
<1> QED BY <1>3, <1>4

\* What leaves fetch is not touched.
LEMMA DecodeDoes ==
  ASSUME IInv, PropagateDecode
  PROVE  /\ phase = "decode" /\ phase' = "tick"
         /\ UNCHANGED <<cache, loads, pc, opVals, sreg, vreg, heap, scratch, mem>>
         /\ \A s \in Older : ins'[s] = ins[s]
         /\ \/ UNCHANGED ins
            \/ /\ ~Full("decode") /\ Full("fetch") /\ ~Full("fetch")'
               /\ ins'["decode"] = ins["fetch"]
<1>1. ins \in [Stages -> Clone \cup {None}]
  BY DEF IInv, TypeOK
<1>2. /\ phase = "decode" /\ phase' = "tick"
      /\ UNCHANGED <<cache, loads, pc, opVals, sreg, vreg, heap, scratch, mem>>
  BY DEF PropagateDecode, At, Goto, regs, bank
<1>3. CASE UNCHANGED ins
  BY <1>2, <1>3
<1>4. CASE ~Full("decode") /\ Full("fetch") /\ Moves("fetch", "decode", ins["fetch"])
  <2>1. /\ ins'["decode"] = ins["fetch"] /\ ins'["fetch"] = None
        /\ \A s \in Older : ins'[s] = ins[s]
    BY <1>1, <1>4, StageNames DEF Moves
  <2> QED BY <1>2, <1>4, <2>1 DEF Full
<1> QED BY <1>3, <1>4 DEF PropagateDecode

\* Only the clone in execute counts down.
LEMMA TickDoes ==
  ASSUME IInv, TickStages
  PROVE  LET c == ins["execute"]
             e == ins'["execute"]
         IN
         /\ phase = "tick" /\ phase' = "handle"
         /\ UNCHANGED <<cache, loads, pc, opVals, sreg, vreg, heap, scratch, mem>>
         /\ \A s \in Stages : s # "execute" => ins'[s] = ins[s]
         /\ \/ UNCHANGED ins /\ (Full("execute") => c.left = 0)
            \/ /\ Full("execute") /\ Full("execute")' /\ c.left > 0 /\ e.left = c.left - 1
               /\ e.pc = c.pc /\ e.addr = c.addr /\ e.src = c.src /\ e.state = c.state
<1> DEFINE c == ins["execute"]
           e == [c EXCEPT !.left = @ - 1]
<1>1. ins \in [Stages -> Clone \cup {None}]
  BY DEF IInv, TypeOK
<1>2. /\ phase = "tick" /\ phase' = "handle"
      /\ UNCHANGED <<cache, loads, pc, opVals, sreg, vreg, heap, scratch, mem>>
  BY DEF TickStages, At, Goto, regs, bank
<1>3. CASE ~(Full("execute") /\ c.left > 0)
  <2>1. Full("execute") => c.left \in 0..2
    BY <1>1, StageNames DEF Full, Clone
  <2> QED BY <1>2, <1>3, <2>1 DEF TickStages
<1>4. CASE Full("execute") /\ c.left > 0
  <2>1. ins' = [ins EXCEPT !["execute"] = e]
    BY <1>4 DEF TickStages
  <2>2. c \in Clone /\ c.pc # -1
    BY <1>1, <1>4, StageNames, SizeAssumption DEF Full, Clone, Pc
  <2>3. /\ e.left = c.left - 1 /\ e.pc = c.pc /\ e.addr = c.addr /\ e.src = c.src
        /\ e.state = c.state
    BY <2>2 DEF Clone
  <2> HIDE DEF e
  <2>4. ins'["execute"] = e /\ \A s \in Stages : s # "execute" => ins'[s] = ins[s]
    BY <1>1, <2>1, StageNames
  <2>5. Full("execute")'
    BY <2>2, <2>3, <2>4 DEF Full, None
  <2> QED BY <1>2, <1>4, <2>3, <2>4, <2>5
<1> QED BY <1>3, <1>4

\* The handlers, with a command or without.
Handling ==
  /\ phase = "handle" /\ phase' = "drain"
  /\ UNCHANGED <<opVals, sreg, vreg, heap, scratch, mem>>
  /\ \A s \in Stages : s # "fetch" => ins'[s] = ins[s]
  /\ \A s \in Stages : Full(s) => cache'[ins[s].pc + 1] = Code(ins[s])
  /\ \/ UNCHANGED <<ins, pc>>
     \/ /\ ~Full("fetch") /\ Full("fetch")'
        /\ ins'["fetch"].pc = pc /\ ins'["fetch"].addr = cache'[pc + 1].addr
        /\ pc' = IF cache'[pc + 1].op = "JMP" THEN cache'[pc + 1].addr ELSE Succ(pc)

\* Whether a command is handled first or not, at most one clone is fetched and
\* what was cached stays where it is.
LEMMA HandlersDo ==
  ASSUME IInv, Handle \/ \E p \in Programs : HandleCommand(p)
  PROVE  Handling
<1>1. PICK code \in Seq(Instruction) :
        /\ cache' = code /\ FetchFrom(code)
        /\ phase = "handle" /\ phase' = "drain"
        /\ UNCHANGED <<opVals, sreg, vreg, heap, scratch, mem>>
        /\ \A n \in DOMAIN cache : code[n] = cache[n]
  <2>1. CASE Handle
    BY <2>1 DEF Handle, At, Goto, regs, bank, IInv, TypeOK
  <2>2. ASSUME NEW p \in Programs, HandleCommand(p)
        PROVE  \E code \in Seq(Instruction) :
                 /\ cache' = code /\ FetchFrom(code)
                 /\ phase = "handle" /\ phase' = "drain"
                 /\ UNCHANGED <<opVals, sreg, vreg, heap, scratch, mem>>
                 /\ \A n \in DOMAIN cache : code[n] = cache[n]
    <3> DEFINE code == cache \o Relocated(p, Len(cache))
    <3>1. /\ cache' = code /\ FetchFrom(code) /\ phase = "handle" /\ phase' = "drain"
          /\ UNCHANGED <<opVals, sreg, vreg, heap, scratch, mem>>
      BY <2>2 DEF HandleCommand, At, Goto, regs, bank
    <3>2. code \in Seq(Instruction) /\ \A n \in DOMAIN cache : code[n] = cache[n]
      BY <2>2, Loaded
    <3> HIDE DEF code
    <3> QED BY <3>1, <3>2
  <2> QED BY <2>1, <2>2
<1>2. ins \in [Stages -> Clone \cup {None}] /\ pc \in Pc
  BY DEF IInv, TypeOK
<1>3. \A s \in Stages : Full(s) => cache'[ins[s].pc + 1] = Code(ins[s])
  <2> SUFFICES ASSUME NEW s \in Stages, Full(s)
               PROVE  cache'[ins[s].pc + 1] = Code(ins[s])
    OBVIOUS
  <2>1. ins[s].pc + 1 \in DOMAIN cache
    BY CodeFacts DEF IInv
  <2> QED BY <1>1, <2>1 DEF Code
<1>4. CASE UNCHANGED <<ins, pc>>
  BY <1>1, <1>3, <1>4 DEF Handling
<1>5. CASE pc < Len(code) /\ ~Full("fetch")
  <2> DEFINE i == code[pc + 1]
             d == [pc |-> pc, state |-> "COLD", left |-> i.time, addr |-> i.addr,
                   src |-> NoBuf, data |-> NoBuf, ready |-> FALSE, own |-> Nothing, was |-> 0]
  <2>1. /\ ins' = [ins EXCEPT !["fetch"] = d]
        /\ pc' = IF i.op = "JMP" THEN i.addr ELSE Succ(pc)
    BY <1>1, <1>5 DEF FetchFrom
  <2>2. d.pc = pc /\ d.addr = i.addr /\ d.pc # -1
    BY <1>2, SizeAssumption DEF Pc
  <2> HIDE DEF d
  <2>3. ins'["fetch"] = d /\ \A s \in Stages : s # "fetch" => ins'[s] = ins[s]
    BY <1>2, <2>1, StageNames
  <2>4. Full("fetch")'
    BY <2>2, <2>3 DEF Full, None
  <2> QED BY <1>1, <1>3, <1>5, <2>1, <2>2, <2>3, <2>4 DEF Handling
<1> QED BY <1>1, <1>4, <1>5 DEF FetchFrom

\* DRAMsim3 and the steps that are none touch nothing of all this.
Idle == UNCHANGED <<phase, cache, loads, pc, ins, opVals, sreg, vreg, heap, scratch, mem>>

\* All there is to a step.
LEMMA Steps ==
  ASSUME IInv, [Next]_vars
  PROVE  \/ Drain \/ PropagateWriteback \/ PropagateMem \/ PropagateExecute
         \/ PropagateDecode \/ TickStages \/ Handling \/ Idle
<1>1. Serve \/ UNCHANGED vars => Idle
  BY DEF Serve, vars, regs, bank, Idle
<1> QED BY <1>1, HandlersDo DEF Next, CoreStep

-----------------------------------------------------------------------------
(* The invariants are kept, part by part.                                  *)

\* Clones move in order, and a taken jump leaves none behind it.
LEMMA PathNext ==
  ASSUME IInv, Path, [Next]_vars
  PROVE  Path'
<1> USE StageNames DEF Path, BehindFetch, BehindDecode, BehindExecute, BehindMem, Flow
<1>1. CASE Drain
  BY <1>1, DrainDoes DEF Full
<1>2. CASE PropagateWriteback
  BY <1>2, WritebackDoes DEF Full
<1>3. CASE PropagateMem
  BY <1>3, MemDoes DEF Full
<1>4. CASE PropagateExecute
  BY <1>4, ExecuteDoes DEF Full
<1>5. CASE PropagateDecode
  BY <1>5, DecodeDoes DEF Full
<1>6. CASE TickStages
  BY <1>6, TickDoes DEF Full
<1>7. CASE Handling
  BY <1>7 DEF Handling, Full, Code
<1>8. CASE Idle
  BY <1>8 DEF Idle, Full
<1> QED BY <1>1, <1>2, <1>3, <1>4, <1>5, <1>6, <1>7, <1>8, Steps

\* The registers that the addresses of execute and mem are indexed by do not
\* change before these retire.
LEMMA AddressedNext ==
  ASSUME Known, Addressed, [Next]_vars
  PROVE  Addressed'
<1> USE StageNames DEF Addressed, Code
<1>1. CASE Drain
  <2>1. ASSUME NEW s \in {"execute", "mem"}, Full(s)
        PROVE  Offset(Code(ins[s]))' = Offset(Code(ins[s]))
    <3> DEFINE i == Code(ins[s])
               r == OffsetReg(i)
    <3>1. i \in Instruction /\ WellFormed(i)
      BY <2>1, CodeFacts DEF Known, IInv
    <3>2. IsMem(i) /\ r # NoReg => r \in SReg /\ r \in {i.in1, i.in2}
      BY <3>1, Shapes DEF OffsetReg, IsMem, MemOps
    <3>3. ASSUME NEW q \in SReg, q = r, IsMem(i), r # NoReg
          PROVE  sreg'[q] = sreg[q]
      <4>1. Now(q)' = Now(q)
        <5> HIDE DEF Code
        <5>1. s \in Older /\ s # "writeback" /\ q # NoReg
          BY <3>3
        <5>2. q \in {Code(ins[s]).in1, Code(ins[s]).in2}
          BY <3>2, <3>3
        <5> QED BY <1>1, <2>1, <3>3, <5>1, <5>2, RetiredRegister DEF Known
      <4> QED BY <3>3, <4>1 DEF Now
    <3>4. Code(ins[s])' = i
      BY <1>1, DrainDoes DEF Known
    <3>5. IsMem(i) /\ r # NoReg => sreg'[r] = sreg[r]
      BY <3>2, <3>3
    <3> HIDE DEF Code
    <3>6. Offset(Code(ins[s]))'
            = IF IsMem(i) /\ r # NoReg THEN sreg'[r] ELSE 0
      BY <3>4 DEF Offset
    <3> QED BY <3>5, <3>6 DEF Offset
  <2> HIDE DEF Code
  <2>2. \A s \in Stages : s # "writeback" =>
          ins'[s] = ins[s] /\ (Full(s)' <=> Full(s)) /\ Code(ins[s])' = Code(ins[s])
    BY <1>1, DrainDoes DEF Full, Known, Code
  <2> QED BY <2>1, <2>2
<1>2. CASE PropagateWriteback
  BY <1>2, WritebackDoes DEF Full, Known, Offset
<1>3. CASE PropagateMem
  BY <1>3, MemDoes DEF Full, Known, Offset
<1>4. CASE PropagateExecute
  BY <1>4, ExecuteDoes DEF Full, Known, Offset
<1>5. CASE PropagateDecode
  BY <1>5, DecodeDoes DEF Full, Known, Offset
<1>6. CASE TickStages
  BY <1>6, TickDoes DEF Full, Known, Offset
<1>7. CASE Handling
  BY <1>7 DEF Handling, Full, Known, Offset
<1>8. CASE Idle
  BY <1>8 DEF Idle, Full, Offset
<1> QED BY <1>1, <1>2, <1>3, <1>4, <1>5, <1>6, <1>7, <1>8, Steps DEF Known

\* The registers a clone past decode reads are the same after the drain.
LEMMA DrainKeeps ==
  ASSUME Known, Drain, NEW s \in {"execute", "mem"}, Full(s),
         NEW q, q # NoReg,
         \/ q \in {Code(ins[s]).in1, Code(ins[s]).in2}
         \/ q = Gdl /\ UsesGdl(Code(ins[s]))
  PROVE  (q \in SReg => sreg'[q] = sreg[q]) /\ (q \in Vector => vreg'[q] = vreg[q])
<1>1. s \in Older /\ s # "writeback"
  BY StageNames
<1>2. q \in SReg \cup Vector => Now(q)' = Now(q)
  BY <1>1, RetiredRegister DEF Known
<1> QED BY <1>2, Names DEF Now

\* A source names its register's buffer until the WRITE is done: what retires
\* meanwhile does not rebind that register (the interlock).
LEMMA SourcesNext ==
  ASSUME Known, Sources, [Next]_vars
  PROVE  Sources'
<1> USE StageNames DEF Sources
<1>1. CASE Drain
  <2>1. \A s \in Stages : s # "writeback" =>
          ins'[s] = ins[s] /\ (Full(s)' <=> Full(s)) /\ Code(ins[s])' = Code(ins[s])
    BY <1>1, DrainDoes DEF Full, Known, Code
  <2>2. ASSUME NEW s \in {"execute", "mem"}, Full(s),
               Code(ins[s]).op \in {"WRITE", "SCRATCH_WRITE"}
        PROVE  Source(ins[s])' = Source(ins[s])
    <3>1. PICK q : q = IF Code(ins[s]).in1 = NoReg THEN Gdl ELSE Code(ins[s]).in1
      OBVIOUS
    <3>2. Code(ins[s]) \in Instruction /\ WellFormed(Code(ins[s]))
      BY <2>2, CodeFacts DEF Known, IInv
    <3>3. /\ q # NoReg /\ q \in Vector
          /\ q = Code(ins[s]).in1 \/ (q = Gdl /\ UsesGdl(Code(ins[s])))
      BY <2>2, <3>1, <3>2, Shapes, Names DEF UsesGdl, IsMem, MemOps
    <3>4. vreg'[q] = vreg[q]
      BY <1>1, <2>2, <3>3, DrainKeeps
    <3> QED BY <2>1, <3>1, <3>4 DEF Source
  <2> QED BY <2>1, <2>2
<1>2. CASE PropagateWriteback
  BY <1>2, WritebackDoes DEF Full, Known, Code, Source
<1>3. CASE PropagateMem
  <2>1. cache' = cache /\ vreg' = vreg
    BY <1>3, MemDoes DEF Known
  <2>2. CASE UNCHANGED ins
    BY <2>1, <2>2 DEF Full, Code, Source
  <2>3. CASE /\ Full("execute") /\ ~Full("execute")'
             /\ ins'["mem"].pc = ins["execute"].pc
             /\ Effect(ins["execute"], ins'["mem"])
    <3>1. Code(ins["mem"])' = Code(ins["execute"])
      BY <2>1, <2>3 DEF Code
    <3>2. Source(ins["mem"])' = Source(ins["execute"])
      BY <2>1, <3>1 DEF Source
    <3> QED BY <2>3, <3>1, <3>2 DEF Effect, IsMem, MemOps, IsScratch, ScratchOps
  <2>4. CASE ~Full("mem")' /\ ~Full("execute")'
    BY <2>4
  <2> QED BY <1>3, <2>2, <2>3, <2>4, MemDoes DEF Known
<1>4. CASE PropagateExecute
  <2>1. cache' = cache /\ vreg' = vreg /\ ins'["mem"] = ins["mem"]
    BY <1>4, ExecuteDoes DEF Known
  <2>2. CASE UNCHANGED ins
    BY <2>1, <2>2 DEF Full, Code, Source
  <2>3. CASE /\ Full("decode") /\ ins'["execute"].pc = ins["decode"].pc
             /\ Code(ins["decode"]).op = "SCRATCH_WRITE" =>
                  ins'["execute"].src = vreg[Code(ins["decode"]).in1]
    <3>1. Code(ins["execute"])' = Code(ins["decode"])
      BY <2>1, <2>3 DEF Code
    <3>2. Code(ins["decode"]) \in Instruction /\ WellFormed(Code(ins["decode"]))
      BY <2>3, CodeFacts DEF Known, IInv
    <3>3. Code(ins["decode"]).op = "SCRATCH_WRITE" => Code(ins["decode"]).in1 # NoReg
      BY <3>2, Shapes, Names
    <3> QED BY <2>1, <2>3, <3>1, <3>3 DEF Full, Code, Source
  <2> QED BY <1>4, <2>2, <2>3, ExecuteDoes DEF Known
<1>5. CASE PropagateDecode
  BY <1>5, DecodeDoes DEF Full, Known, Code, Source
<1>6. CASE TickStages
  BY <1>6, TickDoes DEF Full, Known, Code, Source
<1>7. CASE Handling
  BY <1>7 DEF Handling, Full, Code, Source
<1>8. CASE Idle
  BY <1>8 DEF Idle, Full, Code, Source
<1> QED BY <1>1, <1>2, <1>3, <1>4, <1>5, <1>6, <1>7, <1>8, Steps DEF Known

\* The operands a jump was decided on stay in the registers.
LEMMA NotTakenNext ==
  ASSUME Known, NotTaken, [Next]_vars
  PROVE  NotTaken'
<1> USE StageNames DEF NotTaken, M
<1>0. ASSUME NEW s \in Stages, Full(s), Code(ins[s]).op \in CondJumps
      PROVE  Code(ins[s]).in1 \in SReg /\ Code(ins[s]).in2 \in SReg
  BY <1>0, CodeFacts, Shapes DEF Known, IInv
<1>1. CASE Drain
  <2>1. \A s \in Stages : s # "writeback" =>
          ins'[s] = ins[s] /\ (Full(s)' <=> Full(s)) /\ Code(ins[s])' = Code(ins[s])
    BY <1>1, DrainDoes DEF Full, Known, Code
  <2>2. ASSUME Full("mem"), Code(M).op \in CondJumps
        PROVE  sreg'[Code(M).in1] = sreg[Code(M).in1] /\ sreg'[Code(M).in2] = sreg[Code(M).in2]
    <3>1. Code(M).in1 \in SReg /\ Code(M).in2 \in SReg
      BY <1>0, <2>2
    <3>2. PICK q \in SReg, r \in SReg : q = Code(M).in1 /\ r = Code(M).in2
      BY <3>1
    <3>3. sreg'[q] = sreg[q] /\ sreg'[r] = sreg[r]
      BY <1>1, <2>2, <3>2, DrainKeeps, Names
    <3> QED BY <3>2, <3>3
  <2> QED BY <2>1, <2>2
<1>2. CASE PropagateWriteback
  BY <1>2, WritebackDoes DEF Full, Known, Code
<1>3. CASE PropagateMem
  <2>1. cache' = cache /\ sreg' = sreg
    BY <1>3, MemDoes DEF Known
  <2>2. CASE UNCHANGED ins
    BY <2>1, <2>2 DEF Full, Code
  <2>3. CASE /\ Full("execute") /\ ~Full("execute")'
             /\ ins'["mem"].pc = ins["execute"].pc
             /\ Effect(ins["execute"], ins'["mem"])
    <3> DEFINE c == ins["execute"]
               i == Code(c)
    <3>1. Code(ins["mem"])' = i
      BY <2>1, <2>3 DEF Code
    <3>2. ASSUME i.op \in CondJumps
          PROVE  ~Taken(i, sreg[i.in1], sreg[i.in2])
      <4>1. ~Jumps(c) /\ c.state # "DONE"
        BY <2>3, <3>2 DEF Effect, IsMem, MemOps, CondJumps
      <4>2. ~Taken(i, opVals[c.pc].in1, opVals[c.pc].in2)
        BY <3>2, <4>1 DEF Jumps
      <4>3. i.in1 \in SReg /\ i.in2 \in SReg
        BY <1>0, <2>3, <3>2
      <4>4. OwnCurrentAt(c)
        BY <2>3 DEF Known, OwnCurrent
      <4>5. opVals[c.pc].in1 = sreg[i.in1] /\ opVals[c.pc].in2 = sreg[i.in2]
        BY <4>3, <4>4, Names DEF OwnCurrentAt, Now
      <4> QED BY <4>2, <4>5
    <3> HIDE DEF i
    <3> QED BY <2>1, <2>3, <3>1, <3>2
  <2>4. CASE ~Full("mem")' /\ ~Full("execute")'
    BY <2>4
  <2> QED BY <1>3, <2>2, <2>3, <2>4, MemDoes DEF Known
<1>4. CASE PropagateExecute
  BY <1>4, ExecuteDoes DEF Full, Known, Code
<1>5. CASE PropagateDecode
  BY <1>5, DecodeDoes DEF Full, Known, Code
<1>6. CASE TickStages
  BY <1>6, TickDoes DEF Full, Known, Code
<1>7. CASE Handling
  BY <1>7 DEF Handling, Full, Code
<1>8. CASE Idle
  BY <1>8 DEF Idle, Full, Code
<1> QED BY <1>1, <1>2, <1>3, <1>4, <1>5, <1>6, <1>7, <1>8, Steps DEF Known

\* The clones before a SCRATCH_WRITE leave mem and writeback one a tick.
LEMMA DeadlinesNext ==
  ASSUME Known, Deadlines, [Next]_vars
  PROVE  Deadlines'
<1> USE StageNames DEF Deadlines, Settled, InPlace, M
<1>1. CASE Drain
  BY <1>1, DrainDoes DEF Full, Known, Code
<1>2. CASE PropagateWriteback
  <2>1. /\ cache' = cache /\ phase = "writeback" /\ phase' = "mem"
        /\ ins'["execute"] = ins["execute"]
    BY <1>2, WritebackDoes DEF Known
  <2>2. CASE UNCHANGED ins /\ (~Full("mem") \/ ~IsDone(M))
    <3>1. ~InPlace("mem")
      <4>1. Vectorial(Code(M)) => ~IsMem(Code(M))
        BY DEF Vectorial, ScalarOps, VecOps, IsMem, MemOps
      <4> QED BY <2>2, <4>1 DEF IsDone
    <3> QED BY <2>1, <2>2, <3>1 DEF Full, Code
  <2>3. CASE /\ ~Full("mem")' /\ ins'["writeback"].pc = M.pc /\ Full("mem")
    <3>1. Code(ins["writeback"])' = Code(M)
      BY <2>1, <2>3 DEF Code
    <3>2. Code(ins["execute"])' = Code(ins["execute"])
      BY <2>1 DEF Code
    <3> QED BY <2>1, <2>3, <3>1, <3>2 DEF Full
  <2> QED BY <1>2, <2>2, <2>3, WritebackDoes DEF Known
<1>3. CASE PropagateMem
  <2>1. cache' = cache /\ phase' = "execute" /\ phase = "mem"
        /\ ins'["writeback"] = ins["writeback"]
    BY <1>3, MemDoes DEF Known
  <2>2. CASE UNCHANGED ins
    BY <2>1, <2>2 DEF Full, Code
  <2>3. CASE /\ Full("execute") /\ ~Full("execute")'
             /\ ins'["mem"].pc = ins["execute"].pc
             /\ Effect(ins["execute"], ins'["mem"])
    BY <2>1, <2>3 DEF Effect, Code
  <2>4. CASE ~Full("mem")' /\ ~Full("execute")'
    BY <2>1, <2>4
  <2> QED BY <1>3, <2>2, <2>3, <2>4, MemDoes DEF Known
<1>4. CASE PropagateExecute
  BY <1>4, ExecuteDoes DEF Full, Known, Code
<1>5. CASE PropagateDecode
  BY <1>5, DecodeDoes DEF Full, Known, Code
<1>6. CASE TickStages
  <2>1. Full("execute") => ins["execute"].left \in 0..2
    BY DEF Known, IInv, TypeOK, Full, Clone
  <2>2. /\ cache' = cache /\ phase = "tick" /\ phase' = "handle"
        /\ ins'["mem"] = ins["mem"]
    BY <1>6, TickDoes DEF Known
  <2>3. CASE UNCHANGED ins /\ (Full("execute") => ins["execute"].left = 0)
    BY <2>2, <2>3 DEF Full, Code
  <2>4. CASE /\ Full("execute") /\ ins["execute"].left > 0
             /\ ins'["execute"].left = ins["execute"].left - 1
             /\ ins'["execute"].pc = ins["execute"].pc
    <3>1. Code(ins["execute"])' = Code(ins["execute"])
      BY <2>2, <2>4 DEF Code
    <3>2. ins'["execute"].left = 0 => ins["execute"].left = 1
      BY <2>1, <2>4
    <3> QED BY <2>2, <2>4, <3>1, <3>2 DEF Full, Code
  <2> QED BY <1>6, <2>3, <2>4, TickDoes DEF Known
<1>7. CASE Handling
  BY <1>7 DEF Handling, Full, Code
<1>8. CASE Idle
  BY <1>8 DEF Idle, Full, Code
<1> QED BY <1>1, <1>2, <1>3, <1>4, <1>5, <1>6, <1>7, <1>8, Steps DEF Known

-----------------------------------------------------------------------------
(* The registers as SequentialCore sees them.                              *)

\* The registers SequentialCore sees are typed, and those RetiresNow gives.
LEMMA SeenNow ==
  ASSUME Known
  PROVE  /\ SRegNow \in [SReg -> Value] /\ VRegNow \in [Vector -> Buffer]
         /\ HeapNow \in [Buffer -> Value]
         /\ Full("writeback") =>
              /\ Code(W) \in Instruction /\ WellFormed(Code(W))
              /\ SRegNow = SRegOf(Code(W)) /\ HeapNow = HeapOf(Code(W))
              /\ VRegNow = VRegOf(Code(W), W.data)
         /\ ~Full("writeback") => SRegNow = sreg /\ VRegNow = vreg /\ HeapNow = heap
<1>1. CASE ~Full("writeback")
  BY <1>1 DEF Known, IInv, TypeOK, SRegNow, VRegNow, HeapNow
<1>2. CASE Full("writeback")
  <2>1. Code(W) \in Instruction /\ WellFormed(Code(W))
    BY <1>2, CodeFacts, StageNames DEF Known, IInv, W
  <2>2. OwnCurrentAt(W)
    BY <1>2, StageNames DEF Known, OwnCurrent, W
  <2>3. /\ SRegAfter(W) = SRegOf(Code(W)) /\ HeapAfter(W) = HeapOf(Code(W))
        /\ VRegAfter(W) = VRegOf(Code(W), W.data)
    BY <2>1, <2>2, RetiresNow
  <2>4. /\ SRegAfter(W) \in [SReg -> Value] /\ HeapAfter(W) \in [Buffer -> Value]
        /\ VRegAfter(W) \in [Vector -> Buffer]
    BY <1>2, RetireTyped DEF Known, W
  <2> QED BY <1>2, <2>1, <2>3, <2>4 DEF SRegNow, VRegNow, HeapNow
<1> QED BY <1>1, <1>2

\* As long as writeback keeps its clone, they are the same whatever else is
\* loaded, started or captured: what changes is f, a buffer no register has.
Beside(f) ==
  /\ sreg' = sreg /\ vreg' = vreg
  /\ Full("writeback")' <=> Full("writeback")
  /\ Full("writeback") => Code(W)' = Code(W) /\ W'.data = W.data
  /\ \A r \in Vector : vreg[r] # f
  /\ Full("writeback") /\ Loads(W) => W.data # f
  /\ \A b \in Buffer : b # f => heap'[b] = heap[b]

\* So neither the registers nor what they refer to seem to change.
LEMMA Unseen ==
  ASSUME NEW f, Known, Known', Beside(f)
  PROVE  /\ SRegNow' = SRegNow /\ VRegNow' = VRegNow
         /\ \A r \in Vector : VRegNow[r] # f
         /\ \A b \in Buffer : b # f => HeapNow'[b] = HeapNow[b]
<1> USE DEF Beside
<1>1. CASE ~Full("writeback")
  <2>1. SRegNow' = SRegNow /\ VRegNow' = VRegNow /\ VRegNow = vreg
        /\ HeapNow' = heap' /\ HeapNow = heap
    BY <1>1 DEF SRegNow, VRegNow, HeapNow
  <2> QED BY <2>1
<1>2. CASE Full("writeback")
  <2> DEFINE i == Code(W)
  <2>1. i \in Instruction /\ WellFormed(i)
    BY <1>2, SeenNow
  <2>2. /\ SRegNow = SRegOf(i) /\ SRegNow' = SRegOf(i)'
        /\ VRegNow = VRegOf(i, W.data) /\ VRegNow' = VRegOf(i, W.data)'
        /\ HeapNow = HeapOf(i) /\ HeapNow' = HeapOf(i)'
    <3>1. Known => (Full("writeback") =>
            SRegNow = SRegOf(i) /\ VRegNow = VRegOf(i, W.data) /\ HeapNow = HeapOf(i))
      BY SeenNow
    <3>2. Known' => (Full("writeback")' =>
            (SRegNow = SRegOf(i) /\ VRegNow = VRegOf(i, W.data) /\ HeapNow = HeapOf(i))')
      BY SeenNow, PTL
    <3> QED BY <1>2, <3>1, <3>2
  <2>3. i' = i /\ W'.data = W.data
    BY <1>2
  <2>4. vreg \in [Vector -> Buffer] /\ sreg \in [SReg -> Value] /\ heap \in [Buffer -> Value]
        /\ heap' \in [Buffer -> Value]
    BY DEF Known, IInv, TypeOK
  <2>5. SRegOf(i)' = SRegOf(i)
    <3>1. Folding(i) => i.in2 \in Vector
      BY <2>1, Shapes
    <3>2. Folding(i) => heap'[vreg[i.in2]] = heap[vreg[i.in2]]
      BY <2>4, <3>1
    <3> HIDE DEF i
    <3> QED BY <2>3, <3>2 DEF SRegOf
  <2>6. VRegOf(i, W.data)' = VRegOf(i, W.data)
    <3> HIDE DEF i
    <3> QED BY <2>3 DEF VRegOf
  <2>7. \A r \in Vector : VRegOf(i, W.data)[r] # f
    <3>1. Vectorial(i) => i.in1 \in Vector /\ Dest(i) \in Vector
      BY <2>1, Shapes
    <3>2. (IsMem(i) \/ i.op = "SCRATCH_READ") => W.data # f
      BY <1>2 DEF Loads
    <3> HIDE DEF i
    <3> QED BY <2>4, <3>1, <3>2 DEF VRegOf
  <2>8. \A b \in Buffer : b # f => HeapOf(i)'[b] = HeapOf(i)[b]
    <3>1. CASE ~Vectorial(i)
      <4> HIDE DEF i
      <4> QED BY <2>3, <3>1 DEF HeapOf
    <3>2. CASE Vectorial(i)
      <4> DEFINE a == vreg[i.in1]
      <4>1. /\ a \in Buffer /\ a # f
            /\ i.op \notin ScalarOps => vreg[i.in2] \in Buffer /\ vreg[i.in2] # f
        BY <2>1, <2>4, <3>2, Shapes
      <4>2. Second(i)' = Second(i) /\ heap'[a] = heap[a]
        <5> HIDE DEF i
        <5> QED BY <2>3, <4>1 DEF Second
      <4>3. /\ HeapOf(i) = [heap EXCEPT ![a] = Combine(i, heap[a], Second(i))]
            /\ HeapOf(i)' = [heap' EXCEPT ![a] = Combine(i, heap'[a], Second(i))]
        <5> HIDE DEF i
        <5> QED BY <2>3, <3>2, <4>2 DEF HeapOf
      <4> HIDE DEF i, a
      <4> QED BY <2>4, <4>1, <4>2, <4>3
    <3> QED BY <3>1, <3>2
  <2> HIDE DEF i
  <2> QED BY <2>2, <2>5, <2>6, <2>7, <2>8
<1> QED BY <1>1, <1>2

\* The calls that leave the registers, the buffers and writeback alone.
LEMMA Aside ==
  ASSUME Known, Known', UNCHANGED <<sreg, vreg, heap>>, ins'["writeback"] = ins["writeback"],
         Full("writeback") => Code(W)' = Code(W)
  PROVE  SRegNow' = SRegNow /\ VRegNow' = VRegNow /\ HeapNow' = HeapNow
<1>1. vreg \in [Vector -> Buffer] /\ \A b \in Buffer : b # NoBuf
  BY BufferAssumption DEF Known, IInv, TypeOK, NoBuf
<1>2. Full("writeback") /\ Loads(W) => W.data \in Buffer
  BY StageNames DEF Known, IInv, Boxed, Loads, W
<1>3. \A r \in Vector : vreg[r] # NoBuf
  BY <1>1
<1>4. Full("writeback") /\ Loads(W) => W.data # NoBuf
  BY <1>1, <1>2
<1>5. (Full("writeback")' <=> Full("writeback")) /\ W'.data = W.data
  BY DEF Full, W
<1>6. /\ SRegNow' = SRegNow /\ VRegNow' = VRegNow
      /\ \A b \in Buffer : b # NoBuf => HeapNow'[b] = HeapNow[b]
  <2>1. PICK f : f = NoBuf
    OBVIOUS
  <2>2. /\ \A r \in Vector : vreg[r] # f
        /\ Full("writeback") /\ Loads(W) => W.data # f
        /\ \A b \in Buffer : b # f => heap'[b] = heap[b]
    BY <1>3, <1>4, <2>1
  <2>3. Full("writeback") => Code(W)' = Code(W) /\ W'.data = W.data
    BY <1>5
  <2>4. Full("writeback")' <=> Full("writeback")
    BY <1>5
  <2>5. Beside(f)
    BY <2>2, <2>3, <2>4 DEF Beside
  <2>6. /\ SRegNow' = SRegNow /\ VRegNow' = VRegNow
        /\ \A b \in Buffer : b # f => HeapNow'[b] = HeapNow[b]
    BY <2>5, Unseen
  <2> QED BY <2>1, <2>6
<1>7. HeapNow \in [Buffer -> Value] /\ HeapNow' \in [Buffer -> Value]
  <2>1. Known => HeapNow \in [Buffer -> Value]
    BY SeenNow
  <2>2. Known' => (HeapNow \in [Buffer -> Value])'
    BY SeenNow, PTL
  <2> QED BY <2>1, <2>2
<1> QED BY <1>1, <1>6, <1>7

\* A free buffer is nobody's.
LEMMA FreshUnseen ==
  ASSUME Known
  PROVE  /\ Fresh \in Buffer /\ \A r \in Vector : vreg[r] # Fresh
         /\ Full("writeback") => W.data # Fresh
<1>1. Fresh \in Buffer /\ Fresh \notin References
  BY FreshBuffer DEF Known, IInv
<1>2. \A r \in Vector : vreg[r] \in References
  BY DEF References
<1>3. Full("writeback") => W.data \in References
  BY StageNames DEF References, Held, W
<1> QED BY <1>1, <1>2, <1>3

\* A load gets a free buffer, and no register refers to it before it retires.
LEMMA PrivateNext ==
  ASSUME Known, Known', Private, [Next]_vars
  PROVE  Private'
<1> USE StageNames DEF Private, W, M, Loads
<1>1. CASE Drain
  <2>1. /\ ~Full("writeback")' /\ vreg' = VRegNow /\ ins'["mem"] = ins["mem"]
        /\ cache' = cache
    BY <1>1, DrainDoes DEF Known
  <2>2. ASSUME Full("mem"), Loads(M), NEW r \in Vector
        PROVE  VRegNow[r] # M.data
    <3>1. CASE ~Full("writeback")
      BY <2>2, <3>1, SeenNow
    <3>2. CASE Full("writeback")
      <4> DEFINE i == Code(W)
      <4>1. i \in Instruction /\ WellFormed(i) /\ VRegNow = VRegOf(i, W.data)
        BY <3>2, SeenNow
      <4>2. Vectorial(i) => i.in1 \in Vector /\ Dest(i) \in Vector
        BY <4>1, Shapes
      <4>3. (IsMem(i) \/ i.op = "SCRATCH_READ") => W.data # M.data
        BY <2>2, <3>2
      <4>4. vreg \in [Vector -> Buffer] /\ \A q \in Vector : vreg[q] # M.data
        BY <2>2 DEF Known, IInv, TypeOK
      <4>5. VRegOf(i, W.data)[r] # M.data
        <5> HIDE DEF i, W, M
        <5> QED BY <4>2, <4>3, <4>4 DEF VRegOf
      <4> QED BY <4>1, <4>5
    <3> QED BY <3>1, <3>2
  <2>3. (Full("mem")' <=> Full("mem")) /\ (Loads(M)' <=> Loads(M)) /\ M' = M
    BY <2>1 DEF Full, Code
  <2> QED BY <2>1, <2>2, <2>3
<1>2. CASE PropagateWriteback
  <2>1. cache' = cache /\ vreg' = vreg
    BY <1>2, WritebackDoes DEF Known
  <2>2. CASE UNCHANGED ins
    BY <2>1, <2>2 DEF Full, Code
  <2>3. CASE /\ Full("mem") /\ ~Full("mem")' /\ ins'["writeback"].pc = M.pc
             /\ ins'["writeback"].data = M.data
    <3>1. Code(ins["writeback"])' = Code(M)
      BY <2>1, <2>3 DEF Code
    <3> QED BY <2>1, <2>3, <3>1
  <2> QED BY <1>2, <2>2, <2>3, WritebackDoes DEF Known
<1>3. CASE PropagateMem
  <2>1. cache' = cache /\ vreg' = vreg /\ ins'["writeback"] = ins["writeback"]
    BY <1>3, MemDoes DEF Known
  <2>2. CASE UNCHANGED ins
    BY <2>1, <2>2 DEF Full, Code
  <2>3. CASE /\ ins'["mem"].pc = ins["execute"].pc
             /\ Effect(ins["execute"], ins'["mem"])
    <3>1. Code(ins["mem"])' = Code(ins["execute"])
      BY <2>1, <2>3 DEF Code
    <3>2. Loads(M)' => M'.data = Fresh
      BY <2>3, <3>1 DEF Effect, IsMem, MemOps, IsScratch, ScratchOps
    <3> QED BY <2>1, <3>2, FreshUnseen DEF Full, Code
  <2>4. CASE ~Full("mem")'
    BY <2>1, <2>4 DEF Full, Code
  <2> QED BY <1>3, <2>2, <2>3, <2>4, MemDoes DEF Known
<1>4. CASE PropagateExecute
  BY <1>4, ExecuteDoes DEF Full, Known, Code
<1>5. CASE PropagateDecode
  BY <1>5, DecodeDoes DEF Full, Known, Code
<1>6. CASE TickStages
  BY <1>6, TickDoes DEF Full, Known, Code
<1>7. CASE Handling
  BY <1>7 DEF Handling, Full, Code
<1>8. CASE Idle
  BY <1>8 DEF Idle, Full, Code
<1> QED BY <1>1, <1>2, <1>3, <1>4, <1>5, <1>6, <1>7, <1>8, Steps DEF Known

\* A buffer that writeback does not work on in place is as it is.
LEMMA HeapElsewhere ==
  ASSUME Known, NEW b \in Buffer, InPlace("writeback") => vreg[Code(W).in1] # b
  PROVE  HeapNow[b] = heap[b]
<1>1. CASE ~Full("writeback")
  BY <1>1, SeenNow
<1>2. CASE Full("writeback")
  <2>1. HeapNow = HeapOf(Code(W))
    BY <1>2, SeenNow
  <2>2. heap \in [Buffer -> Value] /\ (Vectorial(Code(W)) => vreg[Code(W).in1] # b)
    BY <1>2 DEF Known, IInv, TypeOK, InPlace, W
  <2> QED BY <2>1, <2>2 DEF HeapOf
<1> QED BY <1>1, <1>2

\* Which buffers the clone in mem has.
LEMMA MemBuffers ==
  ASSUME Known, Sources, Full("mem")
  PROVE  /\ Code(M) \in Instruction /\ WellFormed(Code(M)) /\ M.addr \in Nat
         /\ Loads(M) => M.data \in Buffer
         /\ Code(M).op \in {"WRITE", "SCRATCH_WRITE"} => M.src = Source(M) /\ M.src \in Buffer
<1> USE StageNames DEF M
<1>1. Code(M) \in Instruction /\ WellFormed(Code(M))
  BY CodeFacts DEF Known, IInv
<1>2. M.addr \in Nat
  BY DEF Known, IInv, TypeOK, Full, Clone
<1>3. Loads(M) => M.data \in Buffer
  BY DEF Known, IInv, Boxed, Loads
<1>4. ASSUME Code(M).op \in {"WRITE", "SCRATCH_WRITE"}
      PROVE  M.src = Source(M) /\ M.src \in Buffer
  <2>1. M.src = Source(M)
    BY <1>4 DEF Sources
  <2>2. Code(M).in1 = NoReg \/ Code(M).in1 \in Vector
    BY <1>1, <1>4, Shapes
  <2>3. Source(M) \in Buffer
    BY <2>2, Names DEF Source, Known, IInv, TypeOK
  <2> QED BY <2>1, <2>3
<1> QED BY <1>1, <1>2, <1>3, <1>4

\* The calls that leave mem alone as well.
LEMMA ContentsKept ==
  ASSUME Known, Known', Contents, UNCHANGED <<sreg, vreg, heap, scratch, mem>>,
         ins'["writeback"] = ins["writeback"], ins'["mem"] = ins["mem"],
         Full("writeback") => Code(W)' = Code(W), Full("mem") => Code(M)' = Code(M)
  PROVE  Contents'
<1>1. HeapNow' = HeapNow
  BY Aside
<1>2. M' = M /\ (Full("mem")' <=> Full("mem"))
  BY DEF M, Full
<1> QED BY <1>1, <1>2 DEF Contents

\* What a load or a store in mem has found stays true while the one clone before
\* it retires and others are started behind it.
LEMMA ContentsNext ==
  ASSUME Known, Known', Contents, Private, Sources, Deadlines, WritesSettled, [Next]_vars
  PROVE  Contents'
<1> USE StageNames
<1>1. CASE Drain
  <2>1. /\ ~Full("writeback")' /\ heap' = HeapNow /\ ins'["mem"] = ins["mem"]
        /\ UNCHANGED <<cache, scratch, mem>>
    BY <1>1, DrainDoes DEF Known
  <2>2. HeapNow' = HeapNow
    BY <2>1 DEF HeapNow
  <2>3. M' = M /\ (Full("mem")' <=> Full("mem")) /\ Code(M)' = Code(M)
    BY <2>1 DEF M, Full, Code
  <2>4. ASSUME Full("mem"), Loads(M)
        PROVE  heap'[M.data] = heap[M.data]
    <3>1. M.data \in Buffer
      BY <2>4, MemBuffers
    <3>2. InPlace("writeback") => Code(W).in1 \in Vector
      BY SeenNow, Shapes DEF InPlace, W
    <3>3. InPlace("writeback") => vreg[Code(W).in1] # M.data
      BY <2>4, <3>2 DEF Private, M
    <3> QED BY <2>1, <3>1, <3>3, HeapElsewhere
  <2>5. Full("mem") => (Code(M).op \in {"READ", "WRITE", "SCRATCH_READ"} => Loads(M))
    BY DEF Loads, IsMem, MemOps
  <2> QED BY <2>1, <2>2, <2>3, <2>4, <2>5 DEF Contents
<1>2. CASE PropagateWriteback
  <2>1. /\ UNCHANGED <<cache, sreg, vreg, heap, scratch>>
        /\ UNCHANGED <<ins, mem>> \/ ~Full("mem")'
    BY <1>2, WritebackDoes DEF Known
  <2>2. CASE UNCHANGED <<ins, mem>>
    <3>1. Code(W)' = Code(W) /\ Code(M)' = Code(M)
      BY <2>1, <2>2 DEF Code, W, M
    <3> QED BY <2>1, <2>2, <3>1, ContentsKept
  <2>3. CASE ~Full("mem")'
    BY <2>3 DEF Contents
  <2> QED BY <2>1, <2>2, <2>3
<1>3. CASE PropagateMem
  <2> DEFINE c == ins["execute"]
             d == ins'["mem"]
  <2>1. /\ UNCHANGED <<cache, opVals, sreg, vreg, mem>> /\ phase = "mem"
        /\ ins'["writeback"] = ins["writeback"]
        /\ \/ UNCHANGED <<ins, heap, scratch>>
           \/ ~Full("mem")'
           \/ /\ ~Full("mem") /\ Full("execute") /\ Full("mem")'
              /\ d.pc = c.pc /\ d.addr = c.addr /\ Effect(c, d)
    BY <1>3, MemDoes DEF Known
  <2>2. Code(W)' = Code(W)
    BY <2>1 DEF Code, W
  <2>3. CASE UNCHANGED <<ins, heap, scratch>>
    <3>1. Code(M)' = Code(M)
      BY <2>1, <2>3 DEF Code, M
    <3> QED BY <2>1, <2>2, <2>3, <3>1, ContentsKept
  <2>4. CASE ~Full("mem")'
    BY <2>4 DEF Contents
  <2>5. CASE /\ ~Full("mem") /\ Full("execute") /\ Full("mem")'
             /\ d.pc = c.pc /\ d.addr = c.addr /\ Effect(c, d)
    <3>1. Code(M)' = Code(c) /\ M' = d
      BY <2>1, <2>5 DEF Code, M
    <3>2. Code(c) \in Instruction /\ WellFormed(Code(c)) /\ c.addr \in Nat
      <4>1. c.addr \in Nat
        BY <2>5 DEF Known, IInv, TypeOK, Full, Clone
      <4> QED BY <2>5, <4>1, CodeFacts DEF Known, IInv
    <3>3. heap \in [Buffer -> Value] /\ scratch \in [Scratch -> Value]
      BY DEF Known, IInv, TypeOK
    <3>4. Fresh \in Buffer /\ \A r \in Vector : vreg[r] # Fresh
      BY FreshUnseen
    <3>5. heap' = heap => HeapNow' = HeapNow
      BY <2>1, <2>2, Aside
    <3>6. CASE IsMem(Code(c))
      <4>1. /\ d.data = Fresh /\ (Code(c).op = "WRITE" => d.src = Source(c))
            /\ heap' = [heap EXCEPT ![Fresh] =
                   IF Code(c).op = "READ" THEN mem[c.addr] ELSE heap[Source(c)]]
        BY <2>5, <3>6 DEF Effect, IsMem, MemOps, IsScratch, ScratchOps
      <4>2. Code(c).op \in {"READ", "WRITE"}
        BY <3>6 DEF IsMem, MemOps
      <4>3. CASE Code(c).op = "READ"
        <5>1. heap'[d.data] = mem'[d.addr]
          BY <2>1, <2>5, <3>3, <3>4, <4>1, <4>3
        <5> QED BY <3>1, <4>3, <5>1 DEF Contents
      <4>4. CASE Code(c).op = "WRITE"
        <5>1. Source(c) \in Buffer /\ Source(c) # Fresh
          <6>1. Code(c).in1 = NoReg \/ Code(c).in1 \in Vector
            BY <3>2, <4>4, Shapes
          <6>2. Gdl \in Vector
            BY Names
          <6> QED BY <3>4, <6>1, <6>2 DEF Source, Known, IInv, TypeOK
        <5>2. HeapNow[Source(c)] = heap[Source(c)]
          <6>1. ASSUME InPlace("writeback")
                PROVE  vreg[Code(W).in1] # Source(c)
            <7>1. Source(c) # opVals[W.pc].in1
              BY <2>1, <2>5, <4>4, <6>1 DEF WritesSettled, At, InPlace, W
            <7>2. Code(W).in1 \in Vector
              BY <6>1, SeenNow, Shapes DEF InPlace, W
            <7>3. OwnCurrentAt(W)
              BY <6>1 DEF Known, OwnCurrent, InPlace, W
            <7>4. opVals[W.pc].in1 = vreg[Code(W).in1]
              BY <7>2, <7>3, Names DEF OwnCurrentAt, Now
            <7> QED BY <7>1, <7>4
          <6> QED BY <5>1, <6>1, HeapElsewhere
        <5>3. HeapNow'[Source(c)] = HeapNow[Source(c)]
          <6>1. Beside(Fresh)
            BY <2>1, <2>2, <3>3, <4>1, FreshUnseen DEF Beside, Full, W
          <6> QED BY <5>1, <6>1, Unseen
        <5>4. heap'[d.data] = heap[Source(c)]
          BY <3>3, <3>4, <4>1, <4>4
        <5>5. heap'[d.data] = HeapNow'[d.src]
          BY <4>1, <4>4, <5>2, <5>3, <5>4
        <5> QED BY <3>1, <4>4, <5>5 DEF Contents
      <4> QED BY <4>2, <4>3, <4>4
    <3>7. CASE Code(c).op = "SCRATCH_READ"
      <4>1. heap'[d.data] = scratch'[d.addr]
        BY <2>5, <3>3, <3>4, <3>7 DEF Effect, IsMem, MemOps, IsScratch, ScratchOps
      <4> QED BY <3>1, <3>7, <4>1 DEF Contents
    <3>8. CASE Code(c).op = "SCRATCH_WRITE"
      <4>1. /\ heap' = heap /\ c.addr \in Scratch /\ c.left = 0 /\ d.src = c.src
            /\ scratch' = [scratch EXCEPT ![c.addr] = heap[c.src]]
        BY <2>5, <3>8 DEF Effect, IsMem, MemOps, IsScratch, ScratchOps
      <4>2. c.src \in Buffer
        <5>1. c.src = Source(c) /\ Code(c).in1 \in Vector
          BY <2>5, <3>2, <3>8, Shapes DEF Sources
        <5> QED BY <5>1, Names DEF Source, Known, IInv, TypeOK
      <4>3. ~InPlace("writeback")
        BY <2>1, <2>5, <3>8, <4>1 DEF Deadlines, Settled
      <4>4. HeapNow'[c.src] = heap[c.src]
        BY <3>5, <4>1, <4>2, <4>3, HeapElsewhere
      <4>5. d.addr \in Scratch /\ scratch'[d.addr] = HeapNow'[d.src]
        BY <2>5, <3>3, <4>1, <4>4
      <4> QED BY <3>1, <3>8, <4>5 DEF Contents
    <3>9. CASE Code(c).op \notin {"READ", "WRITE", "SCRATCH_READ", "SCRATCH_WRITE"}
      BY <3>1, <3>9 DEF Contents
    <3> QED BY <3>6, <3>7, <3>8, <3>9 DEF IsMem, MemOps
  <2> QED BY <2>1, <2>3, <2>4, <2>5
<1>4. CASE PropagateExecute
  <2>1. /\ UNCHANGED <<cache, sreg, vreg, heap, scratch, mem>>
        /\ ins'["mem"] = ins["mem"] /\ ins'["writeback"] = ins["writeback"]
    BY <1>4, ExecuteDoes DEF Known
  <2>2. Code(W)' = Code(W) /\ Code(M)' = Code(M)
    BY <2>1 DEF Code, W, M
  <2> QED BY <2>1, <2>2, ContentsKept
<1>5. CASE PropagateDecode
  <2>1. /\ UNCHANGED <<cache, sreg, vreg, heap, scratch, mem>>
        /\ ins'["mem"] = ins["mem"] /\ ins'["writeback"] = ins["writeback"]
    BY <1>5, DecodeDoes DEF Known
  <2>2. Code(W)' = Code(W) /\ Code(M)' = Code(M)
    BY <2>1 DEF Code, W, M
  <2> QED BY <2>1, <2>2, ContentsKept
<1>6. CASE TickStages
  <2>1. /\ UNCHANGED <<cache, sreg, vreg, heap, scratch, mem>>
        /\ ins'["mem"] = ins["mem"] /\ ins'["writeback"] = ins["writeback"]
    BY <1>6, TickDoes DEF Known
  <2>2. Code(W)' = Code(W) /\ Code(M)' = Code(M)
    BY <2>1 DEF Code, W, M
  <2> QED BY <2>1, <2>2, ContentsKept
<1>7. CASE Handling
  <2>1. /\ UNCHANGED <<sreg, vreg, heap, scratch, mem>>
        /\ ins'["mem"] = ins["mem"] /\ ins'["writeback"] = ins["writeback"]
    BY <1>7 DEF Handling
  <2>2. (Full("writeback") => Code(W)' = Code(W)) /\ (Full("mem") => Code(M)' = Code(M))
    BY <1>7 DEF Handling, Code, W, M
  <2> QED BY <2>1, <2>2, ContentsKept
<1>8. CASE Idle
  <2>1. /\ UNCHANGED <<sreg, vreg, heap, scratch, mem>>
        /\ ins'["mem"] = ins["mem"] /\ ins'["writeback"] = ins["writeback"]
        /\ Code(W)' = Code(W) /\ Code(M)' = Code(M)
    BY <1>8 DEF Idle, Code, W, M
  <2> QED BY <2>1, ContentsKept
<1> QED BY <1>1, <1>2, <1>3, <1>4, <1>5, <1>6, <1>7, <1>8, Steps DEF Known

-----------------------------------------------------------------------------
(* The steps of the pipeline are steps of SequentialCore or none.          *)

\* The oldest instruction that has not entered writeback.
LEMMA FrontIs == Front = IF Full("mem") THEN ins["mem"].pc ELSE BehindMem
BY DEF Front, BehindMem, BehindExecute, BehindDecode, BehindFetch

\* The same of the next state.
LEMMA FrontBecomes ==
  Front' = IF Full("mem")' THEN ins'["mem"].pc ELSE BehindMem'
<1>1. (Front = IF Full("mem") THEN ins["mem"].pc ELSE BehindMem)'
  BY FrontIs, PTL
<1> QED BY <1>1

Sharings == {{r \in Vector : VRegNow[r] = b} : b \in {VRegNow[r] : r \in Vector}}

\* What SequentialCore sees of the registers.
SameRegisters ==
  /\ SRegNow' = SRegNow /\ VRegNow' = VRegNow
  /\ \A r \in Vector : HeapNow'[VRegNow[r]] = HeapNow[VRegNow[r]]

\* Then values and sharing are the same.
LEMMA SameSeen ==
  ASSUME SameRegisters
  PROVE  SRegNow' = SRegNow /\ ValNow' = ValNow /\ Sharings' = Sharings
<1>1. ValNow' = ValNow
  BY DEF SameRegisters, ValNow
<1>2. Sharings' = Classes(VRegNow')
  BY ByBuffer DEF Sharings
<1>3. Sharings = Classes(VRegNow)
  BY ByBuffer DEF Sharings
<1> QED BY <1>1, <1>2, <1>3, Zenon DEF SameRegisters

\* A step that SequentialCore does not see.
LEMMA Unchanging ==
  ASSUME SameRegisters, UNCHANGED <<cache, loads, mem>>, Front' = Front,
         ScratchNow' = ScratchNow
  PROVE  UNCHANGED Sequential!vars
<1>1. SRegNow' = SRegNow /\ ValNow' = ValNow /\ Sharings' = Sharings
  BY SameSeen
<1> QED BY <1>1, Zenon DEF Sequential!vars, ValNow, Sharings

\* What SequentialCore sees of the scratchpad while mem keeps its clone.
LEMMA ScratchKept ==
  ASSUME ins'["mem"] = ins["mem"], Full("mem") => Code(M)' = Code(M), scratch' = scratch
  PROVE  ScratchNow' = ScratchNow
BY DEF ScratchNow, M, Full

\* The calls that leave registers, buffers and writeback alone are such steps.
LEMMA AsideSeen ==
  ASSUME Known, Known', UNCHANGED <<sreg, vreg, heap>>, ins'["writeback"] = ins["writeback"],
         Full("writeback") => Code(W)' = Code(W)
  PROVE  SameRegisters
BY Aside DEF SameRegisters

\* Draining does what was seen to be done.
LEMMA DrainUnseen ==
  ASSUME Known, Drain
  PROVE  UNCHANGED Sequential!vars
<1>1. /\ ~Full("writeback")' /\ \A s \in Stages : s # "writeback" => ins'[s] = ins[s]
      /\ sreg' = SRegNow /\ vreg' = VRegNow /\ heap' = HeapNow
      /\ UNCHANGED <<cache, loads, pc, scratch, mem>>
  BY DrainDoes DEF Known
<1>2. SameRegisters
  BY <1>1 DEF SameRegisters, SRegNow, VRegNow, HeapNow
<1>3. Front' = Front
  BY <1>1, StageNames DEF Front, Full
<1>4. ScratchNow' = ScratchNow
  BY <1>1, StageNames, ScratchKept DEF M, Code
<1> QED BY <1>1, <1>2, <1>3, <1>4, Unchanging

\* Nobody sees operands being read.
LEMMA ExecuteUnseen ==
  ASSUME Known, Known', PropagateExecute
  PROVE  UNCHANGED Sequential!vars
<1>1. /\ UNCHANGED <<cache, loads, pc, sreg, vreg, heap, scratch, mem>>
      /\ \A s \in {"fetch", "mem", "writeback"} : ins'[s] = ins[s]
  BY ExecuteDoes DEF Known
<1>2. SameRegisters
  BY <1>1, AsideSeen DEF Code, W
<1>3. Front' = Front
  BY <1>1, ExecuteDoes DEF Known, Front, Full
<1>4. ScratchNow' = ScratchNow
  BY <1>1, ScratchKept DEF M, Code
<1> QED BY <1>1, <1>2, <1>3, <1>4, Unchanging

\* Nobody sees a clone reach decode.
LEMMA DecodeUnseen ==
  ASSUME Known, Known', PropagateDecode
  PROVE  UNCHANGED Sequential!vars
<1>1. /\ UNCHANGED <<cache, loads, pc, sreg, vreg, heap, scratch, mem>>
      /\ \A s \in Older : ins'[s] = ins[s]
  BY DecodeDoes DEF Known
<1>2. SameRegisters
  BY <1>1, StageNames, AsideSeen DEF Code, W
<1>3. Front' = Front
  BY <1>1, DecodeDoes, StageNames DEF Known, Front, Full
<1>4. ScratchNow' = ScratchNow
  BY <1>1, StageNames, ScratchKept DEF M, Code
<1> QED BY <1>1, <1>2, <1>3, <1>4, Unchanging

\* Nobody sees the time pass.
LEMMA TickUnseen ==
  ASSUME Known, Known', TickStages
  PROVE  UNCHANGED Sequential!vars
<1>1. /\ UNCHANGED <<cache, loads, pc, sreg, vreg, heap, scratch, mem>>
      /\ \A s \in Stages : s # "execute" => ins'[s] = ins[s]
  BY TickDoes DEF Known
<1>2. SameRegisters
  BY <1>1, StageNames, AsideSeen DEF Code, W
<1>3. Front' = Front
  BY <1>1, TickDoes, StageNames DEF Known, Front, Full
<1>4. ScratchNow' = ScratchNow
  BY <1>1, StageNames, ScratchKept DEF M, Code
<1> QED BY <1>1, <1>2, <1>3, <1>4, Unchanging

\* The handlers, but for what a command does to the cache.
LEMMA HandlingUnseen ==
  ASSUME Known, Known', Handling
  PROVE  /\ SameRegisters /\ mem' = mem /\ Front' = Front /\ ScratchNow' = ScratchNow
<1>1. /\ UNCHANGED <<sreg, vreg, heap, scratch, mem>>
      /\ \A s \in Stages : s # "fetch" => ins'[s] = ins[s]
      /\ \A s \in Stages : Full(s) => cache'[ins[s].pc + 1] = Code(ins[s])
  BY DEF Handling
<1>2. SameRegisters
  BY <1>1, StageNames, AsideSeen DEF Code, W
<1>3. Front' = Front
  BY <1>1, StageNames DEF Handling, Front, Full
<1>4. ScratchNow' = ScratchNow
  BY <1>1, StageNames, ScratchKept DEF M, Code
<1> QED BY <1>1, <1>2, <1>3, <1>4

\* Nobody sees the memory.
LEMMA IdleUnseen ==
  ASSUME Known, Known', Idle
  PROVE  UNCHANGED Sequential!vars
<1>1. UNCHANGED <<cache, loads, pc, ins, sreg, vreg, heap, scratch, mem>>
  BY DEF Idle
<1>2. SameRegisters
  BY <1>1, AsideSeen DEF Code, W
<1>3. Front' = Front /\ ScratchNow' = ScratchNow
  BY <1>1 DEF Front, ScratchNow, Full, Code, M
<1> QED BY <1>1, <1>2, <1>3, Unchanging

\* A command is a program loaded.
LEMMA CommandLoads ==
  ASSUME Known, Known', NEW p \in Programs, HandleCommand(p)
  PROVE  Sequential!Load(p)
<1>1. SameRegisters /\ mem' = mem /\ Front' = Front /\ ScratchNow' = ScratchNow
  BY HandlersDo, HandlingUnseen DEF Known
<1>2. SRegNow' = SRegNow /\ ValNow' = ValNow /\ Sharings' = Sharings
  BY <1>1, SameSeen
<1>3. /\ cache' = cache \o Relocated(p, Len(cache)) /\ loads' = loads + 1
      /\ Len(cache) + Len(p) <= CacheSize
  <2>1. /\ cache' = cache \o Relocated(p, Len(cache)) /\ loads' = loads + 1
        /\ Len(cache \o Relocated(p, Len(cache))) <= CacheSize
    BY DEF HandleCommand
  <2>2. Len(cache \o Relocated(p, Len(cache))) = Len(cache) + Len(p)
    BY Loaded DEF Known
  <2> QED BY <2>1, <2>2
<1>4. cache' = cache \o Sequential!Relocated(p, Len(cache))
  BY <1>3, SameInstructions
<1> QED BY <1>1, <1>2, <1>3, <1>4, Zenon DEF Sequential!Load, ValNow, Sharings

\* The clone in mem enters writeback: i is its instruction.
Enters(i) ==
  /\ i = Code(M) /\ i \in Instruction /\ WellFormed(i) /\ Full("mem") /\ ~Full("mem")'
  /\ SRegNow = sreg /\ VRegNow = vreg /\ HeapNow = heap
  /\ sreg \in [SReg -> Value] /\ vreg \in [Vector -> Buffer] /\ heap \in [Buffer -> Value]
  /\ SRegNow' = SRegOf(i) /\ VRegNow' = VRegOf(i, M.data) /\ HeapNow' = HeapOf(i)
  /\ mem' = IF i.op = "WRITE" THEN [mem EXCEPT ![M.addr] = heap[M.src]] ELSE mem
  /\ scratch' = scratch /\ scratch \in [Scratch -> Value]
  /\ i.op # "SCRATCH_WRITE" => ScratchNow' = ScratchNow /\ ScratchNow = scratch

\* What PropagateWriteback does when it moves a clone.
LEMMA Entering ==
  ASSUME Known, Known', PropagateWriteback, ~Full("writeback"), Full("mem"), ~Full("mem")',
         Full("writeback")', ins'["writeback"].pc = M.pc, ins'["writeback"].data = M.data,
         mem' = IF Code(M).op = "WRITE" THEN [mem EXCEPT ![M.addr] = heap[M.src]] ELSE mem
  PROVE  Enters(Code(M))
<1> DEFINE i == Code(M)
<1>1. i \in Instruction /\ WellFormed(i)
  BY CodeFacts, StageNames DEF Known, IInv, M
<1>2. SRegNow = sreg /\ VRegNow = vreg /\ HeapNow = heap
  BY SeenNow
<1>3. UNCHANGED <<cache, sreg, vreg, heap, scratch>>
  BY WritebackDoes DEF Known
<1>4. Code(W)' = i /\ W'.data = M.data
  BY <1>3 DEF Code, W
<1>5. /\ SRegNow' = SRegOf(Code(W))' /\ HeapNow' = HeapOf(Code(W))'
      /\ VRegNow' = VRegOf(Code(W), W.data)'
  <2>1. Known' => (Full("writeback")' =>
          (SRegNow = SRegOf(Code(W)) /\ HeapNow = HeapOf(Code(W))
            /\ VRegNow = VRegOf(Code(W), W.data))')
    BY SeenNow, PTL
  <2> QED BY <2>1
<1> HIDE DEF i
<1>6. SRegOf(Code(W))' = SRegOf(i)
  BY <1>3, <1>4 DEF SRegOf
<1>7. HeapOf(Code(W))' = HeapOf(i)
  BY <1>3, <1>4 DEF HeapOf, Second
<1>8. VRegOf(Code(W), W.data)' = VRegOf(i, M.data)
  BY <1>3, <1>4 DEF VRegOf
<1>9. i.op # "SCRATCH_WRITE" => ScratchNow' = ScratchNow /\ ScratchNow = scratch
  BY <1>3 DEF ScratchNow, i
<1>10. /\ sreg \in [SReg -> Value] /\ vreg \in [Vector -> Buffer] /\ heap \in [Buffer -> Value]
       /\ scratch \in [Scratch -> Value]
  BY DEF Known, IInv, TypeOK
<1>11. mem' = IF i.op = "WRITE" THEN [mem EXCEPT ![M.addr] = heap[M.src]] ELSE mem
  BY DEF i
<1>12. Enters(i)
  <2>1. i = Code(M)
    BY DEF i
  <2> QED BY <1>1, <1>2, <1>3, <1>5, <1>6, <1>7, <1>8, <1>9, <1>10, <1>11, <2>1 DEF Enters
<1> QED BY <1>12 DEF i

\* Where a memory operation goes.
LEMMA SameAddress ==
  ASSUME Known, Sources, Addressed, NEW i, Enters(i), IsMem(i)
  PROVE  Sequential!At(i) = M.addr
<1>1. M.addr = i.addr + Offset(i)
  BY DEF Enters, Addressed, M
<1>2. Sequential!Offset(i) = Offset(i)
  BY SameInstructions DEF Enters, Sequential!Offset, Offset
<1> QED BY <1>1, <1>2 DEF Sequential!At

\* The destinations of what is read take its buffer.
LEMMA LatchesNow ==
  ASSUME Known, Private, NEW i, Enters(i), Loads(M), M.data \in Buffer,
         NEW D \in SUBSET Vector, D # {},
         VRegNow' = [r \in Vector |-> IF r \in D THEN M.data ELSE VRegNow[r]],
         HeapNow' = HeapNow
  PROVE  /\ ValNow' = [r \in Vector |-> IF r \in D THEN heap[M.data] ELSE ValNow[r]]
         /\ Sharings' = Sequential!Rebound(D)
<1>1. \A r \in Vector : VRegNow[r] # M.data
  BY DEF Private, Enters, M
<1>2. VRegNow \in [Vector -> Buffer] /\ HeapNow \in [Buffer -> Value] /\ HeapNow = heap
  BY DEF Enters
<1>3. PICK b \in Buffer : b = M.data
  OBVIOUS
<1>4. /\ \A r \in Vector : VRegNow[r] # b
      /\ VRegNow' = [r \in Vector |-> IF r \in D THEN b ELSE VRegNow[r]]
  BY <1>1, <1>3
<1>5. /\ ValNow' = [r \in Vector |-> IF r \in D THEN HeapNow[b] ELSE ValNow[r]]
      /\ Sharings' = Sequential!Rebound(D)
  BY <1>2, <1>4, ReboundNow DEF Sharings
<1> QED BY <1>2, <1>3, <1>5

\* READ: what was copied at the start is what the bank holds now.
LEMMA ReadRetires ==
  ASSUME Known, Private, Sources, Contents, Addressed, NEW i, Enters(i), i.op = "READ"
  PROVE  Sequential!Read(i) /\ ScratchNow' = ScratchNow
<1>0. i \in Instruction /\ WellFormed(i)
  BY DEF Enters
<1>1. IsMem(i) /\ ~Immediate(i) /\ ~Folding(i) /\ ~Vectorial(i)
  BY <1>0, Kinds DEF IsMem, MemOps
<1>2. Latched(i) \in SUBSET Vector /\ Latched(i) # {}
  BY <1>0, Shapes, Names DEF Latched
<1>3. Loads(M) /\ M.data \in Buffer /\ heap[M.data] = mem[M.addr]
  BY <1>1, MemBuffers DEF Loads, Enters, Contents
<1>4. /\ VRegNow' = [r \in Vector |-> IF r \in Latched(i) THEN M.data ELSE VRegNow[r]]
      /\ HeapNow' = HeapNow /\ SRegNow' = SRegNow /\ mem' = mem /\ ScratchNow' = ScratchNow
  BY <1>1 DEF Enters, VRegOf, HeapOf, SRegOf
<1>5. /\ ValNow' = [r \in Vector |-> IF r \in Latched(i) THEN mem[M.addr] ELSE ValNow[r]]
      /\ Sharings' = Sequential!Rebound(Latched(i))
  BY <1>2, <1>3, <1>4, LatchesNow
<1>6. Sequential!At(i) = M.addr
  BY <1>1, SameAddress
<1>7. Sequential!Latched(i) = Latched(i) /\ Sequential!Vector = Vector
  BY SameInstructions
<1>8. Sequential!Latch(i, mem[Sequential!At(i)])
  BY <1>4, <1>5, <1>6, <1>7 DEF Sequential!Latch, ValNow, Sharings
<1> QED BY <1>4, <1>8, Zenon DEF Sequential!Read

\* WRITE: the bank gets what the source holds now, the GDL what it held at the
\* start, and the two are one value.
LEMMA WriteRetires ==
  ASSUME Known, Private, Sources, Contents, Addressed, NEW i, Enters(i), i.op = "WRITE"
  PROVE  Sequential!Write(i) /\ ScratchNow' = ScratchNow
<1> DEFINE q == IF i.in1 = NoReg THEN Gdl ELSE i.in1
<1>0. i \in Instruction /\ WellFormed(i)
  BY DEF Enters
<1>1. IsMem(i) /\ ~Immediate(i) /\ ~Folding(i) /\ ~Vectorial(i)
  BY <1>0, Kinds DEF IsMem, MemOps
<1>2. Latched(i) \in SUBSET Vector /\ Latched(i) # {} /\ q \in Vector
  BY <1>0, Shapes, Names DEF Latched
<1>3. /\ Loads(M) /\ M.data \in Buffer /\ M.src = vreg[q]
      /\ heap[M.data] = HeapNow[M.src]
  BY <1>1, MemBuffers DEF Loads, Enters, Contents, Source
<1>4. /\ VRegNow' = [r \in Vector |-> IF r \in Latched(i) THEN M.data ELSE VRegNow[r]]
      /\ HeapNow' = HeapNow /\ SRegNow' = SRegNow /\ ScratchNow' = ScratchNow
      /\ mem' = [mem EXCEPT ![M.addr] = heap[M.src]]
  BY <1>1 DEF Enters, VRegOf, HeapOf, SRegOf
<1>5. heap[M.data] = ValNow[q] /\ heap[M.src] = ValNow[q]
  BY <1>2, <1>3 DEF ValNow, Enters
<1> HIDE DEF q
<1>6. /\ ValNow' = [r \in Vector |-> IF r \in Latched(i) THEN ValNow[q] ELSE ValNow[r]]
      /\ Sharings' = Sequential!Rebound(Latched(i))
  BY <1>2, <1>3, <1>4, <1>5, LatchesNow
<1>7. Sequential!At(i) = M.addr
  BY <1>1, SameAddress
<1>8. Sequential!Latched(i) = Latched(i) /\ Sequential!Vector = Vector
  BY SameInstructions
<1>9. mem' = [mem EXCEPT ![Sequential!At(i)] = ValNow[q]]
  BY <1>4, <1>5, <1>7
<1>10. q = IF i.in1 = Sequential!NoReg THEN Sequential!Gdl ELSE i.in1
  BY SameInstructions DEF q
<1> DEFINE v == ValNow[IF i.in1 = Sequential!NoReg THEN Sequential!Gdl ELSE i.in1]
<1>11. v = ValNow[q]
  BY <1>10
<1> HIDE DEF v
<1>12. Sequential!Latch(i, v)
  BY <1>4, <1>6, <1>8, <1>11 DEF Sequential!Latch, ValNow, Sharings
<1>13. mem' = [mem EXCEPT ![Sequential!At(i)] = v]
  BY <1>9, <1>11
<1> QED BY <1>4, <1>12, <1>13, Zenon DEF Sequential!Write, ValNow, v

\* SCRATCH_READ: what was copied from the scratchpad.
LEMMA ScratchReads ==
  ASSUME Known, Private, Sources, Contents, Addressed, NEW i, Enters(i),
         i.op = "SCRATCH_READ"
  PROVE  Sequential!ScratchRead(i)
<1>0. i \in Instruction /\ WellFormed(i)
  BY DEF Enters
<1>1. ~IsMem(i) /\ ~Immediate(i) /\ ~Folding(i) /\ ~Vectorial(i)
  BY <1>0, Kinds
<1>2. i.dst \in Vector
  BY <1>0, Shapes
<1>3. Loads(M) /\ M.data \in Buffer /\ heap[M.data] = scratch[M.addr]
  BY MemBuffers DEF Loads, Enters, Contents
<1>4. M.addr = i.addr
  <2>1. M.addr = i.addr + 0
    BY <1>1 DEF Enters, Addressed, M, Offset
  <2>2. i.addr \in Nat
    BY <1>0 DEF Instruction
  <2> QED BY <2>1, <2>2
<1>5. /\ VRegNow' = [r \in Vector |-> IF r \in {i.dst} THEN M.data ELSE VRegNow[r]]
      /\ HeapNow' = HeapNow /\ SRegNow' = SRegNow /\ ScratchNow' = ScratchNow
      /\ ScratchNow = scratch /\ mem' = mem
  BY <1>1, <1>2 DEF Enters, VRegOf, HeapOf, SRegOf
<1>6. /\ ValNow' = [r \in Vector |-> IF r \in {i.dst} THEN scratch[M.addr] ELSE ValNow[r]]
      /\ Sharings' = Sequential!Rebound({i.dst})
  BY <1>2, <1>3, <1>5, LatchesNow
<1>7. ValNow' = [ValNow EXCEPT ![i.dst] = ScratchNow[i.addr]]
  <2>1. ValNow' = [ValNow EXCEPT ![i.dst] = scratch[M.addr]]
    BY <1>2, <1>6 DEF ValNow
  <2> QED BY <1>4, <1>5, <2>1
<1> QED BY <1>5, <1>6, <1>7 DEF Sequential!ScratchRead, ValNow, Sharings

\* SCRATCH_WRITE: what was stored before is what the source holds now.
LEMMA ScratchWrites ==
  ASSUME Known, Private, Sources, Contents, Addressed, NEW i, Enters(i),
         i.op = "SCRATCH_WRITE"
  PROVE  Sequential!ScratchWrite(i)
<1>0. i \in Instruction /\ WellFormed(i)
  BY DEF Enters
<1>1. ~IsMem(i) /\ ~Immediate(i) /\ ~Folding(i) /\ ~Vectorial(i)
  BY <1>0, Kinds
<1>2. i.in1 \in Vector /\ i.in1 # NoReg
  BY <1>0, Shapes, Names
<1>3. /\ M.src = vreg[i.in1] /\ M.addr \in Scratch /\ scratch[M.addr] = HeapNow[M.src]
  BY <1>2, MemBuffers DEF Enters, Contents, Source
<1>4. M.addr = i.addr
  <2>1. M.addr = i.addr + 0
    BY <1>1 DEF Enters, Addressed, M, Offset
  <2>2. i.addr \in Nat
    BY <1>0 DEF Instruction
  <2> QED BY <2>1, <2>2
<1>5. SameRegisters /\ mem' = mem
  BY <1>1 DEF Enters, VRegOf, HeapOf, SRegOf, SameRegisters
<1>6. ScratchNow' = scratch /\ ScratchNow = [scratch EXCEPT ![M.addr] = M.was]
  BY DEF ScratchNow, Enters
<1>7. scratch[M.addr] = ValNow[i.in1]
  BY <1>2, <1>3 DEF ValNow, Enters
<1>8. ScratchNow' = [ScratchNow EXCEPT ![i.addr] = ValNow[i.in1]]
  BY <1>3, <1>4, <1>6, <1>7 DEF Enters
<1>9. SRegNow' = SRegNow /\ ValNow' = ValNow /\ Sharings' = Sharings
  BY <1>5, SameSeen
<1> QED BY <1>5, <1>8, <1>9, Zenon DEF Sequential!ScratchWrite, ValNow, Sharings

\* What writes a scalar register leaves the vectors alone.
LEMMA ScalarNow ==
  ASSUME NEW d, NEW v, SRegNow' = [SRegNow EXCEPT ![d] = v], VRegNow' = VRegNow,
         HeapNow' = HeapNow, mem' = mem
  PROVE  Sequential!Scalar(d, v)
<1>1. ValNow' = ValNow
  BY DEF ValNow
<1>2. Sharings' = Classes(VRegNow') /\ Sharings = Classes(VRegNow)
  BY ByBuffer DEF Sharings
<1>3. Sharings' = Sharings
  BY <1>2, Zenon
<1> QED BY <1>1, <1>3, Zenon DEF Sequential!Scalar, ValNow, Sharings

\* MOV, of a number, a scalar and a vector.
LEMMA Moving ==
  ASSUME Known, NEW i, Enters(i), i.op = "MOV"
  PROVE  Sequential!Move(i) /\ ScratchNow' = ScratchNow
<1>0. i \in Instruction /\ WellFormed(i)
  BY DEF Enters
<1>1. ~IsMem(i) /\ ~Immediate(i) /\ ~Folding(i) /\ ~Vectorial(i)
  BY <1>0, Kinds
<1>2. HeapNow' = HeapNow /\ mem' = mem /\ ScratchNow' = ScratchNow
  BY <1>1 DEF Enters, HeapOf
<1>3. Sequential!NoReg = NoReg
  BY SameInstructions
<1>4. CASE i.in1 = NoReg
  <2>1. SRegNow' = [SRegNow EXCEPT ![i.dst] = i.imm] /\ VRegNow' = VRegNow
    BY <1>1, <1>4, Names DEF Enters, SRegOf, VRegOf
  <2>2. Sequential!Scalar(i.dst, i.imm)
    BY <1>2, <2>1, ScalarNow
  <2>3. i.in1 \notin SReg
    BY <1>4, Names
  <2> QED BY <1>2, <1>3, <1>4, <2>2, <2>3, Zenon DEF Sequential!Move
<1>5. CASE i.in1 \in SReg
  <2>1. i.in1 # NoReg /\ i.in1 \notin Vector
    BY <1>5, Names
  <2>2. SRegNow' = [SRegNow EXCEPT ![i.dst] = SRegNow[i.in1]] /\ VRegNow' = VRegNow
    BY <1>1, <1>5, <2>1 DEF Enters, SRegOf, VRegOf
  <2> DEFINE v == SRegNow[i.in1]
  <2>3. Sequential!Scalar(i.dst, v)
    <3> HIDE DEF v
    <3>1. SRegNow' = [SRegNow EXCEPT ![i.dst] = v]
      BY <2>2 DEF v
    <3> QED BY <1>2, <2>2, <3>1, ScalarNow
  <2> QED BY <1>2, <1>3, <1>5, <2>1, <2>3, Zenon DEF Sequential!Move
<1>6. CASE i.in1 \notin SReg \cup {NoReg}
  <2>1. i.in1 \in Vector /\ i.dst \in Vector
    BY <1>0, <1>6, Shapes
  <2>2. VRegNow' = [VRegNow EXCEPT ![i.dst] = VRegNow[i.in1]] /\ SRegNow' = SRegNow
    BY <1>1, <1>6, <2>1 DEF Enters, SRegOf, VRegOf
  <2>3. VRegNow \in [Vector -> Buffer] /\ HeapNow \in [Buffer -> Value]
    BY DEF Enters
  <2> DEFINE v == ValNow[i.in1]
  <2>4. HeapNow' = [HeapNow EXCEPT ![VRegNow[i.in1]] = v]
    BY <1>2, <2>1, <2>3 DEF ValNow
  <2>5. Sequential!Shared(i.dst, i.in1, v)
    <3> HIDE DEF v
    <3>1. PICK d \in Vector, s \in Vector, w \in {v} : d = i.dst /\ s = i.in1
      BY <2>1
    <3>2. VRegNow' = [VRegNow EXCEPT ![d] = VRegNow[s]]
      BY <2>2, <3>1
    <3>3. HeapNow' = [HeapNow EXCEPT ![VRegNow[s]] = w]
      BY <2>4, <3>1
    <3>4. SRegNow' = SRegNow /\ mem' = mem
      BY <1>2, <2>2
    <3>5. Sequential!Shared(d, s, w)
      BY <2>3, <3>2, <3>3, <3>4, SharedNow, Zenon
    <3>6. w = v
      OBVIOUS
    <3> QED BY <3>1, <3>5, <3>6, Zenon DEF Sequential!Shared
  <2> QED BY <1>2, <1>3, <1>6, <2>5, Zenon DEF Sequential!Move, ValNow
<1> QED BY <1>4, <1>5, <1>6

\* The operations with an immediate.
LEMMA Modifies ==
  ASSUME Known, NEW i, Enters(i), Immediate(i)
  PROVE  Sequential!Modify(i) /\ ScratchNow' = ScratchNow
<1>0. i \in Instruction /\ WellFormed(i)
  BY DEF Enters
<1>1. ~IsMem(i) /\ ~Vectorial(i) /\ ~Folding(i)
      /\ i.op \notin {"MOV", "SCRATCH_READ", "SCRATCH_WRITE", "WRITE"}
  BY <1>0, Kinds
<1>2. /\ HeapNow' = HeapNow /\ mem' = mem /\ ScratchNow' = ScratchNow /\ VRegNow' = VRegNow
      /\ SRegNow' = [SRegNow EXCEPT ![Dest(i)] = Combine(i, SRegNow[i.in1], i.imm)]
  BY <1>1 DEF Enters, HeapOf, VRegOf, SRegOf
<1>3. Sequential!Immediate(i) /\ Sequential!Dest(i) = Dest(i)
  BY SameInstructions
<1> DEFINE v == Sequential!Combine(i, SRegNow[i.in1], i.imm)
           d == Sequential!Dest(i)
<1>4. SRegNow' = [SRegNow EXCEPT ![d] = v]
  BY <1>2, <1>3, SameInstructions
<1>5. Sequential!Scalar(d, v)
  <2> HIDE DEF d, v
  <2> QED BY <1>2, <1>4, ScalarNow
<1> QED BY <1>2, <1>3, <1>5, Zenon DEF Sequential!Modify

\* The reductions, which read the live registers.
LEMMA Reduces ==
  ASSUME Known, NEW i, Enters(i), Folding(i)
  PROVE  Sequential!Reduce(i) /\ ScratchNow' = ScratchNow
<1>0. i \in Instruction /\ WellFormed(i)
  BY DEF Enters
<1>1. ~IsMem(i) /\ ~Vectorial(i) /\ ~Immediate(i)
      /\ i.op \notin {"MOV", "SCRATCH_READ", "SCRATCH_WRITE", "WRITE"}
  BY <1>0, Kinds
<1>2. i.in2 \in Vector
  BY <1>0, Shapes
<1> DEFINE acc == IF Dest(i) = i.in1 THEN Neutral(i) ELSE SRegNow[i.in1]
<1>3. /\ HeapNow' = HeapNow /\ mem' = mem /\ ScratchNow' = ScratchNow /\ VRegNow' = VRegNow
      /\ SRegNow' = [SRegNow EXCEPT ![Dest(i)] = Combine(i, acc, ValNow[i.in2])]
  BY <1>1, <1>2 DEF Enters, HeapOf, VRegOf, SRegOf, ValNow
<1>4. /\ Sequential!Folding(i) /\ Sequential!Dest(i) = Dest(i)
      /\ Sequential!Neutral(i) = Neutral(i)
  BY SameInstructions
<1> DEFINE sacc == IF Sequential!Dest(i) = i.in1 THEN Sequential!Neutral(i)
                                                 ELSE SRegNow[i.in1]
           v == Sequential!Combine(i, sacc, ValNow[i.in2])
           d == Sequential!Dest(i)
<1>5. SRegNow' = [SRegNow EXCEPT ![d] = v]
  <2>1. sacc = acc /\ d = Dest(i)
    BY <1>4
  <2>2. v = Combine(i, sacc, ValNow[i.in2])
    BY SameInstructions
  <2> HIDE DEF acc, sacc, d, v
  <2> QED BY <1>3, <2>1, <2>2
<1>6. Sequential!Scalar(d, v)
  <2> HIDE DEF d, v, sacc, acc
  <2> QED BY <1>3, <1>5, ScalarNow
<1> HIDE DEF acc
<1> QED BY <1>3, <1>4, <1>6, Zenon DEF Sequential!Reduce, ValNow

\* Vector arithmetic, in place on the buffer of the first operand.
LEMMA Computes ==
  ASSUME Known, NEW i, Enters(i), Vectorial(i)
  PROVE  Sequential!Arith(i) /\ ScratchNow' = ScratchNow
<1>0. i \in Instruction /\ WellFormed(i)
  BY DEF Enters
<1>1. ~IsMem(i) /\ ~Folding(i) /\ ~Immediate(i)
      /\ i.op \notin {"MOV", "SCRATCH_READ", "SCRATCH_WRITE", "WRITE"}
  BY <1>0, Kinds
<1>2. /\ i.in1 \in Vector /\ Dest(i) \in Vector
      /\ IF i.op \in ScalarOps THEN i.in2 \in SReg ELSE i.in2 \in Vector \ SReg
  BY <1>0, Shapes, Names
<1>3. /\ SRegNow' = SRegNow /\ mem' = mem /\ ScratchNow' = ScratchNow
      /\ VRegNow' = [VRegNow EXCEPT ![Dest(i)] = VRegNow[i.in1]]
      /\ HeapNow' = [HeapNow EXCEPT ![VRegNow[i.in1]] =
                       Combine(i, HeapNow[VRegNow[i.in1]], Second(i))]
  BY <1>1 DEF Enters, HeapOf, VRegOf, SRegOf
<1>4. Sequential!Vectorial(i) /\ Sequential!Dest(i) = Dest(i)
  BY SameInstructions
<1>5. Sequential!Operand(i.in2) = Second(i) /\ ValNow[i.in1] = HeapNow[VRegNow[i.in1]]
  BY <1>2 DEF Sequential!Operand, Second, Enters, ValNow
<1> DEFINE v == Sequential!Combine(i, ValNow[i.in1], Sequential!Operand(i.in2))
           d == Sequential!Dest(i)
<1>6. HeapNow' = [HeapNow EXCEPT ![VRegNow[i.in1]] = v]
  <2>1. v = Combine(i, ValNow[i.in1], Sequential!Operand(i.in2))
    BY SameInstructions
  <2> HIDE DEF v
  <2> QED BY <1>3, <1>5, <2>1
<1>7. Sequential!Shared(d, i.in1, v)
  <2>1. d \in Vector /\ VRegNow' = [VRegNow EXCEPT ![d] = VRegNow[i.in1]]
    BY <1>2, <1>3, <1>4
  <2>2. VRegNow \in [Vector -> Buffer] /\ HeapNow \in [Buffer -> Value]
    BY DEF Enters
  <2> HIDE DEF d, v
  <2>3. PICK e \in Vector, s \in Vector, w \in {v} : e = d /\ s = i.in1
    BY <1>2, <2>1
  <2>4. w = v
    OBVIOUS
  <2>5. VRegNow' = [VRegNow EXCEPT ![e] = VRegNow[s]]
    BY <2>1, <2>3
  <2>6. HeapNow' = [HeapNow EXCEPT ![VRegNow[s]] = w]
    BY <1>6, <2>3, <2>4
  <2>7. Sequential!Shared(e, s, w)
    BY <1>3, <2>2, <2>5, <2>6, SharedNow, Zenon
  <2> QED BY <2>3, <2>4, <2>7, Zenon DEF Sequential!Shared
<1> QED BY <1>3, <1>4, <1>7, Zenon DEF Sequential!Arith, ValNow

\* Jumps and what has no effect.
LEMMA Controls ==
  ASSUME Known, NEW i, Enters(i), i.op \in CondJumps \cup Ignored \cup {"JMP", "NOP"}
  PROVE  Sequential!Control(i) /\ ScratchNow' = ScratchNow
<1>0. i \in Instruction /\ WellFormed(i)
  BY DEF Enters
<1>1. /\ ~IsMem(i) /\ ~Folding(i) /\ ~Immediate(i) /\ ~Vectorial(i)
      /\ i.op \notin {"MOV", "SCRATCH_READ", "SCRATCH_WRITE", "WRITE"}
  BY <1>0 DEF IsMem, MemOps, Folding, RedOps, Immediate, ImmOps, Vectorial, ScalarOps, VecOps,
              CondJumps, Ignored
<1>2. SameRegisters /\ mem' = mem /\ ScratchNow' = ScratchNow
  BY <1>1 DEF Enters, HeapOf, VRegOf, SRegOf, SameRegisters
<1>3. SRegNow' = SRegNow /\ ValNow' = ValNow /\ Sharings' = Sharings
  BY <1>2, SameSeen
<1>4. i.op \in Sequential!CondJumps \cup Sequential!Ignored \cup {"JMP", "NOP"}
  BY SameInstructions
<1> QED BY <1>2, <1>3, <1>4, Zenon DEF Sequential!Control, ValNow, Sharings

\* What SequentialCore has an instruction do, but for pc.
Performs(i) ==
  \/ /\ \/ Sequential!Read(i) \/ Sequential!Write(i) \/ Sequential!Move(i)
        \/ Sequential!Modify(i) \/ Sequential!Arith(i) \/ Sequential!Reduce(i)
        \/ Sequential!Control(i)
     /\ ScratchNow' = ScratchNow
  \/ Sequential!ScratchRead(i)
  \/ Sequential!ScratchWrite(i)

\* Whatever enters writeback does that.
LEMMA EnteringDoes ==
  ASSUME Known, Private, Sources, Contents, Addressed, NEW i, Enters(i)
  PROVE  Performs(i)
<1> USE DEF Performs
<1>1. i \in Instruction
  BY DEF Enters
<1>2. \/ i.op = "READ" \/ i.op = "WRITE" \/ i.op = "SCRATCH_READ" \/ i.op = "SCRATCH_WRITE"
      \/ i.op = "MOV" \/ Immediate(i) \/ Folding(i) \/ Vectorial(i)
      \/ i.op \in CondJumps \cup Ignored \cup {"JMP", "NOP"}
  BY <1>1, Kinds
<1>3. CASE i.op = "READ"
  BY <1>3, ReadRetires
<1>4. CASE i.op = "WRITE"
  BY <1>4, WriteRetires
<1>5. CASE i.op = "SCRATCH_READ"
  BY <1>5, ScratchReads
<1>6. CASE i.op = "SCRATCH_WRITE"
  BY <1>6, ScratchWrites
<1>7. CASE i.op = "MOV"
  BY <1>7, Moving
<1>8. CASE Immediate(i)
  BY <1>8, Modifies
<1>9. CASE Folding(i)
  BY <1>9, Reduces
<1>10. CASE Vectorial(i)
  BY <1>10, Computes
<1>11. CASE i.op \in CondJumps \cup Ignored \cup {"JMP", "NOP"}
  BY <1>11, Controls
<1> QED BY <1>2, <1>3, <1>4, <1>5, <1>6, <1>7, <1>8, <1>9, <1>10, <1>11

\* SequentialCore names its instruction by the position.
LEMMA PerformsAt ==
  ASSUME NEW i, i = cache[Front + 1], Performs(i)
  PROVE  Performs(cache[Front + 1])
<1> USE DEF Performs
<1>1. CASE Sequential!Read(i) /\ ScratchNow' = ScratchNow
  BY <1>1 DEF Sequential!Read, Sequential!Latch, Sequential!At, Sequential!Offset
<1>2. CASE Sequential!Write(i) /\ ScratchNow' = ScratchNow
  BY <1>2 DEF Sequential!Write, Sequential!Latch, Sequential!At, Sequential!Offset
<1>3. CASE Sequential!Move(i) /\ ScratchNow' = ScratchNow
  <2>1. CASE i.in1 = Sequential!NoReg
    <3>1. i.in1 \notin SReg
      BY <2>1, SameInstructions, Names
    <3> QED BY <1>3, <2>1, <3>1 DEF Sequential!Move, Sequential!Scalar
  <2>2. CASE i.in1 \in SReg
    <3>1. i.in1 # Sequential!NoReg
      BY <2>2, SameInstructions, Names
    <3> QED BY <1>3, <2>2, <3>1 DEF Sequential!Move, Sequential!Scalar
  <2>3. CASE i.in1 # Sequential!NoReg /\ i.in1 \notin SReg
    BY <1>3, <2>3 DEF Sequential!Move, Sequential!Shared
  <2> QED BY <2>1, <2>2, <2>3
<1>4. CASE Sequential!Modify(i) /\ ScratchNow' = ScratchNow
  BY <1>4 DEF Sequential!Modify, Sequential!Scalar
<1>5. CASE Sequential!Arith(i) /\ ScratchNow' = ScratchNow
  BY <1>5 DEF Sequential!Arith, Sequential!Shared
<1>6. CASE Sequential!Reduce(i) /\ ScratchNow' = ScratchNow
  BY <1>6 DEF Sequential!Reduce, Sequential!Scalar
<1>7. CASE Sequential!Control(i) /\ ScratchNow' = ScratchNow
  BY <1>7 DEF Sequential!Control
<1>8. CASE Sequential!ScratchRead(i)
  BY <1>8 DEF Sequential!ScratchRead
<1>9. CASE Sequential!ScratchWrite(i)
  BY <1>9 DEF Sequential!ScratchWrite
<1> QED BY <1>1, <1>2, <1>3, <1>4, <1>5, <1>6, <1>7, <1>8, <1>9

\* A clone that enters writeback is a step of SequentialCore.
LEMMA WritebackSteps ==
  ASSUME Known, Known', Path, Addressed, Sources, Private, Contents, NotTaken,
         PropagateWriteback
  PROVE  Sequential!Step \/ UNCHANGED Sequential!vars
<1>1. UNCHANGED <<cache, loads, pc, opVals, sreg, vreg, heap, scratch>>
  BY WritebackDoes DEF Known
<1>2. CASE UNCHANGED <<ins, mem>>
  <2>1. SameRegisters
    BY <1>1, <1>2, AsideSeen DEF Code, W
  <2>2. Front' = Front /\ ScratchNow' = ScratchNow
    BY <1>1, <1>2 DEF Front, ScratchNow, Full, Code, M
  <2> QED BY <1>1, <1>2, <2>1, <2>2, Unchanging
<1>3. CASE /\ ~Full("writeback") /\ Full("mem") /\ ~Full("mem")' /\ Full("writeback")'
           /\ \A s \in {"fetch", "decode", "execute"} : ins'[s] = ins[s]
           /\ ins'["writeback"].pc = M.pc /\ ins'["writeback"].data = M.data
           /\ mem' = IF Code(M).op = "WRITE" THEN [mem EXCEPT ![M.addr] = heap[M.src]]
                                             ELSE mem
  <2>0. PICK i : i = Code(M)
    OBVIOUS
  <2>1. Enters(i)
    <3>1. Enters(Code(M))
      BY <1>3, Entering
    <3> QED BY <2>0, <3>1 DEF Enters
  <2>2. M.pc + 1 \in DOMAIN cache /\ M.pc \in Nat /\ cache \in Seq(Instruction)
    <3>1. ins["mem"] \in Clone /\ ins["mem"].pc + 1 \in DOMAIN cache
      BY <1>3, CodeFacts, StageNames DEF Known, IInv
    <3> QED BY <3>1, SizeAssumption DEF Known, IInv, TypeOK, Clone, Pc, M
  <2>3. Front = M.pc
    BY <1>3, FrontIs DEF M
  <2>4. Front < Len(cache) /\ cache[Front + 1] = i
    BY <2>0, <2>2, <2>3 DEF Code
  <2>5. Front' = Flow(M.pc)
    <3>1. Front' = BehindMem'
      BY <1>3, FrontBecomes
    <3>2. BehindMem' = BehindMem
      BY <1>1, <1>3 DEF BehindMem, BehindExecute, BehindDecode, BehindFetch, Full
    <3> QED BY <1>3, <3>1, <3>2 DEF Path, M
  <2>6. Flow(M.pc) = IF i.op = "JMP" THEN i.addr ELSE Succ(M.pc)
    BY <2>0 DEF Flow, Code
  <2>7. i.op \in CondJumps => ~Taken(i, SRegNow[i.in1], SRegNow[i.in2])
    BY <1>3, <2>1 DEF NotTaken, Enters
  <2>8. Sequential!Target(i) = Flow(M.pc)
    BY <2>3, <2>6, <2>7, SameInstructions DEF Sequential!Target
  <2>9. Performs(i)
    BY <2>1, EnteringDoes
  <2>10. Front' = Sequential!Target(i)
    BY <2>5, <2>8
  <2>11. cache' = cache /\ loads' = loads
    BY <1>1
  <2>12. Front' = Sequential!Target(cache[Front + 1])
    BY <2>4, <2>10
  <2>13. Performs(cache[Front + 1])
    BY <2>4, <2>9, PerformsAt
  <2> QED BY <2>4, <2>11, <2>12, <2>13, Zenon DEF Sequential!Step, Performs
<1> QED BY <1>2, <1>3, WritebackDoes DEF Known

\* A jump is taken in execute, when everything before it has an effect.
LEMMA JumpSteps ==
  ASSUME Known, Known', PropagateMem, Full("execute"), Jumps(ins["execute"]),
         ~Full("mem"), ~Full("mem")', ~Full("execute")', ~Full("decode")', ~Full("fetch")',
         pc' = Code(ins["execute"]).addr, UNCHANGED <<heap, scratch>>
  PROVE  Sequential!Step
<1> DEFINE c == ins["execute"]
           i == Code(c)
<1>1. UNCHANGED <<cache, loads, sreg, vreg, mem>> /\ ins'["writeback"] = ins["writeback"]
  BY MemDoes DEF Known
<1>2. SameRegisters
  BY <1>1, AsideSeen DEF Code, W
<1>3. SRegNow' = SRegNow /\ ValNow' = ValNow /\ Sharings' = Sharings
  BY <1>2, SameSeen
<1>4. ScratchNow' = ScratchNow
  BY DEF ScratchNow
<1>5. i \in Instruction /\ WellFormed(i) /\ c.pc + 1 \in DOMAIN cache /\ c.pc \in Nat
      /\ cache \in Seq(Instruction)
  <2>1. TypeOK /\ Programmed /\ Fetched /\ "execute" \in Stages
    BY StageNames DEF Known, IInv
  <2>2. c \in Clone /\ c.pc + 1 \in DOMAIN cache /\ i \in Instruction /\ WellFormed(i)
    BY <2>1, CodeFacts
  <2>3. c.pc \in Nat
    BY <2>2, SizeAssumption DEF Clone, Pc
  <2>4. cache \in Seq(Instruction)
    BY <2>1 DEF TypeOK
  <2> QED BY <2>2, <2>3, <2>4
<1>6. Front = c.pc /\ Front < Len(cache) /\ cache[Front + 1] = i
  <2>1. Front = c.pc
    BY FrontIs DEF BehindMem
  <2> QED BY <1>5, <2>1 DEF Code
<1>7. Front' = i.addr
  <2>1. Front' = BehindMem'
    BY FrontBecomes
  <2> QED BY <2>1 DEF BehindMem, BehindExecute, BehindDecode, BehindFetch
<1>8. i.op \in CondJumps /\ i.in1 \in SReg /\ i.in2 \in SReg
  BY <1>5, Shapes DEF Jumps
<1>9. Taken(i, SRegNow[i.in1], SRegNow[i.in2])
  <2>1. Taken(i, opVals[c.pc].in1, opVals[c.pc].in2)
    BY DEF Jumps
  <2>2. OwnCurrentAt(c)
    BY StageNames DEF Known, OwnCurrent
  <2>3. opVals[c.pc].in1 = sreg[i.in1] /\ opVals[c.pc].in2 = sreg[i.in2]
    BY <1>8, <2>2, Names DEF OwnCurrentAt, Now
  <2>4. ASSUME NEW r \in SReg, r \in {i.in1, i.in2}
        PROVE  SRegNow[r] = sreg[r]
    <3>1. CASE Full("writeback")
      <4>1. r # NoReg /\ "execute" \in Older
        BY Names, StageNames
      <4>2. SRegAfter(ins["writeback"])[r] = sreg[r]
        BY <2>4, <3>1, <4>1, RetiredKeeps DEF Known
      <4> QED BY <3>1, <4>2 DEF SRegNow, W
    <3>2. CASE ~Full("writeback")
      BY <3>2 DEF SRegNow
    <3> QED BY <3>1, <3>2
  <2> QED BY <1>8, <2>1, <2>3, <2>4
<1> HIDE DEF i
<1>10. Front' = Sequential!Target(i)
  BY <1>7, <1>8, <1>9, SameInstructions DEF Sequential!Target
<1>11. Sequential!Control(i)
  <2>1. i.op \in Sequential!CondJumps
    BY <1>8, SameInstructions
  <2> QED BY <1>1, <1>3, <2>1, Zenon DEF Sequential!Control, ValNow, Sharings
<1> QED BY <1>1, <1>4, <1>6, <1>10, <1>11, Zenon DEF Sequential!Step

\* A start, an access to the scratchpad and a jump that is not taken are no steps.
LEMMA MemSteps ==
  ASSUME Known, Known', PropagateMem
  PROVE  Sequential!Step \/ UNCHANGED Sequential!vars
<1> DEFINE c == ins["execute"]
           d == ins'["mem"]
<1>1. UNCHANGED <<cache, loads, opVals, sreg, vreg, mem>> /\ ins'["writeback"] = ins["writeback"]
  BY MemDoes DEF Known
<1>2. Code(W)' = Code(W) /\ W' = W /\ (Full("writeback")' <=> Full("writeback"))
  BY <1>1 DEF Code, W, Full
<1>3. CASE UNCHANGED <<ins, pc, heap, scratch>>
  <2>1. SameRegisters
    BY <1>1, <1>2, <1>3, AsideSeen
  <2>2. Front' = Front /\ ScratchNow' = ScratchNow
    BY <1>1, <1>3 DEF Front, ScratchNow, Full, Code, M
  <2> QED BY <1>1, <2>1, <2>2, Unchanging
<1>4. CASE /\ ~Full("mem") /\ Full("execute") /\ Full("mem")'
           /\ d.pc = c.pc /\ d.addr = c.addr /\ Effect(c, d)
  <2>1. Code(M)' = Code(c) /\ M' = d
    BY <1>1, <1>4 DEF Code, M
  <2>2. heap \in [Buffer -> Value] /\ scratch \in [Scratch -> Value]
    BY DEF Known, IInv, TypeOK
  <2>3. CASE heap' = heap
    <3>1. SameRegisters
      BY <1>1, <1>2, <2>3, AsideSeen
    <3>2. Front' = Front
      BY <1>4, FrontIs, FrontBecomes DEF BehindMem
    <3>3. ScratchNow' = ScratchNow
      <4>1. CASE Code(c).op = "SCRATCH_WRITE"
        <5>1. /\ scratch' = [scratch EXCEPT ![c.addr] = heap[c.src]]
              /\ d.was = scratch[c.addr]
          BY <1>4, <4>1 DEF Effect, IsMem, MemOps, IsScratch, ScratchOps
        <5>2. ScratchNow' = [scratch' EXCEPT ![c.addr] = scratch[c.addr]]
          BY <1>4, <2>1, <4>1, <5>1 DEF ScratchNow
        <5>3. ScratchNow' = scratch
          BY <2>2, <5>1, <5>2
        <5> QED BY <1>4, <5>3 DEF ScratchNow
      <4>2. CASE Code(c).op # "SCRATCH_WRITE"
        BY <1>4, <2>1, <4>2 DEF Effect, ScratchNow
      <4> QED BY <4>1, <4>2
    <3> QED BY <1>1, <3>1, <3>2, <3>3, Unchanging
  <2>4. CASE heap' # heap
    <3>1. /\ scratch' = scratch /\ Code(c).op # "SCRATCH_WRITE"
          /\ \A b \in Buffer : b # Fresh => heap'[b] = heap[b]
      BY <1>4, <2>2, <2>4 DEF Effect, IsMem, MemOps
    <3>2. Beside(Fresh)
      BY <1>1, <1>2, <3>1, FreshUnseen DEF Beside
    <3>3. SameRegisters
      <4>1. VRegNow \in [Vector -> Buffer]
        BY SeenNow
      <4>2. /\ SRegNow' = SRegNow /\ VRegNow' = VRegNow
            /\ \A r \in Vector : VRegNow[r] # Fresh
            /\ \A b \in Buffer : b # Fresh => HeapNow'[b] = HeapNow[b]
        BY <3>2, Unseen
      <4> QED BY <4>1, <4>2 DEF SameRegisters
    <3>4. Front' = Front
      BY <1>4, FrontIs, FrontBecomes DEF BehindMem
    <3>5. ScratchNow' = ScratchNow
      BY <1>4, <2>1, <3>1 DEF ScratchNow
    <3> QED BY <1>1, <3>3, <3>4, <3>5, Unchanging
  <2> QED BY <2>3, <2>4
<1>5. CASE /\ ~Full("mem") /\ Full("execute") /\ ~Full("mem")'
           /\ ~Full("execute")' /\ ~Full("decode")' /\ ~Full("fetch")'
           /\ Jumps(c) /\ pc' = Code(c).addr /\ UNCHANGED <<heap, scratch>>
  BY <1>5, JumpSteps
<1> QED BY <1>3, <1>4, <1>5, MemDoes DEF Known

-----------------------------------------------------------------------------
(* The theorem.                                                            *)

RInv == /\ Path /\ Addressed /\ Sources /\ Private /\ Contents /\ NotTaken /\ Deadlines

\* The registers start with a buffer each.
LEMMA InitSeen ==
  ASSUME Init
  PROVE  Sequential!Init
<1>1. ~Full("writeback") /\ ~Full("mem") /\ ~Full("execute") /\ ~Full("decode")
      /\ ~Full("fetch")
  BY StageNames DEF Init, Full
<1>2. Front = 0 /\ SRegNow = sreg /\ VRegNow = FirstBuffers /\ HeapNow = heap
      /\ ScratchNow = scratch
  BY <1>1 DEF Init, Front, SRegNow, VRegNow, HeapNow, ScratchNow
<1>3. ValNow \in [Vector -> Value]
  <2>1. \A b \in Buffer : heap[b] \in Value
    BY BufferAssumption, ModuloWidth DEF Init
  <2> QED BY <1>2, <2>1, InitialBuffers DEF ValNow
<1>4. Sharings = {{r} : r \in Vector}
  <2>1. \A r \in Vector : Class(FirstBuffers, r) = {r}
    BY InitialBuffers DEF Class
  <2>2. Sharings = Classes(VRegNow)
    BY ByBuffer DEF Sharings
  <2>3. Classes(VRegNow) = Classes(FirstBuffers)
    BY <1>2
  <2> QED BY <2>1, <2>2, <2>3 DEF Classes
<1>5. mem \in [Addr -> Value]
  BY ModuloWidth DEF Init, Addr
<1>6. /\ Sequential!Vector = Vector /\ Sequential!Value = Value /\ Sequential!Addr = Addr
      /\ Sequential!Scratch = Scratch
  BY SameInstructions DEF Sequential!Value, Value, Sequential!Addr, Addr,
     Sequential!Scratch, Scratch
<1>7. cache = <<>> /\ loads = 0 /\ sreg = [r \in SReg |-> 0] /\ scratch = [a \in Scratch |-> 0]
  BY DEF Init
<1> QED BY <1>2, <1>3, <1>4, <1>5, <1>6, <1>7 DEF Sequential!Init, ValNow, Sharings

\* Empty stages satisfy the invariant.
LEMMA InitRInv ==
  ASSUME Init
  PROVE  RInv
<1>1. \A s \in Stages : ~Full(s)
  BY DEF Init, Full
<1>2. phase # "writeback"
  BY DEF Init
<1> QED BY <1>1, <1>2, StageNames
    DEF RInv, Path, Addressed, Sources, Private, Contents, NotTaken, Deadlines, Settled, InPlace

\* Its parts together.
LEMMA NextRInv ==
  ASSUME Known, Known', RInv, WritesSettled, [Next]_vars
  PROVE  RInv'
<1>1. Path'
  BY PathNext DEF RInv, Known
<1>2. Addressed'
  BY AddressedNext DEF RInv
<1>3. Sources'
  BY SourcesNext DEF RInv
<1>4. Private'
  BY PrivateNext DEF RInv
<1>5. Contents'
  BY ContentsNext DEF RInv
<1>6. NotTaken'
  BY NotTakenNext DEF RInv
<1>7. Deadlines'
  BY DeadlinesNext DEF RInv
<1> QED BY <1>1, <1>2, <1>3, <1>4, <1>5, <1>6, <1>7 DEF RInv

\* Every step is a step of SequentialCore or none.
LEMMA StepSimulation ==
  ASSUME Known, Known', RInv, [Next]_vars
  PROVE  [Sequential!Next]_(Sequential!vars)
<1>1. CASE Drain
  BY <1>1, DrainUnseen
<1>2. CASE PropagateWriteback
  BY <1>2, WritebackSteps DEF RInv, Sequential!Next
<1>3. CASE PropagateMem
  BY <1>3, MemSteps DEF Sequential!Next
<1>4. CASE PropagateExecute
  BY <1>4, ExecuteUnseen
<1>5. CASE PropagateDecode
  BY <1>5, DecodeUnseen
<1>6. CASE TickStages
  BY <1>6, TickUnseen
<1>7. CASE Handle
  <2>1. cache' = cache /\ loads' = loads
    BY <1>7 DEF Handle
  <2> QED BY <1>7, <2>1, HandlersDo, HandlingUnseen, Unchanging DEF Known
<1>8. CASE loads < MaxLoads /\ \E p \in Programs : HandleCommand(p)
  <2>1. PICK p \in Programs : Sequential!Load(p)
    BY <1>8, CommandLoads
  <2> QED BY <1>8, <2>1 DEF Sequential!Next
<1>9. CASE Serve \/ UNCHANGED vars
  BY <1>9, IdleUnseen DEF Serve, vars, regs, bank, Idle
<1> QED BY <1>1, <1>2, <1>3, <1>4, <1>5, <1>6, <1>7, <1>8, <1>9 DEF Next, CoreStep

\* Pipelining is invisible.  Where every program declares what its immediate
\* operations and reductions change, and as long as no WRITE starts while an
\* older operation has yet to change the buffer it takes, what the five stages,
\* the interlock, the flushes and the late completions of the bank leave in the
\* registers, the bank and the scratchpad is what the loaded programs leave
\* there one instruction after the other.
THEOREM Refinement ==
  ASSUME \A p \in Programs : \A n \in DOMAIN p : Declares(p[n])
  PROVE  Spec /\ []WritesSettled => ImplementsSequentialCore
<1>1. Init => Declared /\ OwnCurrent /\ RInv /\ Sequential!Init
  <2>1. Init => Declared /\ OwnCurrent
    BY DEF Init, Declared, OwnCurrent, Full, Older, Stages
  <2> QED BY <2>1, InitRInv, InitSeen
<1>2. IInv /\ Declared /\ OwnCurrent /\ [Next]_vars => Declared' /\ OwnCurrent'
  BY NextOwn
<1>3. IInv /\ Declared /\ OwnCurrent /\ RInv /\ IInv' /\ Declared' /\ OwnCurrent'
        /\ WritesSettled /\ [Next]_vars => RInv'
  BY NextRInv DEF Known
<1>4. IInv /\ Declared /\ OwnCurrent /\ RInv /\ IInv' /\ Declared' /\ OwnCurrent'
        /\ [Next]_vars => [Sequential!Next]_(Sequential!vars)
  BY StepSimulation DEF Known
<1> QED BY <1>1, <1>2, <1>3, <1>4, Invariance, PTL
    DEF Spec, ImplementsSequentialCore, Sequential!Spec

-----------------------------------------------------------------------------
(* When no WRITE takes a buffer too early.                                 *)

\* An operation in place is no danger to a WRITE right behind it if it uses the
\* GDL or names as its destination the register that is written, which the
\* interlock sees, or else if their registers differ and no instruction ever
\* makes two registers share a buffer.
KeepsApart(i) ==
  /\ i.op = "MOV" => i.in1 \notin Vector
  /\ Vectorial(i) => i.in1 # Gdl /\ Dest(i) = i.in1
Apart == \A p \in Programs : \A n \in DOMAIN p : KeepsApart(p[n])
Settles(i, j) ==
  Vectorial(i) /\ j.op = "WRITE" =>
    \/ UsesGdl(i)
    \/ i.dst # NoReg /\ i.dst = j.in1
    \/ Apart /\ j.in1 \in VReg /\ j.in1 # i.in1

\* Programs of that kind; none starts with a WRITE, as another may lie before it.
Spaced ==
  \A p \in Programs :
    /\ \A n \in DOMAIN p : n + 1 \in DOMAIN p => Settles(p[n], p[n + 1])
    /\ 1 \in DOMAIN p => p[1].op # "WRITE"

\* So is what the cache holds.
CacheSpaced ==
  /\ \A n \in DOMAIN cache : n + 1 \in DOMAIN cache => Settles(cache[n], cache[n + 1])
  /\ 1 \in DOMAIN cache => cache[1].op # "WRITE"
  /\ Apart => \A n \in DOMAIN cache : KeepsApart(cache[n])

\* Behind the clone in writeback comes what follows it in the program, as long
\* as it has not been drained; a jump that is taken leaves nothing behind it.
BehindWriteback == IF Full("mem") THEN ins["mem"].pc ELSE BehindMem
Following ==
  phase # "drain" /\ Full("writeback") /\ (\E s \in Stages \ {"writeback"} : Full(s))
  => BehindWriteback = Flow(ins["writeback"].pc)

\* No two registers refer to one buffer.
Unshared == Apart => \A r, s \in VReg : r # s => vreg[r] # vreg[s]

\* Moving a program changes neither the operations nor their registers.
LEMMA RelocatedSame ==
  ASSUME NEW p \in Program, NEW start \in Nat, NEW n \in DOMAIN p
  PROVE  LET i == Relocated(p, start)[n] IN
         /\ i.op = p[n].op /\ i.in1 = p[n].in1 /\ i.in2 = p[n].in2 /\ i.dst = p[n].dst
<1>1. p[n] \in Instruction
  BY DEF Program
<1> QED BY <1>1 DEF Relocated, Instruction

\* Loading spaced programs one behind the other keeps the cache spaced.
LEMMA CacheSpacedNext ==
  ASSUME Spaced, IInv, CacheSpaced, [Next]_vars
  PROVE  CacheSpaced'
<1>1. ASSUME NEW p \in Programs, HandleCommand(p)
      PROVE  CacheSpaced'
  <2> DEFINE moved == Relocated(p, Len(cache))
             code == cache \o moved
  <2>1. cache' = code
    BY <1>1 DEF HandleCommand
  <2>2. p \in Program /\ p \in Seq(Instruction) /\ Len(cache) \in Nat
        /\ DOMAIN cache = 1..Len(cache) /\ DOMAIN p = 1..Len(p) /\ Len(p) \in Nat
    BY ProgramAssumption DEF Program, IInv, TypeOK
  <2>3. \A n \in DOMAIN p :
          /\ moved[n].op = p[n].op /\ moved[n].in1 = p[n].in1
          /\ moved[n].in2 = p[n].in2 /\ moved[n].dst = p[n].dst
    BY <2>2, RelocatedSame
  <2>4. /\ \A n \in DOMAIN cache : code[n] = cache[n]
        /\ \A n \in DOMAIN code : n \notin DOMAIN cache =>
             n - Len(cache) \in DOMAIN p /\ code[n] = moved[n - Len(cache)]
        /\ DOMAIN code = 1..(Len(cache) + Len(p))
    <3>1. code \in Seq(Instruction) /\ Len(code) = Len(cache) + Len(p)
      BY <1>1, Loaded
    <3> HIDE DEF code
    <3>2. DOMAIN code = 1..(Len(cache) + Len(p))
      BY <3>1
    <3> QED BY <1>1, <3>2, Loaded DEF code
  <2>5. \A n \in DOMAIN p : n + 1 \in DOMAIN p => Settles(moved[n], moved[n + 1])
    <3>1. ASSUME NEW n \in DOMAIN p, n + 1 \in DOMAIN p
          PROVE  Settles(moved[n], moved[n + 1])
      <4>1. Settles(p[n], p[n + 1])
        BY <3>1 DEF Spaced
      <4> HIDE DEF moved
      <4> QED BY <2>3, <3>1, <4>1 DEF Settles, Vectorial, UsesGdl, Operands, IsMem
    <3> QED BY <3>1
  <2>6. 1 \in DOMAIN p => moved[1].op # "WRITE"
    BY <2>3 DEF Spaced
  <2>7. Apart => \A n \in DOMAIN p : KeepsApart(moved[n])
    <3> HIDE DEF moved
    <3> QED BY <2>3 DEF Apart, KeepsApart, Vectorial, Dest
  <2> HIDE DEF moved, code
  <2>8. ASSUME NEW n \in DOMAIN code, n + 1 \in DOMAIN code
        PROVE  Settles(code[n], code[n + 1])
    <3>1. CASE n + 1 \in DOMAIN cache
      BY <2>2, <2>4, <3>1 DEF CacheSpaced
    <3>2. CASE n \in DOMAIN cache /\ n + 1 \notin DOMAIN cache
      <4>1. n = Len(cache) /\ code[n + 1] = moved[1] /\ 1 \in DOMAIN p
        BY <2>2, <2>4, <2>8, <3>2
      <4> QED BY <2>6, <4>1 DEF Settles
    <3>3. CASE n \notin DOMAIN cache
      <4> DEFINE k == n - Len(cache)
      <4>1. k \in DOMAIN p /\ code[n] = moved[k]
        BY <2>4, <3>3
      <4>2. n + 1 \notin DOMAIN cache /\ (n + 1) - Len(cache) = k + 1
        BY <2>2, <2>4, <3>3
      <4>3. k + 1 \in DOMAIN p /\ code[n + 1] = moved[k + 1]
        BY <2>4, <2>8, <4>2
      <4> QED BY <2>5, <4>1, <4>3
    <3> QED BY <2>2, <3>1, <3>2, <3>3
  <2>9. 1 \in DOMAIN code => code[1].op # "WRITE"
    <3>1. CASE 1 \in DOMAIN cache
      BY <2>4, <3>1 DEF CacheSpaced
    <3>2. CASE 1 \notin DOMAIN cache
      BY <2>2, <2>4, <2>6, <3>2
    <3> QED BY <3>1, <3>2
  <2>10. Apart => \A n \in DOMAIN code : KeepsApart(code[n])
    BY <2>4, <2>7 DEF CacheSpaced
  <2>11. Apart' = Apart
    BY DEF Apart
  <2> QED BY <2>1, <2>8, <2>9, <2>10, <2>11 DEF CacheSpaced
<1>2. CASE ~\E p \in Programs : HandleCommand(p)
  <2>1. cache' = cache
    BY <1>2 DEF Next, CoreStep, Drain, PropagateWriteback, PropagateMem, PropagateExecute,
       PropagateDecode, TickStages, Handle, Serve, vars
  <2> QED BY <2>1 DEF CacheSpaced, Apart
<1> QED BY <1>1, <1>2

\* Clones enter writeback in order, too.
LEMMA FollowingNext ==
  ASSUME IInv, Path, Following, [Next]_vars
  PROVE  Following'
<1> USE StageNames DEF Following, BehindWriteback, BehindMem, BehindExecute, BehindDecode,
        BehindFetch, Flow
<1>1. CASE Drain
  BY <1>1, DrainDoes
<1>2. CASE PropagateWriteback
  <2>1. CASE UNCHANGED ins
    BY <1>2, <2>1, WritebackDoes DEF Full
  <2>2. CASE ~UNCHANGED ins
    BY <1>2, <2>2, WritebackDoes DEF Path, Full, M
  <2> QED BY <2>1, <2>2
<1>3. CASE PropagateMem
  <2>1. CASE UNCHANGED <<ins, pc>>
    BY <1>3, <2>1, MemDoes DEF Full
  <2>2. CASE ~UNCHANGED <<ins, pc>>
    BY <1>3, <2>2, MemDoes DEF Full
  <2> QED BY <2>1, <2>2
<1>4. CASE PropagateExecute
  BY <1>4, ExecuteDoes DEF Full
<1>5. CASE PropagateDecode
  BY <1>5, DecodeDoes DEF Full
<1>6. CASE TickStages
  BY <1>6, TickDoes DEF Full
<1>7. CASE Handling
  BY <1>7 DEF Handling
<1>8. CASE Idle
  BY <1>8 DEF Idle, Full
<1> QED BY <1>1, <1>2, <1>3, <1>4, <1>5, <1>6, <1>7, <1>8, Steps

\* Only retirements change registers: what was read lies in a buffer of its
\* own, what was changed in place stays where it was.
LEMMA UnsharedNext ==
  ASSUME Known, Private, CacheSpaced, Unshared, [Next]_vars
  PROVE  Unshared'
<1>1. IInv
  BY DEF Known
<1>2. CASE Drain
  <2>1. vreg' = VRegNow
    BY <1>1, <1>2, DrainDoes
  <2>2. CASE ~Full("writeback")
    BY <2>1, <2>2 DEF VRegNow, Unshared, Apart
  <2>3. CASE Full("writeback") /\ Apart
    <3> DEFINE i == Code(W)
    <3>1. /\ vreg' = VRegAfter(W) /\ vreg \in [Vector -> Buffer]
          /\ \A r, s \in VReg : r # s => vreg[r] # vreg[s]
      BY <1>1, <2>1, <2>3 DEF VRegNow, Unshared, IInv, TypeOK
    <3>2. KeepsApart(i)
      BY <1>1, <2>3, StageNames, CodeFacts DEF CacheSpaced, IInv, W, Code
    <3>3. WellFormed(i) /\ Gdl \notin VReg /\ VReg \subseteq Vector
      BY <1>1, <2>3, StageNames, CodeFacts, RegisterAssumption DEF IInv, W, Vector
    <3>4. CASE i.op = "SCRATCH_READ" \/ IsMem(i)
      <4>1. \A r \in Vector : vreg[r] # W.data
        BY <2>3, <3>4 DEF Private, Loads, W
      <4>2. i.dst \in VReg \cup {NoReg}
        BY <3>3, <3>4 DEF WellFormed, IsMem, MemOps, Immediate, ImmOps, Folding, RedOps,
           Vectorial, VecOps, ScalarOps, Ignored, CondJumps
      <4>3. \A r \in VReg : vreg'[r] = IF r = i.dst THEN W.data ELSE vreg[r]
        <5>1. CASE i.op = "SCRATCH_READ"
          <6>1. vreg' = [vreg EXCEPT ![i.dst] = W.data]
            BY <3>1, <5>1 DEF VRegAfter, IsMem, MemOps, Vectorial, ScalarOps, VecOps
          <6> HIDE DEF i
          <6> QED BY <3>1, <3>3, <6>1
        <5>2. CASE IsMem(i)
          <6>1. vreg' = [r \in Vector |-> IF r \in Latched(i) THEN W.data ELSE vreg[r]]
            BY <3>1, <5>2 DEF VRegAfter, IsMem, MemOps, Vectorial, ScalarOps, VecOps
          <6> HIDE DEF i
          <6> QED BY <3>3, <4>2, <6>1, RegisterAssumption DEF Latched, Vector
        <5> QED BY <3>4, <5>1, <5>2
      <4> QED BY <3>1, <3>3, <4>1, <4>3 DEF Unshared
    <3>5. CASE Vectorial(i)
      <4>1. OwnCurrentAt(W) /\ i.in1 \in Vector /\ i.in1 # NoReg /\ i.in1 \notin SReg
        BY <2>3, <3>3, <3>5, StageNames, RegisterAssumption DEF Known, OwnCurrent, W, WellFormed,
           Immediate, ImmOps, Folding, RedOps, Vectorial, VecOps, ScalarOps, Ignored, CondJumps
      <4>2. opVals[W.pc].in1 = vreg[i.in1]
        BY <4>1 DEF OwnCurrentAt, Now
      <4>3. vreg' = [vreg EXCEPT ![i.in1] = vreg[i.in1]]
        BY <3>1, <3>2, <3>5, <4>2 DEF VRegAfter, KeepsApart, IsMem, MemOps, Vectorial, VecOps,
           ScalarOps
      <4> QED BY <3>1, <4>3 DEF Unshared
    <3>6. CASE ~Vectorial(i) /\ i.op # "SCRATCH_READ" /\ ~IsMem(i)
      BY <3>1, <3>2, <3>6 DEF VRegAfter, KeepsApart, Unshared
    <3> QED BY <3>4, <3>5, <3>6
  <2> QED BY <2>2, <2>3 DEF Unshared, Apart
<1>3. CASE ~Drain
  <2>1. vreg' = vreg
    BY <1>1, <1>3, Steps, WritebackDoes, MemDoes, ExecuteDoes, DecodeDoes, TickDoes
       DEF Handling, Idle
  <2> QED BY <2>1 DEF Unshared, Apart
<1> QED BY <1>2, <1>3

\* The interlock, or the buffers, keep a WRITE from what is still in writeback.
LEMMA SpacedSettles ==
  ASSUME Known, CacheSpaced, Following, Unshared
  PROVE  WritesSettled
<1> DEFINE young == ins["execute"]
           old == ins["writeback"]
           j == Code(young)
           i == Code(old)
<1> SUFFICES ASSUME At("mem"), ~Full("mem"), Full("execute"), Full("writeback"),
                    j.op = "WRITE", Vectorial(i)
             PROVE  Source(young) # opVals[old.pc].in1
  BY DEF WritesSettled
<1>1. IInv
  BY DEF Known
<1>2. young.pc = Flow(old.pc)
  BY StageNames DEF Following, At, BehindWriteback, BehindMem
<1>3. /\ young.pc + 1 \in DOMAIN cache /\ old.pc + 1 \in DOMAIN cache
      /\ young.pc \in Pc /\ old.pc \in Pc /\ WellFormed(i) /\ WellFormed(j)
  <2>1. \A s \in {"execute", "writeback"} : ins[s].pc \in Pc
    BY <1>1, StageNames DEF IInv, TypeOK, Full, Clone
  <2> QED BY <1>1, <2>1, StageNames, CodeFacts DEF IInv
<1>4. i.op # "JMP"
  BY DEF Vectorial, ScalarOps, VecOps
<1>5. young.pc = old.pc + 1
  <2>1. young.pc = Succ(old.pc)
    BY <1>2, <1>4 DEF Flow, Code
  <2>2. young.pc # 0
    BY <1>3 DEF CacheSpaced, Code
  <2> QED BY <2>1, <2>2 DEF Succ
<1>6. Settles(i, j)
  BY <1>3, <1>5 DEF CacheSpaced, Code
<1>7. ~UsesGdl(i)
  BY <1>1, StageNames DEF IInv, OneMemOp, UsesGdl, IsMem, MemOps
<1>8. i.dst # NoReg => i.dst # j.in1
  <2>1. HazardFree
    BY <1>1 DEF IInv
  <2> QED BY <2>1, StageNames DEF HazardFree, Rank
<1>9. Apart /\ j.in1 \in VReg /\ j.in1 # i.in1
  BY <1>6, <1>7, <1>8 DEF Settles
<1>10. i.in1 \in VReg /\ i.in1 # NoReg /\ i.in1 \notin SReg /\ j.in1 # NoReg
  BY <1>3, <1>7, <1>9, RegisterAssumption DEF WellFormed, UsesGdl, Operands, Vector,
     Immediate, ImmOps, Folding, RedOps, Vectorial, VecOps, ScalarOps, Ignored, CondJumps
<1>11. opVals[old.pc].in1 = vreg[i.in1]
  <2>1. OwnCurrentAt(old)
    BY StageNames DEF Known, OwnCurrent
  <2> QED BY <1>10, <2>1 DEF OwnCurrentAt, Now
<1>12. Source(young) = vreg[j.in1]
  BY <1>10 DEF Source
<1> QED BY <1>9, <1>10, <1>11, <1>12 DEF Unshared

SInv == Declared /\ OwnCurrent /\ RInv /\ CacheSpaced /\ Following /\ Unshared

LEMMA InitSInv ==
  ASSUME Init
  PROVE  SInv
<1>1. \A s \in Stages : ~Full(s)
  BY DEF Init, Full
<1>2. Declared /\ OwnCurrent /\ CacheSpaced /\ Following
  BY <1>1, StageNames DEF Init, Declared, OwnCurrent, CacheSpaced, Following
<1>3. Unshared
  BY InitialBuffers DEF Init, Unshared, Vector
<1> QED BY <1>2, <1>3, InitRInv DEF SInv

LEMMA NextSInv ==
  ASSUME \A p \in Programs : \A n \in DOMAIN p : Declares(p[n]), Spaced,
         IInv, IInv', SInv, [Next]_vars
  PROVE  SInv' /\ WritesSettled
<1>1. Known /\ RInv /\ CacheSpaced /\ Following /\ Unshared
  BY DEF SInv, Known
<1>2. Declared' /\ OwnCurrent'
  BY NextOwn DEF SInv
<1>3. WritesSettled
  BY <1>1, SpacedSettles
<1>4. RInv'
  BY <1>1, <1>2, <1>3, NextRInv DEF Known
<1>5. CacheSpaced'
  BY <1>1, CacheSpacedNext
<1>6. Following' /\ Unshared'
  BY <1>1, FollowingNext, UnsharedNext DEF RInv, Known
<1> QED BY <1>2, <1>3, <1>4, <1>5, <1>6 DEF SInv

\* A property of the programs is enough for WRITEs to be safe.
THEOREM WritesAlwaysSettled ==
  ASSUME \A p \in Programs : \A n \in DOMAIN p : Declares(p[n]), Spaced
  PROVE  Spec => []WritesSettled
<1>1. Init => SInv
  BY InitSInv
<1>2. IInv /\ IInv' /\ SInv /\ [Next]_vars => SInv'
  BY NextSInv
<1>3. IInv /\ SInv => WritesSettled
  BY SpacedSettles DEF SInv, Known
<1> QED BY <1>1, <1>2, <1>3, Invariance, PTL DEF Spec

\* So pipelining is invisible to programs of that kind, whatever they compute.
THEOREM SpacedRefinement ==
  ASSUME \A p \in Programs : \A n \in DOMAIN p : Declares(p[n]), Spaced
  PROVE  Spec => ImplementsSequentialCore
  BY WritesAlwaysSettled, Refinement, PTL

-----------------------------------------------------------------------------
(* The loops of Kernels are of that kind.                                  *)
Tables == INSTANCE IntervalTableProofs

\* Registers and ranges as the generators get them; D are the dtypes.
IsCore(core) ==
  /\ core.reg \in Seq(SReg) /\ Len(core.reg) >= 3
  /\ core.vec \in Seq(VReg) /\ Len(core.vec) >= 1 /\ core.nCol \in Nat \ {0}
  /\ \A c, d \in DOMAIN core.vec : c # d => core.vec[c] # core.vec[d]
IsCommand(cmd, D) ==
  /\ \A r \in {cmd.r1, cmd.r2, cmd.dst} : r[1] \in Nat /\ r[2] \in Nat /\ r[1] < r[2]
  /\ cmd.scalar \in Int /\ cmd.dtype \in D

\* Instructions with a dtype, and the kinds of them that kernels are made of.
Typed(D) == [op : OpType, in1 : Reg, in2 : Reg, dst : Reg, addr : Int, imm : Int,
             time : 0..2, dtype : D]
Lawful(D) == {i \in Typed(D) : Declares(i) /\ KeepsApart(i)}
Calm(D) == {i \in Lawful(D) : Vectorial(i) => UsesGdl(i)}
Storeless(D) == {i \in Lawful(D) : i.op # "WRITE"}

\* The largest of a set of numbers with a bound.
LEMMA Largest ==
  ASSUME NEW n \in Nat, NEW S, S \subseteq 0..n, S # {}
  PROVE  Max(S) \in S /\ \A x \in S : x <= Max(S)
<1>1. PICK m \in S : \A x \in S : x <= m
  BY Tables!NatMax
<1>2. S \subseteq Int
  OBVIOUS
<1>3. \A x \in S : m >= x
  BY <1>1, <1>2
<1>4. Max(S) \in S /\ \A x \in S : Max(S) >= x
  BY <1>3 DEF Max
<1> QED BY <1>2, <1>4

\* sel_window, for every length: at least a chunk, at most what registers and
\* columns allow, and no rest, which the loops do not look for.
THEOREM WindowFacts ==
  ASSUME NEW core, IsCore(core), NEW len \in Nat \ {0}
  PROVE  LET w == SelWindow(core, len) IN
         w \in 1..len /\ w <= Len(core.vec) /\ w <= core.nCol /\ len % w = 0
<1> DEFINE most == Least(Least(Len(core.vec), len), core.nCol)
           fitting == {w \in 1..most : len % w = 0}
<1>1. most \in Nat \ {0} /\ most <= len /\ most <= Len(core.vec) /\ most <= core.nCol
  BY DEF IsCore, Least
<1>2. 1 \in fitting
  BY <1>1
<1>3. fitting \subseteq 0..most
  BY <1>1
<1>4. SelWindow(core, len) = Max(fitting)
  BY <1>2 DEF SelWindow
<1> HIDE DEF most
<1>5. Max(fitting) \in fitting
  BY <1>1, <1>2, <1>3, Largest
<1> HIDE DEF fitting
<1>6. SelWindow(core, len) \in 1..most /\ len % SelWindow(core, len) = 0
  BY <1>4, <1>5 DEF fitting
<1>7. SelWindow(core, len) \in 1..len /\ SelWindow(core, len) <= Len(core.vec)
      /\ SelWindow(core, len) <= core.nCol
  BY <1>1, <1>6 DEF IsCore
<1> QED BY <1>6, <1>7

\* An instruction is what its generator names.
LEMMA Fields ==
  ASSUME NEW op, NEW in1, NEW in2, NEW dst, NEW addr, NEW imm, NEW dtype
  PROVE  LET i == Ins(op, in1, in2, dst, addr, imm, dtype) IN
         /\ i.op = op /\ i.in1 = in1 /\ i.in2 = in2 /\ i.dst = dst
         /\ i.addr = addr /\ i.imm = imm /\ i.dtype = dtype
  BY DEF Ins
LEMMA Named ==
  ASSUME NEW D, NEW op \in OpType, NEW in1 \in Reg, NEW in2 \in Reg, NEW dst \in Reg,
         NEW addr \in Int, NEW imm \in Int, NEW dtype \in D
  PROVE  Ins(op, in1, in2, dst, addr, imm, dtype) \in Typed(D)
  BY DEF Ins, Timing, Typed
LEMMA NamedUntimed ==
  ASSUME NEW D, NEW i \in Typed(D)
  PROVE  /\ Untimed(i) \in Typed(D)
         /\ Untimed(i).op = i.op /\ Untimed(i).in1 = i.in1 /\ Untimed(i).in2 = i.in2
         /\ Untimed(i).dst = i.dst
  BY DEF Untimed, Typed

\* A register is set by an instruction that every loop may have anywhere.
LEMMA Setting ==
  ASSUME NEW D, Int32 \in D, NEW r \in SReg, NEW imm \in Int
  PROVE  SET(r, imm) \in Calm(D) \cap Storeless(D)
<1> DEFINE j == SET(r, imm)
<1>a. r \in Reg /\ NoReg \in Reg /\ "MOV" \in OpType /\ 0 \in Int
  BY DEF Reg, OpType
<1>b. j \in Typed(D)
  BY <1>a, Named DEF SET
<1>c. j.op = "MOV" /\ j.in1 = NoReg
  BY Fields DEF SET
<1>1. j \in Typed(D) /\ j.op = "MOV" /\ j.in1 = NoReg
  BY <1>b, <1>c
<1> HIDE DEF j
<1>2. NoReg \notin Vector
  BY RegisterAssumption
<1>3. j \in Calm(D) \cap Storeless(D)
  BY <1>1, <1>2 DEF Calm, Storeless, Lawful, Declares, KeepsApart, Vectorial,
     Immediate, Folding, ImmOps, RedOps, ScalarOps, VecOps
<1> QED BY <1>3 DEF j

\* So is an indexed READ.
LEMMA Reading ==
  ASSUME NEW D, NEW a \in Int, NEW r \in Reg, NEW v \in Reg, NEW dtype \in D
  PROVE  READ(a, r, v, dtype) \in Calm(D) \cap Storeless(D)
<1> DEFINE j == READ(a, r, v, dtype)
<1>a. NoReg \in Reg /\ "READ" \in OpType /\ 0 \in Int
  BY DEF Reg, OpType, MemOps
<1>b. j \in Typed(D)
  BY <1>a, Named DEF READ
<1>c. j.op = "READ"
  BY Fields DEF READ
<1>1. j \in Typed(D) /\ j.op = "READ"
  BY <1>b, <1>c
<1> HIDE DEF j
<1>2. j \in Calm(D) \cap Storeless(D)
  BY <1>1 DEF Calm, Storeless, Lawful, Declares, KeepsApart, Vectorial, Immediate,
     Folding, ImmOps, RedOps, ScalarOps, VecOps
<1> QED BY <1>2 DEF j

\* An increment, and a jump.
LEMMA Counting ==
  ASSUME NEW D, NEW r \in SReg, NEW s \in SReg, NEW w \in Int, NEW a \in Int, NEW dtype \in D
  PROVE  INC(r, w, dtype) \in Storeless(D) /\ JL(r, s, a, dtype) \in Storeless(D)
<1> DEFINE j == INC(r, w, dtype)
           k == JL(r, s, a, dtype)
<1>1. /\ r # NoReg /\ r \in Reg /\ s \in Reg /\ NoReg \in Reg
      /\ "IMM_ADD" \in OpType /\ "JL" \in OpType /\ 0 \in Int
  BY RegisterAssumption DEF Reg, OpType, ImmOps, CondJumps
<1>2. j \in Typed(D) /\ j.op = "IMM_ADD" /\ j.dst # NoReg
  BY <1>1, Named, Fields DEF INC
<1>3. k \in Typed(D) /\ k.op = "JL"
  BY <1>1, Named, Fields DEF JL
<1> HIDE DEF j, k
<1>4. j \in Storeless(D) /\ k \in Storeless(D)
  BY <1>2, <1>3 DEF Storeless, Lawful, Declares, KeepsApart, Vectorial, Immediate,
     Folding, ImmOps, RedOps, ScalarOps, VecOps
<1> QED BY <1>4 DEF j, k

\* The reads and writes of a window.
LEMMA Transfers ==
  ASSUME NEW D, NEW core, IsCore(core), NEW cmd, IsCommand(cmd, D),
         NEW n \in Nat, n <= Len(core.vec)
  PROVE  /\ Reads(core, cmd, n) \in Seq(Calm(D) \cap Storeless(D))
         /\ Writes(core, cmd, n) \in Seq(Calm(D))
<1>1. /\ core.reg[1] \in Reg /\ \A c \in 1..n : core.vec[c] \in Reg
      /\ NoReg \in Reg /\ cmd.dtype \in D /\ cmd.r1[1] \in Nat /\ cmd.dst[1] \in Nat
  BY DEF IsCore, IsCommand, Reg, Vector
<1>2. ASSUME NEW c \in 1..n
      PROVE  READ(cmd.r1[1] + c - 1, core.reg[1], core.vec[c], cmd.dtype)
                   \in Calm(D) \cap Storeless(D)
  <2> DEFINE a == cmd.r1[1] + c - 1
  <2>1. a \in Int
    BY <1>1
  <2> HIDE DEF a
  <2>2. READ(a, core.reg[1], core.vec[c], cmd.dtype) \in Calm(D) \cap Storeless(D)
    BY <1>1, <2>1, Reading
  <2> QED BY <2>2 DEF a
<1>3. ASSUME NEW c \in 1..n
      PROVE  LET i == WRITE(core.vec[c], cmd.dst[1] + c - 1, core.reg[1], cmd.dtype)
             IN  i \in Calm(D)
  <2> DEFINE b == cmd.dst[1] + c - 1
             k == WRITE(core.vec[c], b, core.reg[1], cmd.dtype)
  <2>1. b \in Int
    BY <1>1
  <2> HIDE DEF b
  <2>2. k \in Typed(D) /\ k.op = "WRITE"
    BY <1>1, <2>1, Named, Fields DEF WRITE, OpType, MemOps
  <2> HIDE DEF k
  <2>3. k \in Calm(D)
    BY <2>2 DEF Calm, Lawful, Declares, KeepsApart, Vectorial, Immediate, Folding,
       ImmOps, RedOps, ScalarOps, VecOps
  <2> QED BY <2>3 DEF b, k
<1>4. Reads(core, cmd, n) \in Seq(Calm(D) \cap Storeless(D))
  BY <1>2 DEF Reads
<1>5. Writes(core, cmd, n) \in Seq(Calm(D))
  BY <1>3 DEF Writes
<1> QED BY <1>4, <1>5

LEMMA FirstWrite ==
  ASSUME NEW core, NEW cmd, NEW n \in Nat \ {0}
  PROVE  Writes(core, cmd, n)[1].in1 = core.vec[1]
  BY Fields DEF Writes, WRITE

\* The end of a loop.
LEMMA Iterates ==
  ASSUME NEW D, NEW core, IsCore(core), NEW cmd, IsCommand(cmd, D),
         NEW w \in Int, NEW loop \in Int
  PROVE  Iterate(core, cmd, w, loop) \in Seq(Storeless(D))
<1>1. core.reg[1] \in SReg /\ core.reg[2] \in SReg /\ cmd.dtype \in D
  BY DEF IsCore, IsCommand
<1>2. /\ INC(core.reg[1], w, cmd.dtype) \in Storeless(D)
      /\ JL(core.reg[1], core.reg[2], loop, cmd.dtype) \in Storeless(D)
  BY <1>1, Counting
<1> QED BY <1>2 DEF Iterate

\* Settles, where no two registers share a buffer.
Quiet(i, j) ==
  Vectorial(i) /\ j.op = "WRITE" => UsesGdl(i) \/ (j.in1 \in VReg /\ j.in1 # i.in1)
Orderly(D, p) ==
  /\ p \in Seq(Lawful(D)) /\ Len(p) >= 1 /\ p[1].op # "WRITE"
  /\ \A n \in 1..(Len(p) - 1) : Quiet(p[n], p[n + 1])

\* What may come behind.
LEMMA OrderlyMore ==
  ASSUME NEW D, NEW p, Orderly(D, p), NEW q \in Seq(Lawful(D)),
         Len(q) >= 1 => Quiet(p[Len(p)], q[1]),
         \A n \in 1..(Len(q) - 1) : Quiet(q[n], q[n + 1])
  PROVE  Orderly(D, p \o q)
<1> DEFINE r == p \o q
<1>1. p \in Seq(Lawful(D)) /\ Len(p) \in Nat /\ Len(q) \in Nat /\ Len(p) >= 1
  BY DEF Orderly
<1>2. /\ r \in Seq(Lawful(D)) /\ Len(r) = Len(p) + Len(q)
      /\ \A n \in 1..Len(p) : r[n] = p[n]
      /\ \A n \in 1..Len(q) : r[Len(p) + n] = q[n]
  BY <1>1
<1> HIDE DEF r
<1>3. ASSUME NEW n \in 1..(Len(r) - 1)
      PROVE  Quiet(r[n], r[n + 1])
  <2>1. CASE n + 1 <= Len(p)
    <3>1. n \in 1..(Len(p) - 1) /\ n \in 1..Len(p) /\ n + 1 \in 1..Len(p)
      BY <1>1, <1>2, <1>3, <2>1
    <3> QED BY <1>2, <3>1 DEF Orderly
  <2>2. CASE n = Len(p)
    <3>1. n \in 1..Len(p) /\ 1 \in 1..Len(q) /\ Len(q) >= 1
      BY <1>1, <1>2, <1>3, <2>2
    <3> QED BY <1>2, <2>2, <3>1
  <2>3. CASE n > Len(p)
    <3> DEFINE k == n - Len(p)
    <3>1. k \in 1..(Len(q) - 1) /\ k \in 1..Len(q) /\ k + 1 \in 1..Len(q)
          /\ n = Len(p) + k /\ n + 1 = Len(p) + (k + 1)
      BY <1>1, <1>2, <1>3, <2>3
    <3> HIDE DEF k
    <3>2. r[n] = q[k] /\ r[n + 1] = q[k + 1]
      BY <1>2, <3>1
    <3> QED BY <3>1, <3>2
  <2> QED BY <1>1, <1>2, <1>3, <2>1, <2>2, <2>3
<1>4. r[1] = p[1] /\ Len(r) >= 1
  BY <1>1, <1>2
<1> QED BY <1>2, <1>3, <1>4 DEF Orderly, r

LEMMA OrderlyStoreless ==
  ASSUME NEW D, NEW p, Orderly(D, p), NEW q \in Seq(Storeless(D))
  PROVE  Orderly(D, p \o q)
<1>1. q \in Seq(Lawful(D)) /\ \A n \in 1..Len(q) : q[n].op # "WRITE"
  BY DEF Storeless
<1>2. Len(q) >= 1 => Quiet(p[Len(p)], q[1])
  BY <1>1 DEF Quiet
<1>3. \A n \in 1..(Len(q) - 1) : Quiet(q[n], q[n + 1])
  BY <1>1 DEF Quiet
<1> QED BY <1>1, <1>2, <1>3, OrderlyMore

LEMMA OrderlyCalm ==
  ASSUME NEW D, NEW p, Orderly(D, p), NEW q \in Seq(Calm(D)),
         Len(q) >= 1 => Quiet(p[Len(p)], q[1])
  PROVE  Orderly(D, p \o q)
<1>1. q \in Seq(Lawful(D)) /\ \A n \in 1..Len(q) : Vectorial(q[n]) => UsesGdl(q[n])
  BY DEF Calm
<1>2. \A n \in 1..(Len(q) - 1) : Quiet(q[n], q[n + 1])
  BY <1>1 DEF Quiet
<1> QED BY <1>1, <1>2, OrderlyMore

\* What a program starts with.
LEMMA OrderlySets ==
  ASSUME NEW D, NEW p \in Seq(Calm(D) \cap Storeless(D)), Len(p) >= 1
  PROVE  Orderly(D, p)
<1>1. p \in Seq(Lawful(D)) /\ \A n \in 1..Len(p) : p[n].op # "WRITE"
  BY DEF Storeless
<1> QED BY <1>1 DEF Orderly, Quiet

\* The vector-vector loop: its operations use the GDL.
LEMMA VecVecOrderly ==
  ASSUME NEW D, Int32 \in D, NEW core, IsCore(core), NEW cmd, IsCommand(cmd, D),
         NEW op \in VecOps
  PROVE  Orderly(D, VecVecKernel(core, cmd, op))
<1> DEFINE len == Extent(cmd.r1)
           w == SelWindow(core, len)
           n == Least(w, len)
           sets == <<SET(core.reg[1], 0), SET(core.reg[2], len)>>
           computes == [k \in 1..(2 * n) |->
             LET c == (k + 1) \div 2 IN
             IF k % 2 = 1
               THEN READ(cmd.r2[1] + c - 1, core.reg[1], NoReg, cmd.dtype)
               ELSE Untimed(ARITH(op, core.vec[c], Gdl, NoReg, cmd.dtype))]
<1>1. len \in Nat \ {0} /\ len \in Int
  BY DEF IsCommand, Extent
<1>2. w \in Nat \ {0} /\ n \in Nat \ {0} /\ n <= Len(core.vec)
  <2>1. w \in 1..len /\ w <= Len(core.vec)
    BY <1>1, WindowFacts
  <2> QED BY <1>1, <2>1 DEF Least
<1>3. /\ core.reg[1] \in Reg /\ NoReg \in Reg /\ Gdl \in Reg /\ Gdl # NoReg
      /\ \A c \in 1..n : core.vec[c] \in Reg /\ core.vec[c] # Gdl /\ core.vec[c] # NoReg
      /\ cmd.dtype \in D /\ cmd.r2[1] \in Nat /\ "READ" \in OpType /\ op \in OpType
  <2>1. core.reg[1] \in SReg /\ cmd.dtype \in D /\ cmd.r2[1] \in Nat
    BY DEF IsCore, IsCommand
  <2>2. \A c \in 1..n : core.vec[c] \in VReg
    BY <1>2 DEF IsCore
  <2>3. /\ \A c \in VReg : c \in Reg /\ c # Gdl /\ c # NoReg
        /\ \A c \in SReg : c \in Reg
        /\ NoReg \in Reg /\ Gdl \in Reg /\ Gdl # NoReg
    BY RegisterAssumption DEF Reg, Vector
  <2>4. "READ" \in OpType /\ op \in OpType
    BY DEF OpType, MemOps
  <2> QED BY <2>1, <2>2, <2>3, <2>4
<1> HIDE DEF len, w, n
<1>4. ASSUME NEW k \in 1..(2 * n)
      PROVE  computes[k] \in Calm(D) \cap Storeless(D)
  <2> DEFINE c == (k + 1) \div 2
             a == cmd.r2[1] + c - 1
             i == READ(a, core.reg[1], NoReg, cmd.dtype)
             j == ARITH(op, core.vec[c], Gdl, NoReg, cmd.dtype)
  <2>1. c \in 1..n /\ c \in Int
    BY <1>2
  <2>2. a \in Int
    BY <1>3, <2>1
  <2> HIDE DEF c, a
  <2>3. i \in Typed(D) /\ i.op = "READ"
    BY <1>3, <2>2, Named, Fields DEF READ
  <2>4. j \in Typed(D) /\ j.op = op /\ j.in1 = core.vec[c] /\ j.in2 = Gdl /\ j.dst = NoReg
    BY <1>3, <2>1, Named, Fields DEF ARITH
  <2> HIDE DEF i, j
  <2>5. /\ Untimed(j) \in Typed(D) /\ Untimed(j).op = op /\ Untimed(j).in1 = core.vec[c]
        /\ Untimed(j).in2 = Gdl /\ Untimed(j).dst = NoReg
    BY <2>4, NamedUntimed
  <2>6. i \in Calm(D) \cap Storeless(D)
    BY <2>3 DEF Calm, Storeless, Lawful, Declares, KeepsApart, Vectorial, Immediate, Folding,
       ImmOps, RedOps, ScalarOps, VecOps
  <2>7. Untimed(j) \in Calm(D) \cap Storeless(D)
    <3>1. ~Immediate(Untimed(j)) /\ ~Folding(Untimed(j)) /\ op # "MOV" /\ op # "WRITE"
      BY <2>5 DEF Immediate, Folding, ImmOps, RedOps, VecOps
    <3>2. Untimed(j).in1 # Gdl /\ Dest(Untimed(j)) = Untimed(j).in1
      BY <1>3, <2>1, <2>5 DEF Dest
    <3>3. UsesGdl(Untimed(j))
      BY <2>5 DEF UsesGdl, Operands
    <3> QED BY <2>5, <3>1, <3>2, <3>3 DEF Calm, Storeless, Lawful, Declares, KeepsApart
  <2>8. computes[k] = IF k % 2 = 1 THEN i ELSE Untimed(j)
    BY DEF i, j, a, c
  <2> QED BY <2>6, <2>7, <2>8
<1>5. computes \in Seq(Calm(D) \cap Storeless(D)) /\ Len(computes) = 2 * n
  BY <1>2, <1>4
<1>6. sets \in Seq(Calm(D) \cap Storeless(D)) /\ Len(sets) >= 1
  <2>1. /\ SET(core.reg[1], 0) \in Calm(D) \cap Storeless(D)
        /\ SET(core.reg[2], len) \in Calm(D) \cap Storeless(D)
    BY <1>1, Setting DEF IsCore
  <2> QED BY <2>1
<1> HIDE DEF computes, sets
<1>7. Orderly(D, sets \o Reads(core, cmd, n))
  <2>1. Reads(core, cmd, n) \in Seq(Storeless(D))
    <3>1. Reads(core, cmd, n) \in Seq(Calm(D) \cap Storeless(D))
      BY <1>2, Transfers
    <3> QED BY <3>1
  <2>2. Orderly(D, sets)
    BY <1>6, OrderlySets
  <2> QED BY <2>1, <2>2, OrderlyStoreless
<1> DEFINE r == sets \o Reads(core, cmd, n)
           q == r \o computes
<1> HIDE DEF r
<1>8. Orderly(D, q)
  BY <1>5, <1>7, OrderlyStoreless DEF r
<1>9. q[Len(q)] \in Calm(D)
  <2>1. r \in Seq(Lawful(D)) /\ computes \in Seq(Lawful(D)) /\ Len(r) \in Nat
    BY <1>5, <1>7 DEF r, Orderly, Calm
  <2>2. Len(q) = Len(r) + 2 * n /\ q[Len(q)] = computes[2 * n]
    BY <1>2, <1>5, <2>1
  <2>3. 2 * n \in 1..(2 * n)
    BY <1>2
  <2> QED BY <1>5, <2>2, <2>3
<1> HIDE DEF q
<1>10. Orderly(D, q \o Writes(core, cmd, n))
  <2>1. Writes(core, cmd, n) \in Seq(Calm(D))
    BY <1>2, Transfers
  <2>2. Quiet(q[Len(q)], Writes(core, cmd, n)[1])
    BY <1>9 DEF Calm, Quiet
  <2> QED BY <1>8, <2>1, <2>2, OrderlyCalm
<1>11. Orderly(D, (q \o Writes(core, cmd, n)) \o Iterate(core, cmd, w, 2))
  <2>1. w \in Int /\ 2 \in Int
    BY <1>2
  <2>2. Iterate(core, cmd, w, 2) \in Seq(Storeless(D))
    BY <2>1, Iterates
  <2> QED BY <1>10, <2>2, OrderlyStoreless
<1>12. VecVecKernel(core, cmd, op) = (q \o Writes(core, cmd, n)) \o Iterate(core, cmd, w, 2)
  BY Zenon DEF VecVecKernel, q, r, sets, computes, n, w, len
<1> QED BY <1>11, <1>12

\* The vector-scalar loop: the last operation of a window is on another register
\* than its first WRITE, unless the window is one chunk.
LEMMA VecScalarOrderly ==
  ASSUME NEW D, Int32 \in D, NEW core, IsCore(core), NEW cmd, IsCommand(cmd, D),
         NEW op \in ScalarOps, SelWindow(core, Extent(cmd.r1)) # 1
  PROVE  Orderly(D, VecScalarKernel(core, cmd, op))
<1> DEFINE len == Extent(cmd.r1)
           w == SelWindow(core, len)
           n == Least(w, len)
           sets == <<SET(core.reg[3], cmd.scalar), SET(core.reg[1], 0), SET(core.reg[2], len)>>
           computes == [c \in 1..n |-> ARITH(op, core.vec[c], core.reg[3], NoReg, cmd.dtype)]
<1>1. len \in Nat \ {0} /\ len \in Int
  BY DEF IsCommand, Extent
<1>2. w \in Nat \ {0} /\ n \in Nat \ {0} /\ n <= Len(core.vec) /\ n # 1
  <2>1. w \in 1..len /\ w <= Len(core.vec)
    BY <1>1, WindowFacts
  <2> QED BY <1>1, <2>1 DEF Least
<1>3. /\ core.reg[3] \in Reg /\ NoReg \in Reg
      /\ \A c \in 1..n : core.vec[c] \in Reg /\ core.vec[c] \in VReg
                       /\ core.vec[c] # Gdl /\ core.vec[c] # NoReg
      /\ cmd.dtype \in D /\ op \in OpType /\ 0 \in Int
  <2>1. core.reg[3] \in SReg /\ cmd.dtype \in D
    BY DEF IsCore, IsCommand
  <2>2. \A c \in 1..n : core.vec[c] \in VReg
    BY <1>2 DEF IsCore
  <2>3. /\ \A c \in VReg : c \in Reg /\ c # Gdl /\ c # NoReg
        /\ \A c \in SReg : c \in Reg
        /\ NoReg \in Reg
    BY RegisterAssumption DEF Reg, Vector
  <2>4. op \in OpType
    BY DEF OpType
  <2> QED BY <2>1, <2>2, <2>3, <2>4
<1>4. core.vec[n] # core.vec[1]
  BY <1>2 DEF IsCore
<1> HIDE DEF len, w, n
<1>5. ASSUME NEW c \in 1..n
      PROVE  computes[c] \in Storeless(D) /\ computes[c].in1 = core.vec[c]
  <2> DEFINE j == ARITH(op, core.vec[c], core.reg[3], NoReg, cmd.dtype)
  <2>1. j \in Typed(D) /\ j.op = op /\ j.in1 = core.vec[c] /\ j.dst = NoReg
    BY <1>3, Named, Fields DEF ARITH
  <2> HIDE DEF j
  <2>2. ~Immediate(j) /\ ~Folding(j) /\ op # "MOV" /\ op # "WRITE"
    BY <2>1 DEF Immediate, Folding, ImmOps, RedOps, ScalarOps
  <2>3. j.in1 # Gdl /\ Dest(j) = j.in1
    BY <1>3, <2>1 DEF Dest
  <2>4. j \in Storeless(D)
    BY <2>1, <2>2, <2>3 DEF Storeless, Lawful, Declares, KeepsApart
  <2>5. computes[c] = j
    BY DEF j
  <2> QED BY <2>1, <2>4, <2>5
<1>6. computes \in Seq(Storeless(D)) /\ Len(computes) = n
  BY <1>2, <1>5
<1>7. sets \in Seq(Calm(D) \cap Storeless(D)) /\ Len(sets) >= 1
  <2>1. cmd.scalar \in Int /\ core.reg[1] \in SReg /\ core.reg[2] \in SReg /\ core.reg[3] \in SReg
    BY DEF IsCore, IsCommand
  <2>2. /\ SET(core.reg[3], cmd.scalar) \in Calm(D) \cap Storeless(D)
        /\ SET(core.reg[1], 0) \in Calm(D) \cap Storeless(D)
        /\ SET(core.reg[2], len) \in Calm(D) \cap Storeless(D)
    BY <1>1, <2>1, Setting
  <2> QED BY <2>2
<1> HIDE DEF computes, sets
<1>8. Orderly(D, sets \o Reads(core, cmd, n))
  <2>1. Reads(core, cmd, n) \in Seq(Storeless(D))
    <3>1. Reads(core, cmd, n) \in Seq(Calm(D) \cap Storeless(D))
      BY <1>2, Transfers
    <3> QED BY <3>1
  <2>2. Orderly(D, sets)
    BY <1>7, OrderlySets
  <2> QED BY <2>1, <2>2, OrderlyStoreless
<1> DEFINE r == sets \o Reads(core, cmd, n)
           q == r \o computes
<1> HIDE DEF r
<1>9. Orderly(D, q)
  BY <1>6, <1>8, OrderlyStoreless DEF r
<1>10. q[Len(q)].in1 = core.vec[n]
  <2>1. r \in Seq(Lawful(D)) /\ computes \in Seq(Lawful(D)) /\ Len(r) \in Nat
    BY <1>6, <1>8 DEF r, Orderly, Storeless
  <2>2. Len(q) = Len(r) + n /\ q[Len(q)] = computes[n]
    BY <1>2, <1>6, <2>1
  <2>3. n \in 1..n
    BY <1>2
  <2> QED BY <1>5, <2>2, <2>3
<1> HIDE DEF q
<1>11. Orderly(D, q \o Writes(core, cmd, n))
  <2>1. Writes(core, cmd, n) \in Seq(Calm(D))
    BY <1>2, Transfers
  <2>2. Writes(core, cmd, n)[1].in1 = core.vec[1]
    BY <1>2, FirstWrite
  <2>3. core.vec[1] \in VReg /\ core.vec[1] # core.vec[n]
    BY <1>2, <1>3, <1>4
  <2>4. Quiet(q[Len(q)], Writes(core, cmd, n)[1])
    BY <1>10, <2>2, <2>3 DEF Quiet
  <2> QED BY <1>9, <2>1, <2>4, OrderlyCalm
<1>12. Orderly(D, (q \o Writes(core, cmd, n)) \o Iterate(core, cmd, w, 3))
  <2>1. w \in Int /\ 3 \in Int
    BY <1>2
  <2>2. Iterate(core, cmd, w, 3) \in Seq(Storeless(D))
    BY <2>1, Iterates
  <2> QED BY <1>11, <2>2, OrderlyStoreless
<1>13. VecScalarKernel(core, cmd, op) = (q \o Writes(core, cmd, n)) \o Iterate(core, cmd, w, 3)
  BY Zenon DEF VecScalarKernel, q, r, sets, computes, n, w, len
<1> QED BY <1>12, <1>13

\* One step of a reduction writes nothing back.
LEMMA FoldingNext ==
  ASSUME NEW D, Int32 \in D, NEW core, IsCore(core), NEW cmd, IsCommand(cmd, D),
         NEW op \in VecOps \cup Ignored, NEW r \in VReg
  PROVE  FoldNext(core, cmd, op, r) \in Seq(Storeless(D))
<1> DEFINE j == ARITH(op, core.vec[1], r, core.vec[1], cmd.dtype)
           i == READ(cmd.r1[1], core.reg[2], r, cmd.dtype)
<1>1. /\ core.reg[2] \in Reg /\ core.vec[1] \in Reg /\ r \in Reg /\ cmd.dtype \in D
      /\ core.vec[1] # Gdl /\ core.vec[1] # NoReg /\ op \in OpType
      /\ cmd.r1[1] \in Int /\ 0 \in Int
  BY RegisterAssumption DEF IsCore, IsCommand, Reg, Vector, OpType
<1>2. j \in Typed(D) /\ j.op = op /\ j.in1 = core.vec[1] /\ j.dst = core.vec[1]
  <2>1. j \in Typed(D)
    BY <1>1, Named DEF ARITH
  <2>2. j.op = op /\ j.in1 = core.vec[1] /\ j.dst = core.vec[1]
    BY Fields DEF ARITH
  <2> QED BY <2>1, <2>2
<1>3. i \in Storeless(D)
  BY <1>1, Reading
<1> HIDE DEF i, j
<1>4. ~Immediate(j) /\ ~Folding(j) /\ op # "MOV" /\ op # "WRITE"
  BY <1>2 DEF Immediate, Folding, ImmOps, RedOps, VecOps, Ignored
<1>5. j \in Storeless(D)
  BY <1>1, <1>2, <1>4 DEF Storeless, Lawful, Declares, KeepsApart, Dest
<1> QED BY <1>3, <1>5 DEF FoldNext, i, j

\* The reduction: it has no WRITE.
LEMMA RedOrderly ==
  ASSUME NEW D, Int32 \in D, NEW core, IsCore(core), Len(core.vec) >= 3,
         NEW cmd, IsCommand(cmd, D),
         NEW op \in VecOps \cup Ignored, NEW final \in RedOps
  PROVE  Orderly(D, RedKernel(core, cmd, op, final))
<1> DEFINE len == Extent(cmd.r1)
           j == ARITH(final, core.reg[1], core.vec[1], core.reg[1], Int32)
           i == READ(cmd.r1[1], NoReg, core.vec[1], Int32)
           s == SET(core.reg[2], 1)
           t == SET(core.reg[3], ((len - 1) \div 2) * 2)
           l == JL(core.reg[2], core.reg[3], 3, Int32)
           f == FoldNext(core, cmd, op, core.vec[2])
           g == FoldNext(core, cmd, op, core.vec[3])
           h == IF len % 2 = 0 THEN FoldNext(core, cmd, op, core.vec[3]) ELSE <<>>
           u == <<INC(core.reg[2], 1, cmd.dtype)>>
           v == <<INC(core.reg[2], 1, Int32)>>
<1>1. /\ core.reg[1] \in SReg /\ core.reg[2] \in SReg /\ core.reg[3] \in SReg
      /\ core.reg[1] \in Reg /\ core.vec[1] \in Reg /\ core.vec[2] \in VReg
      /\ core.vec[3] \in VReg /\ cmd.dtype \in D /\ NoReg \in Reg
      /\ core.reg[1] # NoReg /\ cmd.r1[1] \in Int /\ final \in OpType
      /\ 0 \in Int /\ 1 \in Int /\ 3 \in Int /\ Int32 \in D
  <2>1. /\ core.reg[1] \in SReg /\ core.reg[2] \in SReg /\ core.reg[3] \in SReg
        /\ core.vec[1] \in VReg /\ core.vec[2] \in VReg /\ core.vec[3] \in VReg
    BY DEF IsCore
  <2>2. cmd.dtype \in D /\ cmd.r1[1] \in Int
    BY DEF IsCommand
  <2>3. /\ \A c \in VReg : c \in Reg
        /\ \A c \in SReg : c \in Reg /\ c # NoReg
        /\ NoReg \in Reg
    BY RegisterAssumption DEF Reg, Vector
  <2>4. final \in OpType
    BY DEF OpType
  <2> QED BY <2>1, <2>2, <2>3, <2>4
<1>2. len \in Int /\ ((len - 1) \div 2) * 2 \in Int
  <2>1. len \in Nat
    BY DEF IsCommand, Extent
  <2> HIDE DEF len
  <2> QED BY <2>1
<1>3. j \in Storeless(D)
  <2>1. j \in Typed(D) /\ j.op = final /\ j.dst = core.reg[1]
    BY <1>1, Named, Fields DEF ARITH
  <2> HIDE DEF j
  <2>2. ~Immediate(j) /\ ~Vectorial(j) /\ final # "MOV" /\ final # "WRITE"
    BY <2>1 DEF Immediate, Vectorial, ImmOps, RedOps, VecOps, ScalarOps
  <2> QED BY <1>1, <2>1, <2>2 DEF Storeless, Lawful, Declares, KeepsApart
<1>4. i \in Calm(D) \cap Storeless(D)
  BY <1>1, Reading
<1>5. s \in Calm(D) \cap Storeless(D)
  BY <1>1, Setting
<1>6. t \in Calm(D) \cap Storeless(D)
  BY <1>1, <1>2, Setting
<1>7. l \in Storeless(D)
  BY <1>1, Counting
<1>8. f \in Seq(Storeless(D)) /\ g \in Seq(Storeless(D))
  BY <1>1, FoldingNext
<1>9. h \in Seq(Storeless(D))
  BY <1>8
<1>10. u \in Seq(Storeless(D)) /\ v \in Seq(Storeless(D))
  <2>1. /\ INC(core.reg[2], 1, cmd.dtype) \in Storeless(D)
        /\ INC(core.reg[2], 1, Int32) \in Storeless(D)
    BY <1>1, Counting
  <2> QED BY <2>1
<1>11. RedKernel(core, cmd, op, final)
         = <<i, s, t>> \o f \o u \o g \o v \o <<l>> \o h \o <<j>>
  BY Zenon DEF RedKernel, h
<1> HIDE DEF i, s, t, f, g, h, u, v, l, j
<1>12. Orderly(D, <<i, s, t>>)
  <2> DEFINE b == <<i, s, t>>
  <2>1. b \in Seq(Calm(D) \cap Storeless(D)) /\ Len(b) >= 1
    BY <1>4, <1>5, <1>6
  <2> HIDE DEF b
  <2>2. Orderly(D, b)
    BY <2>1, OrderlySets
  <2> QED BY <2>2 DEF b
<1>13. Orderly(D, <<i, s, t>> \o f \o u)
  BY <1>8, <1>10, <1>12, OrderlyStoreless
<1>14. Orderly(D, <<i, s, t>> \o f \o u \o g \o v)
  BY <1>8, <1>10, <1>13, OrderlyStoreless
<1>15. Orderly(D, <<i, s, t>> \o f \o u \o g \o v \o <<l>>)
  <2>1. <<l>> \in Seq(Storeless(D))
    BY <1>7
  <2> QED BY <1>14, <2>1, OrderlyStoreless
<1>16. Orderly(D, <<i, s, t>> \o f \o u \o g \o v \o <<l>> \o h \o <<j>>)
  <2>1. <<j>> \in Seq(Storeless(D))
    BY <1>3
  <2> QED BY <1>9, <1>15, <2>1, OrderlyStoreless
<1> QED BY <1>11, <1>16

\* The loops that keep their WRITEs behind their operations, as the pipeline
\* sees them.
LoopKernels(D) ==
  LET cores == {c \in [reg : Seq(SReg), vec : Seq(VReg), nCol : Nat] : IsCore(c)}
      ranges == {r \in Nat \X Nat : r[1] < r[2]}
      commands == [r1 : ranges, r2 : ranges, dst : ranges, scalar : Int, dtype : D]
  IN  {Plain(VecVecKernel(core, cmd, op)) : core \in cores, cmd \in commands, op \in VecOps}
      \cup {Plain(VecScalarKernel(a[1], a[2], op)) :
              a \in {a \in cores \X commands : SelWindow(a[1], Extent(a[2].r1)) # 1},
              op \in ScalarOps}
      \cup {Plain(RedKernel(core, cmd, op, final)) :
              core \in {c \in cores : Len(c.vec) >= 3}, cmd \in commands,
              op \in VecOps \cup Ignored, final \in RedOps}

LEMMA LoopKernelsOrderly ==
  ASSUME NEW D, Int32 \in D, NEW p \in LoopKernels(D)
  PROVE  \E q : Orderly(D, q) /\ p = Plain(q)
<1> DEFINE cores == {c \in [reg : Seq(SReg), vec : Seq(VReg), nCol : Nat] : IsCore(c)}
           ranges == {r \in Nat \X Nat : r[1] < r[2]}
           commands == [r1 : ranges, r2 : ranges, dst : ranges, scalar : Int, dtype : D]
<1>1. \A cmd \in commands : IsCommand(cmd, D)
  BY DEF IsCommand
<1>2. \A core \in cores : IsCore(core)
  OBVIOUS
<1>3. p \in {Plain(VecVecKernel(core, cmd, op)) : core \in cores, cmd \in commands, op \in VecOps}
      \/ p \in {Plain(VecScalarKernel(a[1], a[2], op)) :
              a \in {a \in cores \X commands : SelWindow(a[1], Extent(a[2].r1)) # 1},
              op \in ScalarOps}
      \/ p \in {Plain(RedKernel(core, cmd, op, final)) :
              core \in {c \in cores : Len(c.vec) >= 3}, cmd \in commands,
              op \in VecOps \cup Ignored, final \in RedOps}
  BY DEF LoopKernels
<1> HIDE DEF cores, commands
<1>4. CASE p \in {Plain(VecVecKernel(core, cmd, op)) :
                 core \in cores, cmd \in commands, op \in VecOps}
  <2>1. PICK core \in cores, cmd \in commands, op \in VecOps :
          p = Plain(VecVecKernel(core, cmd, op))
    BY <1>4
  <2>2. Orderly(D, VecVecKernel(core, cmd, op))
    BY <1>1, <1>2, VecVecOrderly
  <2> QED BY <2>1, <2>2
<1>5. CASE p \in {Plain(VecScalarKernel(a[1], a[2], op)) :
              a \in {a \in cores \X commands : SelWindow(a[1], Extent(a[2].r1)) # 1},
              op \in ScalarOps}
  <2>1. PICK a \in {a \in cores \X commands : SelWindow(a[1], Extent(a[2].r1)) # 1},
             op \in ScalarOps : p = Plain(VecScalarKernel(a[1], a[2], op))
    BY <1>5
  <2>2. a[1] \in cores /\ a[2] \in commands /\ SelWindow(a[1], Extent(a[2].r1)) # 1
    OBVIOUS
  <2>3. IsCore(a[1]) /\ IsCommand(a[2], D)
    BY <1>1, <1>2, <2>2
  <2>4. Orderly(D, VecScalarKernel(a[1], a[2], op))
    BY <2>2, <2>3, VecScalarOrderly
  <2> QED BY <2>1, <2>4
<1>6. CASE p \in {Plain(RedKernel(core, cmd, op, final)) :
              core \in {c \in cores : Len(c.vec) >= 3}, cmd \in commands,
              op \in VecOps \cup Ignored, final \in RedOps}
  <2>1. PICK core \in {c \in cores : Len(c.vec) >= 3}, cmd \in commands,
             op \in VecOps \cup Ignored, final \in RedOps :
          p = Plain(RedKernel(core, cmd, op, final))
    BY <1>6
  <2>2. IsCore(core) /\ Len(core.vec) >= 3 /\ IsCommand(cmd, D)
    BY <1>1, <1>2
  <2>3. Orderly(D, RedKernel(core, cmd, op, final))
    BY <2>2, RedOrderly
  <2> QED BY <2>1, <2>3
<1> QED BY <1>3, <1>4, <1>5, <1>6

\* Leaving out the dtype leaves the rest.
LEMMA PlainFacts ==
  ASSUME NEW D, NEW q, Orderly(D, q)
  PROVE  /\ DOMAIN Plain(q) = 1..Len(q)
         /\ \A n \in 1..Len(q) :
              Declares(Plain(q)[n]) /\ KeepsApart(Plain(q)[n])
              /\ Plain(q)[n].op = q[n].op
         /\ \A n \in 1..(Len(q) - 1) : Quiet(Plain(q)[n], Plain(q)[n + 1])
<1> DEFINE p == Plain(q)
<1>1. q \in Seq(Lawful(D)) /\ DOMAIN q = 1..Len(q) /\ Len(q) \in Nat
  BY DEF Orderly
<1>2. DOMAIN p = 1..Len(q)
  BY <1>1 DEF Plain
<1>3. \A n \in 1..Len(q) : /\ p[n].op = q[n].op /\ p[n].in1 = q[n].in1
                          /\ p[n].in2 = q[n].in2 /\ p[n].dst = q[n].dst
  BY <1>1 DEF Plain
<1> HIDE DEF p
<1>4. ASSUME NEW n \in 1..Len(q) PROVE Declares(p[n]) /\ KeepsApart(p[n])
  <2>1. Declares(q[n]) /\ KeepsApart(q[n])
    BY <1>1 DEF Lawful
  <2> QED BY <1>3, <2>1 DEF Declares, KeepsApart, Immediate, Folding, Vectorial, Dest
<1>5. ASSUME NEW n \in 1..(Len(q) - 1) PROVE Quiet(p[n], p[n + 1])
  <2>1. n \in 1..Len(q) /\ n + 1 \in 1..Len(q)
    BY <1>1
  <2>2. Quiet(q[n], q[n + 1])
    BY DEF Orderly
  <2> QED BY <1>3, <2>1, <2>2 DEF Quiet, Vectorial, UsesGdl, Operands, IsMem
<1> QED BY <1>2, <1>3, <1>4, <1>5 DEF p

\* Loops of the generators, for any core, ranges and scalar, in any number and
\* order, run on the pipeline as if each instruction were executed alone.  (The
\* vector-scalar loop with a window of one chunk does not.)
THEOREM LoopKernelsPipelined ==
  ASSUME NEW D, Int32 \in D, Programs \subseteq LoopKernels(D)
  PROVE  Spec => []WritesSettled /\ ImplementsSequentialCore
<1>1. \A p \in Programs : \E q : Orderly(D, q) /\ p = Plain(q)
  BY LoopKernelsOrderly
<1>2. \A p \in Programs : \A n \in DOMAIN p : Declares(p[n]) /\ KeepsApart(p[n])
  <2> SUFFICES ASSUME NEW p \in Programs, NEW n \in DOMAIN p
               PROVE  Declares(p[n]) /\ KeepsApart(p[n])
    OBVIOUS
  <2>1. PICK q : Orderly(D, q) /\ p = Plain(q)
    BY <1>1
  <2> QED BY <2>1, PlainFacts
<1>3. Apart
  BY <1>2 DEF Apart
<1>4. Spaced
  <2> SUFFICES ASSUME NEW p \in Programs
               PROVE  /\ \A n \in DOMAIN p : n + 1 \in DOMAIN p => Settles(p[n], p[n + 1])
                      /\ 1 \in DOMAIN p => p[1].op # "WRITE"
    BY DEF Spaced
  <2>1. PICK q : Orderly(D, q) /\ p = Plain(q)
    BY <1>1
  <2>2. /\ DOMAIN p = 1..Len(q) /\ Len(q) \in Nat
        /\ \A n \in 1..Len(q) : p[n].op = q[n].op
        /\ \A n \in 1..(Len(q) - 1) : Quiet(p[n], p[n + 1])
        /\ q[1].op # "WRITE"
    BY <2>1, PlainFacts DEF Orderly
  <2>3. ASSUME NEW n \in DOMAIN p, n + 1 \in DOMAIN p
        PROVE  Settles(p[n], p[n + 1])
    <3>1. n \in 1..(Len(q) - 1)
      BY <2>2, <2>3
    <3>2. Quiet(p[n], p[n + 1])
      BY <2>2, <3>1
    <3> QED BY <1>3, <3>2 DEF Quiet, Settles
  <2> QED BY <2>2, <2>3
<1>5. \A p \in Programs : \A n \in DOMAIN p : Declares(p[n])
  BY <1>2
<1> QED BY <1>4, <1>5, WritesAlwaysSettled, SpacedRefinement, PTL
=============================================================================
