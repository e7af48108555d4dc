--------------------------- MODULE KernelCoreProofs ---------------------------
(* The three kinds of cores and their kernels, for any registers, windows, *)
(* objects and commands.                                                   *)
(*   - Every instruction of the generators is one the cores carry out, and  *)
(*     the programs have one of three shapes: a loop over windows (IsLoop),  *)
(*     the unrolled loop of a reduction (IsFold), a straight line (Direct).  *)
(*   - TypeInv is inductive: registers, buffers and bank keep their types    *)
(*     whatever is loaded and whenever.                                      *)
(*   - StayInv is inductive: the cache is a row of such programs, and where   *)
(*     pc is in one of them its loop counters are what the shape says (Turn,  *)
(*     Round).  From there every access is inside the command's objects.     *)
EXTENDS KernelCore, SequenceTheorems, TLAPS

Tables == INSTANCE IntervalTableProofs

-----------------------------------------------------------------------------
(* Registers.                                                              *)

\* Every vector register is in one class of those that share a buffer.
Parted(A) == UNION A = Vector /\ \A c, d \in A : c = d \/ c \cap d = {}

\* What is left of the classes without the registers L.
Without(A, L) == {c \ L : c \in A} \ {{}}

LEMMA WithoutFacts ==
  ASSUME NEW A, Parted(A), NEW L, L \subseteq Vector
  PROVE  /\ UNION Without(A, L) = Vector \ L
         /\ \A b, c \in Without(A, L) : b = c \/ b \cap c = {}
<1>1. \A x : x \in Vector <=> \E c \in A : x \in c
  BY DEF Parted
<1>2. \A t \in Without(A, L) : \E c \in A : t = c \ L
  BY DEF Without
<1>3. ASSUME NEW c \in A, NEW x \in c, x \notin L PROVE c \ L \in Without(A, L)
  BY <1>3 DEF Without
<1>4. ASSUME NEW x \in Vector \ L PROVE x \in UNION Without(A, L)
  <2>1. PICK c \in A : x \in c
    BY <1>1
  <2>2. c \ L \in Without(A, L) /\ x \in c \ L
    BY <1>3, <2>1
  <2> QED BY <2>2
<1>5. ASSUME NEW x \in UNION Without(A, L) PROVE x \in Vector \ L
  <2>1. PICK t \in Without(A, L) : x \in t
    OBVIOUS
  <2>2. PICK c \in A : t = c \ L
    BY <1>2
  <2> QED BY <1>1, <2>1, <2>2
<1>6. ASSUME NEW b \in Without(A, L), NEW c \in Without(A, L) PROVE b = c \/ b \cap c = {}
  <2>1. PICK d \in A : b = d \ L
    BY <1>2
  <2>2. PICK e \in A : c = e \ L
    BY <1>2
  <2>3. d = e \/ d \cap e = {}
    BY DEF Parted
  <2> QED BY <2>1, <2>2, <2>3
<1> QED BY <1>4, <1>5, <1>6

\* Registers that take a buffer of their own.
LEMMA Separated ==
  ASSUME NEW A, Parted(A), NEW L, L \subseteq Vector
  PROVE  Parted(Without(A, L) \cup {L})
<1> DEFINE T == Without(A, L)
<1>1. UNION T = Vector \ L /\ \A b, c \in T : b = c \/ b \cap c = {}
  BY WithoutFacts
<1> HIDE DEF T
<1>2. UNION (T \cup {L}) = Vector
  <2>1. UNION (T \cup {L}) = (UNION T) \cup L
    OBVIOUS
  <2> QED BY <1>1, <2>1
<1>3. \A t \in T : t \cap L = {}
  <2>1. \A t \in T : t \subseteq UNION T
    OBVIOUS
  <2> QED BY <1>1, <2>1
<1> QED BY <1>1, <1>2, <1>3 DEF Parted, T

\* A register that joins another.
LEMMA Joined ==
  ASSUME NEW A, Parted(A), NEW d \in Vector, NEW s \in Vector, s # d
  PROVE  Parted({IF s \in c THEN c \cup {d} ELSE c : c \in Without(A, {d})})
<1> DEFINE T == Without(A, {d})
           J(c) == IF s \in c THEN c \cup {d} ELSE c
           U == {J(c) : c \in T}
<1>1. UNION T = Vector \ {d} /\ \A b, c \in T : b = c \/ b \cap c = {}
  <2>1. {d} \subseteq Vector
    OBVIOUS
  <2> QED BY <2>1, WithoutFacts
<1> HIDE DEF T
<1>2. \A c \in T : d \notin c
  <2>1. \A t \in T : t \subseteq UNION T
    OBVIOUS
  <2> QED BY <1>1, <2>1
<1>3. PICK k \in T : s \in k
  BY <1>1
<1>4. J(k) \in U /\ d \in J(k)
  BY <1>3
<1>5. \A u \in U : \E c \in T : u = J(c)
  OBVIOUS
<1>6. \A c \in T : J(c) \in U /\ c \subseteq J(c) /\ J(c) \subseteq c \cup {d}
  OBVIOUS
<1>7. ASSUME NEW b \in T, NEW c \in T PROVE J(b) = J(c) \/ J(b) \cap J(c) = {}
  <2>1. b = c \/ b \cap c = {}
    BY <1>1
  <2>2. d \notin b /\ d \notin c
    BY <1>2
  <2> QED BY <2>1, <2>2
<1> HIDE DEF J, U
<1>8. UNION U = Vector
  <2>1. ASSUME NEW x \in Vector PROVE x \in UNION U
    <3>1. CASE x = d
      BY <1>4, <3>1
    <3>2. CASE x # d
      <4>1. PICK c \in T : x \in c
        BY <1>1, <3>2
      <4> QED BY <1>6, <4>1
    <3> QED BY <3>1, <3>2
  <2>2. ASSUME NEW x \in UNION U PROVE x \in Vector
    <3>1. PICK u \in U : x \in u
      OBVIOUS
    <3>2. PICK c \in T : u = J(c)
      BY <1>5
    <3>3. c \subseteq Vector
      <4>1. c \subseteq UNION T
        OBVIOUS
      <4> QED BY <1>1, <4>1
    <3> QED BY <1>6, <3>1, <3>2, <3>3
  <2> QED BY <2>1, <2>2
<1>9. ASSUME NEW u \in U, NEW v \in U PROVE u = v \/ u \cap v = {}
  <2>1. PICK b \in T : u = J(b)
    BY <1>5
  <2>2. PICK c \in T : v = J(c)
    BY <1>5
  <2> QED BY <1>7, <2>1, <2>2
<1>10. Parted(U)
  BY <1>8, <1>9 DEF Parted
<1> QED BY <1>10 DEF U, J, T

\* The registers are of their types.
RegsOK ==
  /\ sreg \in [SReg -> Nat \cup {Mixed}]
  /\ val \in [Vector -> Lane \cup {Empty}]
  /\ Parted(alias)

LEMMA ScalarRegs ==
  ASSUME RegsOK, NEW d \in SReg, NEW v \in Nat \cup {Mixed}, Core!Scalar(d, v)
  PROVE  RegsOK'
<1>1. sreg' = [sreg EXCEPT ![d] = v] /\ val' = val /\ alias' = alias
  BY DEF Core!Scalar
<1>2. sreg' \in [SReg -> Nat \cup {Mixed}]
  BY <1>1 DEF RegsOK
<1> QED BY <1>1, <1>2 DEF RegsOK, Parted

LEMMA SameVector == Core!Vector = Vector
  BY DEF Core!Vector, Vector, Core!Gdl, Gdl

LEMMA LatchRegs ==
  ASSUME RegsOK, NEW i, i.dst \in VReg \cup {NoReg}, NEW v \in Lane \cup {Empty},
         Core!Latch(i, v)
  PROVE  RegsOK'
<1> DEFINE L == Core!Latched(i)
<1>1. L \subseteq Vector
  BY DEF Core!Latched, Core!Gdl, Gdl, Core!NoReg, NoReg, Vector
<1>2. /\ val' = [r \in Core!Vector |-> IF r \in L THEN v ELSE val[r]]
      /\ alias' = Without(alias, L) \cup {L} /\ sreg' = sreg
  BY DEF Core!Latch, Core!Rebound, Core!Detached, Without
<1> HIDE DEF L
<1>3. val' \in [Vector -> Lane \cup {Empty}]
  BY <1>2, SameVector DEF RegsOK
<1>4. Parted(alias')
  BY <1>1, <1>2, Separated DEF RegsOK
<1>5. sreg' \in [SReg -> Nat \cup {Mixed}]
  BY <1>2 DEF RegsOK
<1> QED BY <1>3, <1>4, <1>5 DEF RegsOK, Parted

LEMMA SharedRegs ==
  ASSUME RegsOK, NEW d \in Vector, NEW s \in Vector, NEW v \in Lane \cup {Empty},
         Core!Shared(d, s, v)
  PROVE  RegsOK'
<1> DEFINE K == Core!ClassOf(s)
<1>1. /\ val' = [r \in Core!Vector |-> IF r \in K \cup {d} THEN v ELSE val[r]]
      /\ alias' = IF d \in K THEN alias
                  ELSE {IF s \in c THEN c \cup {d} ELSE c : c \in Without(alias, {d})}
      /\ sreg' = sreg
  BY DEF Core!Shared, Core!Joined, Core!Detached, Without
<1>2. s \in K
  <2>1. \E c \in alias : s \in c
    BY DEF RegsOK, Parted
  <2> QED BY <2>1 DEF Core!ClassOf
<1> HIDE DEF K
<1>3. val' \in [Vector -> Lane \cup {Empty}]
  BY <1>1, SameVector DEF RegsOK
<1>4. Parted(alias')
  <2>1. d \notin K => s # d
    BY <1>2
  <2>2. Parted(alias)
    BY DEF RegsOK
  <2>3. CASE d \in K
    BY <1>1, <2>2, <2>3
  <2>4. CASE d \notin K
    <3> DEFINE A == {IF s \in c THEN c \cup {d} ELSE c : c \in Without(alias, {d})}
    <3>1. Parted(A)
      BY <2>1, <2>2, <2>4, Joined
    <3>2. alias' = A
      BY <1>1, <2>4
    <3> QED BY <3>1, <3>2
  <2> QED BY <2>3, <2>4
<1>5. sreg' \in [SReg -> Nat \cup {Mixed}]
  BY <1>1 DEF RegsOK
<1> QED BY <1>3, <1>4, <1>5 DEF RegsOK, Parted

-----------------------------------------------------------------------------
(* Instructions.                                                           *)

\* Instructions as kernels have them, and which of them a core carries out.
Dtypes == {Int32} \cup {s.dtype : s \in Setups}
Worded == [op : OpType, in1 : Reg, in2 : Reg, dst : Reg, addr : Int, imm : Nat,
           time : 0..2, dtype : Dtypes]
Legal == {i \in Worded : WellFormed(i)}
Straight == {i \in Legal : ~IsJump(i)}

\* What a step leaves of the bank.
BankOK ==
  /\ mem \in [Mapped -> Lane \cup {Empty}]
  /\ \A a \in Mapped : mem[a] = Empty <=> Padding(a)

\* The registers that WellFormed leaves to each group of operations.
LEMMA MemRegs ==
  ASSUME NEW i \in Legal
  PROVE  /\ i.op = "READ" => i.dst \in VReg \cup {NoReg} /\ i.in1 \in SReg \cup {NoReg}
         /\ i.op = "WRITE" => /\ i.dst \in VReg \cup {NoReg} /\ i.in1 \in Vector \cup {NoReg}
                              /\ i.in2 \in SReg \cup {NoReg}
BY DEF Legal, WellFormed, Immediate, Folding, Vectorial, ImmOps, RedOps, VecOps,
   ScalarOps, Ignored, CondJumps

LEMMA MoveRegs ==
  ASSUME NEW i \in Legal, i.op = "MOV"
  PROVE  \/ i.in1 \in SReg \cup {NoReg} /\ i.dst \in SReg
         \/ i.in1 \in Vector /\ i.dst \in VReg
BY DEF Legal, WellFormed, Immediate, Folding, Vectorial, ImmOps, RedOps, VecOps,
   ScalarOps, Ignored, CondJumps

LEMMA ScalarOpRegs ==
  ASSUME NEW i \in Legal
  PROVE  /\ i.op = "IMM_ADD" => i.in1 \in SReg /\ Dest(i) \in SReg
         /\ i.op \in RedOps => i.in1 \in SReg /\ i.in2 \in Vector /\ Dest(i) \in SReg
BY DEF Legal, WellFormed, Immediate, Folding, Vectorial, ImmOps, RedOps, VecOps,
   ScalarOps, Ignored, CondJumps, Dest

LEMMA VectorOpRegs ==
  ASSUME NEW i \in Legal
  PROVE  /\ i.op \in VecOps => i.in1 \in Vector /\ i.in2 \in Vector /\ Dest(i) \in Vector
         /\ i.op \in ScalarOps => i.in1 \in Vector /\ i.in2 \in SReg /\ Dest(i) \in Vector
BY DEF Legal, WellFormed, Immediate, Folding, Vectorial, ImmOps, RedOps, VecOps,
   ScalarOps, Ignored, CondJumps, Dest, Vector

LEMMA Lanes == Lane \subseteq Nat \cup {Mixed}
  BY SizeAssumption DEF Lane, Value

\* What operations compute.
LEMMA Computed ==
  ASSUME NEW i, NEW x \in Nat \cup {Mixed}, NEW y \in Nat \cup {Mixed}
  PROVE  Typed(i, x, y) \in Lane
<1>1. CASE i.dtype # setup.dtype \/ Mixed \in {x, y}
  BY <1>1 DEF Typed, Lane
<1>2. CASE ~(i.dtype # setup.dtype \/ Mixed \in {x, y})
  <2>1. x \in Nat /\ y \in Nat /\ Width \in Nat \ {0}
    BY <1>2, SizeAssumption
  <2>2. \A z \in Int : z % Width \in Value
    BY <2>1 DEF Value
  <2>3. x + y \in Int /\ x - y \in Int /\ x * y \in Int /\ (y # 0 => x \div y \in Int)
        /\ (IF x > y THEN x ELSE y) \in Int /\ (IF x < y THEN x ELSE y) \in Int
        /\ Width - 1 \in Value
    BY <2>1 DEF Value
  <2>4. Combine(i, x, y) \in Value
    BY <2>2, <2>3 DEF Combine
  <2> QED BY <1>2, <2>4 DEF Typed, Lane
<1> QED BY <1>1, <1>2

LEMMA Casted ==
  ASSUME NEW d, NEW x \in Nat \cup {Mixed}, NEW n \in Nat
  PROVE  Cast(d, Cast(d, x) + Cast(d, n)) \in Nat \cup {Mixed}
<1>1. \A z \in Int : z % Narrow \in Nat
  BY NarrowAssumption
<1> QED BY <1>1 DEF Cast, Mixed

-----------------------------------------------------------------------------
(* A step.                                                                 *)

\* The disjunct of Step for an instruction.
Effect(i) ==
  \/ Read(i) \/ Write(i) \/ Core!Move(i) \/ Add(i) \/ Core!Control(i)
  \/ i.op \in VecOps /\ MapVec(i)
  \/ i.op \in ScalarOps /\ MapScalarVec(i)
  \/ i.op \in RedOps /\ FoldVec(i)

LEMMA ReadTypes ==
  ASSUME RegsOK, BankOK, NEW i \in Legal, Read(i)
  PROVE  RegsOK' /\ mem' = mem
<1>1. i.op = "READ" /\ Core!At(i) \in Mapped /\ Core!Latch(i, mem[Core!At(i)]) /\ mem' = mem
  BY DEF Read, Core!Read
<1> DEFINE v == mem[Core!At(i)]
<1>2. v \in Lane \cup {Empty} /\ Core!Latch(i, v)
  BY <1>1 DEF BankOK
<1> HIDE DEF v
<1>3. i.dst \in VReg \cup {NoReg}
  BY <1>1, MemRegs
<1> QED BY <1>1, <1>2, <1>3, LatchRegs

LEMMA WriteTypes ==
  ASSUME RegsOK, BankOK, NEW i \in Legal, Write(i)
  PROVE  RegsOK' /\ \/ mem' = mem
                    \/ \E a \in Mapped, v \in Lane :
                         mem[a] # Empty /\ mem' = [mem EXCEPT ![a] = v]
<1> DEFINE a == Core!At(i)
           v == val[IF i.in1 = NoReg THEN Gdl ELSE i.in1]
<1>1. /\ i.op = "WRITE" /\ a \in Mapped /\ Core!Latch(i, v)
      /\ mem' = IF Empty \in {v, mem[a]} THEN mem ELSE [mem EXCEPT ![a] = v]
  BY DEF Write
<1>2. i.dst \in VReg \cup {NoReg} /\ i.in1 \in Vector \cup {NoReg}
  BY <1>1, MemRegs
<1>3. v \in Lane \cup {Empty}
  BY <1>2 DEF RegsOK, Vector
<1> HIDE DEF a, v
<1>4. RegsOK'
  BY <1>1, <1>2, <1>3, LatchRegs
<1>5. CASE Empty \in {v, mem[a]}
  BY <1>1, <1>4, <1>5
<1>6. CASE Empty \notin {v, mem[a]}
  <2>1. v \in Lane /\ mem[a] # Empty /\ mem' = [mem EXCEPT ![a] = v]
    BY <1>1, <1>3, <1>6
  <2> QED BY <1>1, <1>4, <2>1
<1> QED BY <1>5, <1>6

LEMMA MoveTypes ==
  ASSUME RegsOK, NEW i \in Legal, Core!Move(i)
  PROVE  RegsOK' /\ mem' = mem
<1>1. /\ i.op = "MOV"
      /\ CASE i.in1 = NoReg -> Core!Scalar(i.dst, i.imm)
           [] i.in1 \in SReg -> Core!Scalar(i.dst, sreg[i.in1])
           [] OTHER -> Core!Shared(i.dst, i.in1, val[i.in1])
  BY DEF Core!Move, Core!NoReg, NoReg
<1>2. \/ i.in1 \in SReg \cup {NoReg} /\ i.dst \in SReg
      \/ i.in1 \in Vector /\ i.dst \in VReg
  BY <1>1, MoveRegs
<1>3. NoReg \notin SReg /\ NoReg \notin Vector /\ SReg \cap Vector = {}
  BY RegisterAssumption
<1>4. CASE i.in1 = NoReg
  <2>1. Core!Scalar(i.dst, i.imm) /\ i.dst \in SReg /\ i.imm \in Nat
    BY <1>1, <1>2, <1>3, <1>4 DEF Legal, Worded
  <2> QED BY <2>1, ScalarRegs DEF Core!Scalar
<1>5. CASE i.in1 \in SReg
  <2> DEFINE v == sreg[i.in1]
  <2>1. Core!Scalar(i.dst, v) /\ i.dst \in SReg /\ v \in Nat \cup {Mixed}
    BY <1>1, <1>2, <1>3, <1>5 DEF RegsOK
  <2> HIDE DEF v
  <2> QED BY <2>1, ScalarRegs DEF Core!Scalar
<1>6. CASE i.in1 \in Vector
  <2> DEFINE v == val[i.in1]
  <2>1. Core!Shared(i.dst, i.in1, v) /\ i.dst \in Vector /\ v \in Lane \cup {Empty}
    BY <1>1, <1>2, <1>3, <1>6 DEF RegsOK, Vector
  <2> HIDE DEF v
  <2> QED BY <1>6, <2>1, SharedRegs DEF Core!Shared
<1> QED BY <1>2, <1>4, <1>5, <1>6

LEMMA AddTypes ==
  ASSUME RegsOK, NEW i \in Legal, Add(i)
  PROVE  RegsOK' /\ mem' = mem
<1> DEFINE v == Cast(i.dtype, Cast(i.dtype, sreg[i.in1]) + Cast(i.dtype, i.imm))
<1>1. i.op = "IMM_ADD" /\ Core!Scalar(Dest(i), v)
  BY DEF Add
<1>2. i.in1 \in SReg /\ Dest(i) \in SReg /\ i.imm \in Nat
  BY <1>1, ScalarOpRegs DEF Legal, Worded
<1>3. v \in Nat \cup {Mixed}
  <2>1. sreg[i.in1] \in Nat \cup {Mixed}
    BY <1>2 DEF RegsOK
  <2> QED BY <1>2, <2>1, Casted
<1> HIDE DEF v
<1> QED BY <1>1, <1>2, <1>3, ScalarRegs DEF Core!Scalar

LEMMA MapVecTypes ==
  ASSUME RegsOK, NEW i \in Legal, i.op \in VecOps, MapVec(i)
  PROVE  RegsOK' /\ mem' = mem
<1> DEFINE x == val[i.in1]
           y == val[i.in2]
           d == Dest(i)
<1>1. \/ /\ x = Empty /\ y = Empty
         /\ val' = [val EXCEPT ![d] = Empty]
         /\ alias' = Core!Rebound({d})
         /\ sreg' = sreg /\ mem' = mem
      \/ x = Empty /\ y # Empty /\ Core!Shared(d, i.in2, y)
      \/ x # Empty /\ y = Empty /\ Core!Shared(d, i.in1, x)
      \/ x # Empty /\ y # Empty /\ Core!Shared(d, i.in1, Typed(i, x, y))
  BY DEF MapVec
<1>2. i.in1 \in Vector /\ i.in2 \in Vector /\ d \in Vector
  BY VectorOpRegs
<1>3. x \in Lane \cup {Empty} /\ y \in Lane \cup {Empty}
  BY <1>2 DEF RegsOK
<1> HIDE DEF x, y, d
<1>4. CASE /\ x = Empty /\ y = Empty
           /\ val' = [val EXCEPT ![d] = Empty]
           /\ alias' = Core!Rebound({d})
           /\ sreg' = sreg /\ mem' = mem
  <2>1. val' \in [Vector -> Lane \cup {Empty}]
    BY <1>2, <1>4 DEF RegsOK
  <2>2. Parted(alias')
    <3>1. alias' = Without(alias, {d}) \cup {{d}}
      BY <1>4 DEF Core!Rebound, Core!Detached, Without
    <3>2. Parted(alias) /\ {d} \subseteq Vector
      BY <1>2 DEF RegsOK
    <3>3. Parted(Without(alias, {d}) \cup {{d}})
      BY <3>2, Separated
    <3> QED BY <3>1, <3>3
  <2>3. sreg' \in [SReg -> Nat \cup {Mixed}]
    BY <1>4 DEF RegsOK
  <2> QED BY <1>4, <2>1, <2>2, <2>3 DEF RegsOK, Parted
<1>5. CASE Core!Shared(d, i.in2, y)
  BY <1>2, <1>3, <1>5, SharedRegs DEF Core!Shared
<1>6. CASE Core!Shared(d, i.in1, x)
  BY <1>2, <1>3, <1>6, SharedRegs DEF Core!Shared
<1>7. CASE x # Empty /\ y # Empty /\ Core!Shared(d, i.in1, Typed(i, x, y))
  <2> DEFINE v == Typed(i, x, y)
  <2>1. v \in Lane
    <3>1. x \in Nat \cup {Mixed} /\ y \in Nat \cup {Mixed}
      BY <1>3, <1>7, Lanes
    <3> QED BY <3>1, Computed
  <2>2. Core!Shared(d, i.in1, v)
    BY <1>7
  <2> HIDE DEF v
  <2> QED BY <1>2, <2>1, <2>2, SharedRegs DEF Core!Shared
<1> QED BY <1>1, <1>4, <1>5, <1>6, <1>7

LEMMA MapScalarVecTypes ==
  ASSUME RegsOK, NEW i \in Legal, i.op \in ScalarOps, MapScalarVec(i)
  PROVE  RegsOK' /\ mem' = mem
<1> DEFINE x == val[i.in1]
           v == IF x = Empty THEN Empty ELSE Typed(i, x, sreg[i.in2])
<1>1. Core!Shared(Dest(i), i.in1, v)
  BY DEF MapScalarVec
<1>2. i.in1 \in Vector /\ i.in2 \in SReg /\ Dest(i) \in Vector
  BY VectorOpRegs
<1>3. v \in Lane \cup {Empty}
  <2>1. x \in Lane \cup {Empty} /\ sreg[i.in2] \in Nat \cup {Mixed}
    BY <1>2 DEF RegsOK
  <2> HIDE DEF x
  <2>2. x # Empty => Typed(i, x, sreg[i.in2]) \in Lane
    BY <2>1, Lanes, Computed
  <2> QED BY <2>2
<1> HIDE DEF v
<1> QED BY <1>1, <1>2, <1>3, SharedRegs DEF Core!Shared

LEMMA FoldVecTypes ==
  ASSUME RegsOK, NEW i \in Legal, i.op \in RedOps, FoldVec(i)
  PROVE  RegsOK' /\ mem' = mem
<1> DEFINE acc == IF Dest(i) = i.in1 THEN Neutral(i) ELSE sreg[i.in1]
           x == val[i.in2]
           v == IF x = Empty THEN Neutral(i) ELSE Typed(i, acc, x)
<1>1. Core!Scalar(Dest(i), v)
  BY DEF FoldVec
<1>2. i.in1 \in SReg /\ i.in2 \in Vector /\ Dest(i) \in SReg
  BY ScalarOpRegs
<1>3. Neutral(i) \in Value /\ Value \subseteq Nat
  BY SizeAssumption DEF Neutral, Value
<1>4. acc \in Nat \cup {Mixed} /\ x \in Lane \cup {Empty}
  BY <1>2, <1>3 DEF RegsOK
<1> HIDE DEF acc, x
<1>5. x # Empty => Typed(i, acc, x) \in Lane
  BY <1>4, Lanes, Computed
<1>6. v \in Nat \cup {Mixed}
  BY <1>3, <1>5, Lanes
<1> HIDE DEF v
<1> QED BY <1>1, <1>2, <1>6, ScalarRegs DEF Core!Scalar

LEMMA StepTypes ==
  ASSUME RegsOK, BankOK, setup' = setup, NEW i \in Legal, Effect(i)
  PROVE  RegsOK' /\ BankOK'
<1>1. Mapped' = Mapped /\ \A a : Padding(a)' <=> Padding(a)
  BY DEF Mapped, Padding, Objects, RangeOf
<1>2. ASSUME mem' = mem PROVE BankOK'
  BY <1>1, <1>2 DEF BankOK
<1>3. CASE Read(i)
  BY <1>2, <1>3, ReadTypes
<1>4. CASE Write(i)
  <2>1. ASSUME NEW a \in Mapped, NEW v \in Lane,
               mem[a] # Empty, mem' = [mem EXCEPT ![a] = v]
        PROVE  BankOK'
    <3>1. v # Empty
      BY EmptyAssumption, SizeAssumption DEF Lane, Value, Mixed
    <3> QED BY <1>1, <2>1, <3>1 DEF BankOK
  <2> QED BY <1>2, <1>4, <2>1, WriteTypes
<1>5. CASE Core!Move(i)
  BY <1>2, <1>5, MoveTypes
<1>6. CASE Add(i)
  BY <1>2, <1>6, AddTypes
<1>7. CASE Core!Control(i)
  <2>1. sreg' = sreg /\ val' = val /\ alias' = alias /\ mem' = mem
    BY <1>7 DEF Core!Control
  <2> QED BY <1>2, <2>1 DEF RegsOK, Parted
<1>8. CASE i.op \in VecOps /\ MapVec(i)
  BY <1>2, <1>8, MapVecTypes
<1>9. CASE i.op \in ScalarOps /\ MapScalarVec(i)
  BY <1>2, <1>9, MapScalarVecTypes
<1>10. CASE i.op \in RedOps /\ FoldVec(i)
  BY <1>2, <1>10, FoldVecTypes
<1> QED BY <1>3, <1>4, <1>5, <1>6, <1>7, <1>8, <1>9, <1>10 DEF Effect

-----------------------------------------------------------------------------
(* The instructions of the generators.                                     *)

\* An instruction is what its generator names.
LEMMA Fields ==
  ASSUME NEW op, NEW in1, NEW in2, NEW dst, NEW addr, NEW imm, NEW dtype
  PROVE  LET i == Ins(op, in1, in2, dst, addr, imm, dtype) IN
         /\ i.op = op /\ i.in1 = in1 /\ i.in2 = in2 /\ i.dst = dst
         /\ i.addr = addr /\ i.imm = imm /\ i.dtype = dtype
  BY DEF Ins
LEMMA Named ==
  ASSUME NEW op \in OpType, NEW in1 \in Reg, NEW in2 \in Reg, NEW dst \in Reg,
         NEW addr \in Int, NEW imm \in Nat, NEW dtype \in Dtypes
  PROVE  Ins(op, in1, in2, dst, addr, imm, dtype) \in Worded
  BY DEF Ins, Timing, Worded
LEMMA NamedUntimed ==
  ASSUME NEW i \in Worded
  PROVE  /\ Untimed(i) \in Worded
         /\ Untimed(i).op = i.op /\ Untimed(i).in1 = i.in1 /\ Untimed(i).in2 = i.in2
         /\ Untimed(i).dst = i.dst /\ Untimed(i).addr = i.addr
  BY DEF Untimed, Worded

LEMMA RegNames ==
  /\ \A r \in SReg : r \in Reg /\ r # NoReg /\ r \notin Vector
  /\ \A r \in VReg : r \in Reg /\ r # NoReg /\ r # Gdl /\ r \in Vector
  /\ Gdl \in Reg /\ Gdl \in Vector /\ Gdl # NoReg /\ NoReg \in Reg /\ NoReg \notin Vector
  /\ NoReg \notin SReg /\ NoReg \notin VReg
  BY RegisterAssumption DEF Reg, Vector

LEMMA SetCode ==
  ASSUME NEW r \in SReg, NEW n \in Nat
  PROVE  SET(r, n) \in Straight
<1> DEFINE j == SET(r, n)
<1>1. "MOV" \in OpType /\ Int32 \in Dtypes /\ 0 \in Int
  BY DEF OpType, Dtypes
<1>2. j \in Worded
  BY <1>1, RegNames, Named DEF SET
<1>3. j.op = "MOV" /\ j.in1 = NoReg /\ j.in2 = NoReg /\ j.dst = r
  BY Fields DEF SET
<1> HIDE DEF j
<1>4. WellFormed(j) /\ ~IsJump(j)
  BY <1>3 DEF WellFormed, IsJump, CondJumps
<1>5. j \in Straight
  BY <1>2, <1>4 DEF Straight, Legal
<1> QED BY <1>5 DEF j

LEMMA ReadCode ==
  ASSUME NEW a \in Int, NEW r \in SReg \cup {NoReg}, NEW v \in VReg \cup {NoReg},
         NEW dtype \in Dtypes
  PROVE  READ(a, r, v, dtype) \in Straight
<1> DEFINE j == READ(a, r, v, dtype)
<1>1. "READ" \in OpType /\ 0 \in Nat /\ r \in Reg /\ v \in Reg /\ NoReg \in Reg
  BY RegNames DEF OpType, MemOps
<1>2. j \in Worded
  BY <1>1, Named DEF READ
<1>3. j.op = "READ" /\ j.in1 = r /\ j.in2 = NoReg /\ j.dst = v
  BY Fields DEF READ
<1> HIDE DEF j
<1>4. WellFormed(j) /\ ~IsJump(j)
  BY <1>3 DEF WellFormed, IsJump, CondJumps
<1>5. j \in Straight
  BY <1>2, <1>4 DEF Straight, Legal
<1> QED BY <1>5 DEF j

LEMMA WriteCode ==
  ASSUME NEW a \in Int, NEW r \in SReg \cup {NoReg}, NEW v \in VReg \cup {NoReg},
         NEW dtype \in Dtypes
  PROVE  WRITE(v, a, r, dtype) \in Straight
<1> DEFINE j == WRITE(v, a, r, dtype)
<1>1. "WRITE" \in OpType /\ 0 \in Nat /\ r \in Reg /\ v \in Reg /\ NoReg \in Reg
  BY RegNames DEF OpType, MemOps
<1>2. j \in Worded
  BY <1>1, Named DEF WRITE
<1>3. j.op = "WRITE" /\ j.in1 = v /\ j.in2 = r /\ j.dst = NoReg
  BY Fields DEF WRITE
<1> HIDE DEF j
<1>4. WellFormed(j) /\ ~IsJump(j)
  BY <1>3 DEF WellFormed, IsJump, CondJumps, Vector
<1>5. j \in Straight
  BY <1>2, <1>4 DEF Straight, Legal
<1> QED BY <1>5 DEF j

LEMMA IncCode ==
  ASSUME NEW r \in SReg, NEW n \in Nat, NEW dtype \in Dtypes
  PROVE  INC(r, n, dtype) \in Straight
<1> DEFINE j == INC(r, n, dtype)
<1>1. "IMM_ADD" \in OpType /\ 0 \in Int /\ r \in Reg /\ NoReg \in Reg
  BY RegNames DEF OpType, ImmOps
<1>2. j \in Worded
  BY <1>1, Named DEF INC
<1>3. j.op = "IMM_ADD" /\ j.in1 = r /\ j.in2 = NoReg /\ j.dst = r
  BY Fields DEF INC
<1> HIDE DEF j
<1>4. WellFormed(j) /\ ~IsJump(j)
  BY <1>3 DEF WellFormed, Immediate, ImmOps, IsJump, CondJumps
<1>5. j \in Straight
  BY <1>2, <1>4 DEF Straight, Legal
<1> QED BY <1>5 DEF j

LEMMA JumpCode ==
  ASSUME NEW r \in SReg, NEW s \in SReg, NEW a \in Int, NEW dtype \in Dtypes
  PROVE  JL(r, s, a, dtype) \in Legal
<1> DEFINE j == JL(r, s, a, dtype)
<1>1. "JL" \in OpType /\ 0 \in Nat /\ r \in Reg /\ s \in Reg /\ NoReg \in Reg
  BY RegNames DEF OpType, CondJumps
<1>2. j \in Worded
  BY <1>1, Named DEF JL
<1>3. j.op = "JL" /\ j.in1 = r /\ j.in2 = s /\ j.dst = NoReg
  BY Fields DEF JL
<1> HIDE DEF j
<1>4. WellFormed(j)
  BY <1>3 DEF WellFormed, CondJumps
<1>5. j \in Legal
  BY <1>2, <1>4 DEF Legal
<1> QED BY <1>5 DEF j

LEMMA ArithCode ==
  ASSUME NEW op \in VecOps \cup Ignored, NEW v \in VReg, NEW r \in Vector,
         NEW d \in VReg \cup {NoReg}, NEW dtype \in Dtypes
  PROVE  /\ ARITH(op, v, r, d, dtype) \in Straight
         /\ Untimed(ARITH(op, v, r, d, dtype)) \in Straight
         /\ Untimed(ARITH(op, v, r, d, dtype)).op = op
<1> DEFINE j == ARITH(op, v, r, d, dtype)
           k == Untimed(j)
<1>1. op \in OpType /\ 0 \in Nat /\ v \in Reg /\ r \in Reg /\ d \in Reg
  BY RegNames DEF OpType, Reg
<1>2. j \in Worded
  BY <1>1, Named DEF ARITH
<1>3. j.op = op /\ j.in1 = v /\ j.in2 = r /\ j.dst = d
  BY Fields DEF ARITH
<1> HIDE DEF j
<1>4. k \in Worded /\ k.op = op /\ k.in1 = v /\ k.in2 = r /\ k.dst = d
  BY <1>2, <1>3, NamedUntimed
<1> HIDE DEF k
<1>5. ASSUME NEW i \in Worded, i.op = op, i.in1 = v, i.in2 = r, i.dst = d
      PROVE  i \in Straight
  <2>1. v \in Vector /\ v # Gdl
    BY RegNames
  <2>2. WellFormed(i)
    BY <1>5, <2>1 DEF WellFormed, Vectorial, ScalarOps, VecOps, Ignored
  <2>3. ~IsJump(i)
    BY <1>5 DEF IsJump, CondJumps, VecOps, Ignored
  <2> QED BY <2>2, <2>3 DEF Straight, Legal
<1>6. j \in Straight /\ k \in Straight
  BY <1>2, <1>3, <1>4, <1>5
<1> QED BY <1>4, <1>6 DEF j, k

LEMMA ScalarArithCode ==
  ASSUME NEW op \in ScalarOps, NEW v \in VReg, NEW r \in SReg,
         NEW d \in VReg \cup {NoReg}, NEW dtype \in Dtypes
  PROVE  /\ ARITH(op, v, r, d, dtype) \in Straight
         /\ ARITH(op, v, r, d, dtype).op = op
         /\ Untimed(ARITH(op, v, r, d, dtype)) \in Straight
         /\ Untimed(ARITH(op, v, r, d, dtype)).op = op
<1> DEFINE j == ARITH(op, v, r, d, dtype)
           k == Untimed(j)
<1>1. op \in OpType /\ 0 \in Nat /\ v \in Reg /\ r \in Reg /\ d \in Reg
  BY RegNames DEF OpType
<1>2. j \in Worded
  BY <1>1, Named DEF ARITH
<1>3. j.op = op /\ j.in1 = v /\ j.in2 = r /\ j.dst = d
  BY Fields DEF ARITH
<1> HIDE DEF j
<1>4. k \in Worded /\ k.op = op /\ k.in1 = v /\ k.in2 = r /\ k.dst = d
  BY <1>2, <1>3, NamedUntimed
<1> HIDE DEF k
<1>5. ASSUME NEW i \in Worded, i.op = op, i.in1 = v, i.in2 = r, i.dst = d
      PROVE  i \in Straight
  <2>1. v \in Vector /\ v # Gdl
    BY RegNames
  <2>2. WellFormed(i)
    BY <1>5, <2>1 DEF WellFormed, Vectorial, ScalarOps
  <2>3. ~IsJump(i)
    BY <1>5 DEF IsJump, CondJumps, ScalarOps
  <2> QED BY <2>2, <2>3 DEF Straight, Legal
<1>6. j \in Straight /\ k \in Straight
  BY <1>2, <1>3, <1>4, <1>5
<1> QED BY <1>3, <1>4, <1>6 DEF j, k

LEMMA FoldCode ==
  ASSUME NEW op \in RedOps, NEW r \in SReg, NEW v \in VReg,
         NEW d \in SReg \cup {NoReg}, NEW dtype \in Dtypes
  PROVE  ARITH(op, r, v, d, dtype) \in Straight
<1> DEFINE j == ARITH(op, r, v, d, dtype)
<1>1. op \in OpType /\ 0 \in Nat /\ v \in Reg /\ r \in Reg /\ d \in Reg
  BY RegNames DEF OpType
<1>2. j \in Worded
  BY <1>1, Named DEF ARITH
<1>3. j.op = op /\ j.in1 = r /\ j.in2 = v /\ j.dst = d
  BY Fields DEF ARITH
<1> HIDE DEF j
<1>4. WellFormed(j)
  BY <1>3, RegNames DEF WellFormed, Folding
<1>5. ~IsJump(j)
  BY <1>3 DEF IsJump, CondJumps, RedOps
<1>6. j \in Straight
  BY <1>2, <1>4, <1>5 DEF Straight, Legal
<1> QED BY <1>6 DEF j

LEMMA NopCode == NOP \in Straight /\ NOP.op = "NOP"
<1> DEFINE j == Ins("NOP", NoReg, NoReg, NoReg, 0, 0, Int32)
<1>1. "NOP" \in OpType /\ 0 \in Nat /\ NoReg \in Reg /\ Int32 \in Dtypes
  BY RegNames DEF OpType, Dtypes
<1>2. j \in Worded
  BY <1>1, Named
<1>3. j.op = "NOP" /\ j.in1 = NoReg /\ j.in2 = NoReg /\ j.dst = NoReg
  BY Fields
<1> HIDE DEF j
<1> DEFINE k == Untimed(j)
<1>4. k \in Worded /\ k.op = "NOP" /\ k.in1 = NoReg /\ k.in2 = NoReg /\ k.dst = NoReg
  BY <1>2, <1>3, NamedUntimed
<1> HIDE DEF k
<1>5. WellFormed(k) /\ ~IsJump(k)
  BY <1>4 DEF WellFormed, IsJump, CondJumps, Operands
<1>6. k \in Straight
  BY <1>4, <1>5 DEF Straight, Legal
<1> QED BY <1>4, <1>6 DEF NOP, j, k

-----------------------------------------------------------------------------
(* The loops.                                                              *)

\* A command for a core: ranges of one chunk or more, a number.
Ranged(core, cmd) ==
  /\ \A r \in {cmd.r1, cmd.r2, cmd.dst} : r[1] \in Nat /\ r[2] \in Nat /\ r[1] < r[2]
  /\ cmd.scalar \in Nat /\ cmd.dtype = core.dtype

\* Its operands are as long as its destination; the chunks it may touch.
Fits(cmd) ==
  /\ cmd.type \notin DOMAIN Fold => Extent(cmd.dst) = Extent(cmd.r1)
  /\ cmd.type \in DOMAIN VecVec => Extent(cmd.r2) = Extent(cmd.r1)
Allowed(i, a, cmd) ==
  \/ i.op = "READ" /\ (In(a, cmd.r1) \/ (cmd.type \in DOMAIN VecVec /\ In(a, cmd.r2)))
  \/ i.op = "WRITE" /\ cmd.type \notin DOMAIN Fold /\ In(a, cmd.dst)

\* What is between the head of a loop and its end: no scalar changes, and every
\* access is one of a window's chunks.
Body(core, cmd) ==
  {i \in Straight :
     /\ i.op \in MemOps \cup VecOps \cup ScalarOps
     /\ IsMem(i) =>
          /\ OffsetReg(i) = core.reg[1]
          /\ Fits(cmd) =>
               \A q \in Nat : q + SelWindow(core, Extent(cmd.r1)) <= Extent(cmd.r1) =>
                                Allowed(i, i.addr + q, cmd)}

\* A loop whose head sets m registers.
IsLoop(p, core, cmd, m) ==
  LET len == Extent(cmd.r1)
      w == SelWindow(core, len)
      n == Len(p)
  IN  /\ p \in Seq(Legal) /\ n >= m + 2
      /\ \A j \in 1..m : p[j] \in Straight /\ p[j].op = "MOV"
      /\ p[m - 1] = SET(core.reg[1], 0) /\ p[m] = SET(core.reg[2], len)
      /\ \A j \in (m + 1)..(n - 2) : p[j] \in Body(core, cmd)
      /\ p[n - 1] = INC(core.reg[1], w, cmd.dtype)
      /\ p[n] = JL(core.reg[1], core.reg[2], m, cmd.dtype)

\* The largest of a set of numbers with a bound.
LEMMA Largest ==
  ASSUME NEW n \in Nat, NEW S, S \subseteq 0..n, S # {}
  PROVE  Max(S) \in S /\ \A x \in S : x <= Max(S)
<1>1. PICK m \in S : \A x \in S : x <= m
  BY Tables!NatMax
<1>2. S \subseteq Int
  OBVIOUS
<1>3. \A x \in S : m >= x
  BY <1>1, <1>2
<1>4. Max(S) \in S /\ \A x \in S : Max(S) >= x
  BY <1>3 DEF Max
<1> QED BY <1>2, <1>4

\* sel_window: one chunk at least, as many as there are registers and columns
\* at most, and no rest.
LEMMA WindowFacts ==
  ASSUME NEW core \in Setups, NEW len \in Nat \ {0}
  PROVE  LET w == SelWindow(core, len) IN
         w \in 1..len /\ w <= Len(core.vec) /\ w <= core.nCol /\ len % w = 0
<1> DEFINE most == Least(Least(Len(core.vec), len), core.nCol)
           fitting == {w \in 1..most : len % w = 0}
<1>1. Len(core.vec) \in Nat /\ Len(core.vec) >= 1 /\ core.nCol \in Nat \ {0}
  BY SetupAssumption
<1>2. most \in Nat \ {0} /\ most <= len /\ most <= Len(core.vec) /\ most <= core.nCol
  BY <1>1 DEF Least
<1>3. 1 \in fitting
  BY <1>2
<1>4. fitting \subseteq 0..most
  BY <1>2
<1>5. SelWindow(core, len) = Max(fitting)
  BY <1>3 DEF SelWindow
<1> HIDE DEF most
<1>6. Max(fitting) \in fitting
  BY <1>2, <1>3, <1>4, Largest
<1> HIDE DEF fitting
<1>7. SelWindow(core, len) \in 1..most /\ len % SelWindow(core, len) = 0
  BY <1>5, <1>6 DEF fitting
<1>8. SelWindow(core, len) \in 1..len /\ SelWindow(core, len) <= Len(core.vec)
      /\ SelWindow(core, len) <= core.nCol
  BY <1>1, <1>2, <1>7
<1> QED BY <1>7, <1>8

\* What a setup and a command give.
LEMMA CoreFacts ==
  ASSUME NEW core \in Setups
  PROVE  /\ core.reg[1] \in SReg /\ core.reg[2] \in SReg /\ core.reg[3] \in SReg
         /\ core.reg[1] # core.reg[2] /\ core.reg[1] # core.reg[3] /\ core.reg[2] # core.reg[3]
         /\ Len(core.vec) \in Nat /\ Len(core.vec) >= 1
         /\ \A c \in 1..Len(core.vec) : core.vec[c] \in VReg
         /\ core.dtype \in Dtypes
<1>1. /\ core.reg \in Seq(SReg) /\ Len(core.reg) >= 3
      /\ \A m, n \in DOMAIN core.reg : m # n => core.reg[m] # core.reg[n]
      /\ core.vec \in Seq(VReg) /\ Len(core.vec) >= 1
  BY SetupAssumption
<1>2. 1 \in DOMAIN core.reg /\ 2 \in DOMAIN core.reg /\ 3 \in DOMAIN core.reg
  BY <1>1
<1> QED BY <1>1, <1>2 DEF Dtypes

LEMMA RangeFacts ==
  ASSUME NEW core \in Setups, NEW cmd, Ranged(core, cmd)
  PROVE  /\ Extent(cmd.r1) \in Nat \ {0} /\ cmd.dtype \in Dtypes /\ cmd.scalar \in Nat
         /\ cmd.r1[1] \in Nat /\ cmd.r2[1] \in Nat /\ cmd.dst[1] \in Nat
         /\ cmd.r1[2] = cmd.r1[1] + Extent(cmd.r1)
         /\ cmd.r2[2] = cmd.r2[1] + Extent(cmd.r2)
         /\ cmd.dst[2] = cmd.dst[1] + Extent(cmd.dst)
<1>1. cmd.dtype \in Dtypes
  BY DEF Ranged, Dtypes
<1> QED BY <1>1 DEF Ranged, Extent

\* Sequences.
LEMMA Glued ==
  ASSUME NEW S, NEW s \in Seq(S), NEW t \in Seq(S)
  PROVE  /\ s \o t \in Seq(S) /\ Len(s \o t) = Len(s) + Len(t)
         /\ \A j \in 1..Len(s) : (s \o t)[j] = s[j]
         /\ \A j \in 1..Len(t) : (s \o t)[Len(s) + j] = t[j]
  OBVIOUS
LEMMA Listed ==
  ASSUME NEW S, NEW n \in Nat, NEW f \in [1..n -> S]
  PROVE  f \in Seq(S) /\ Len(f) = n
  OBVIOUS

\* A program in three parts.
LEMMA Surrounded ==
  ASSUME NEW s \in Seq(Legal), NEW B, B \subseteq Legal, NEW b \in Seq(B), NEW t \in Seq(Legal)
  PROVE  LET p == (s \o b) \o t IN
         /\ p \in Seq(Legal) /\ Len(p) = Len(s) + Len(b) + Len(t)
         /\ \A j \in 1..Len(s) : p[j] = s[j]
         /\ \A j \in (Len(s) + 1)..(Len(s) + Len(b)) : p[j] \in B
         /\ \A j \in 1..Len(t) : p[Len(s) + Len(b) + j] = t[j]
<1> DEFINE q == s \o b
           p == q \o t
<1>1. b \in Seq(Legal) /\ Len(s) \in Nat /\ Len(b) \in Nat /\ Len(t) \in Nat
  OBVIOUS
<1>2. /\ q \in Seq(Legal) /\ Len(q) = Len(s) + Len(b)
      /\ \A j \in 1..Len(s) : q[j] = s[j]
      /\ \A j \in 1..Len(b) : q[Len(s) + j] = b[j]
  BY <1>1, Glued
<1> HIDE DEF q
<1>3. /\ p \in Seq(Legal) /\ Len(p) = Len(q) + Len(t)
      /\ \A j \in 1..Len(q) : p[j] = q[j]
      /\ \A j \in 1..Len(t) : p[Len(q) + j] = t[j]
  <2>1. q \in Seq(Legal)
    BY <1>2
  <2> QED BY <2>1, Glued
<1> HIDE DEF p
<1>4. ASSUME NEW j \in (Len(s) + 1)..(Len(s) + Len(b)) PROVE p[j] \in B
  <2> DEFINE k == j - Len(s)
  <2>1. k \in 1..Len(b) /\ j \in 1..Len(q) /\ j = Len(s) + k
    BY <1>1, <1>2
  <2> HIDE DEF k
  <2>2. p[j] = b[k]
    BY <1>2, <1>3, <2>1
  <2> QED BY <2>1, <2>2
<1>5. \A j \in 1..Len(s) : p[j] = s[j]
  BY <1>1, <1>2, <1>3
<1>6. \A j \in 1..Len(t) : p[Len(s) + Len(b) + j] = t[j]
  BY <1>1, <1>2, <1>3
<1>7. Len(p) = Len(s) + Len(b) + Len(t)
  BY <1>2, <1>3
<1> QED BY <1>3, <1>4, <1>5, <1>6, <1>7 DEF p, q

\* Accesses of a window.
LEMMA BodyReads ==
  ASSUME NEW core \in Setups, NEW cmd, Ranged(core, cmd), NEW r \in {cmd.r1, cmd.r2},
         r = cmd.r1 \/ cmd.type \in DOMAIN VecVec,
         NEW c \in 1..SelWindow(core, Extent(cmd.r1)), NEW v \in VReg \cup {NoReg}
  PROVE  READ(r[1] + c - 1, core.reg[1], v, cmd.dtype) \in Body(core, cmd)
<1> DEFINE a == r[1] + c - 1
           j == READ(a, core.reg[1], v, cmd.dtype)
           w == SelWindow(core, Extent(cmd.r1))
<1>1. w \in Nat /\ Extent(cmd.r1) \in Nat
  BY RangeFacts, WindowFacts
<1>2. r[1] \in Nat /\ r[2] = r[1] + Extent(r) /\ core.reg[1] \in SReg /\ cmd.dtype \in Dtypes
  BY RangeFacts, CoreFacts
<1>3. c \in 1..w
  OBVIOUS
<1> HIDE DEF w
<1>4. a \in Int
  BY <1>1, <1>2, <1>3
<1>5. j \in Straight
  BY <1>2, <1>4, ReadCode
<1>6. j.op = "READ" /\ j.in1 = core.reg[1] /\ j.addr = a
  BY Fields DEF READ
<1>7. ASSUME Fits(cmd), NEW q \in Nat, q + w <= Extent(cmd.r1) PROVE Allowed(j, a + q, cmd)
  <2>1. Extent(r) = Extent(cmd.r1)
    BY <1>7 DEF Fits
  <2>2. In(a + q, r)
    BY <1>1, <1>2, <1>3, <1>7, <2>1 DEF In
  <2> HIDE DEF a, j
  <2> QED BY <1>6, <2>2 DEF Allowed
<1> HIDE DEF a, j
<1>8. OffsetReg(j) = core.reg[1] /\ j.op \in MemOps
  BY <1>6 DEF OffsetReg, MemOps
<1>9. j \in Body(core, cmd)
  BY <1>5, <1>6, <1>7, <1>8 DEF Body, w
<1> QED BY <1>9 DEF j, a

LEMMA BodyWrites ==
  ASSUME NEW core \in Setups, NEW cmd, Ranged(core, cmd), cmd.type \notin DOMAIN Fold,
         NEW c \in 1..SelWindow(core, Extent(cmd.r1)), NEW v \in VReg \cup {NoReg}
  PROVE  WRITE(v, cmd.dst[1] + c - 1, core.reg[1], cmd.dtype) \in Body(core, cmd)
<1> DEFINE a == cmd.dst[1] + c - 1
           j == WRITE(v, a, core.reg[1], cmd.dtype)
           w == SelWindow(core, Extent(cmd.r1))
<1>1. w \in Nat /\ Extent(cmd.r1) \in Nat
  BY RangeFacts, WindowFacts
<1>2. /\ cmd.dst[1] \in Nat /\ cmd.dst[2] = cmd.dst[1] + Extent(cmd.dst)
      /\ core.reg[1] \in SReg /\ cmd.dtype \in Dtypes
  BY RangeFacts, CoreFacts
<1>3. c \in 1..w
  OBVIOUS
<1> HIDE DEF w
<1>4. a \in Int
  BY <1>1, <1>2, <1>3
<1>5. j \in Straight
  BY <1>2, <1>4, WriteCode
<1>6. j.op = "WRITE" /\ j.in2 = core.reg[1] /\ j.addr = a
  BY Fields DEF WRITE
<1>7. ASSUME Fits(cmd), NEW q \in Nat, q + w <= Extent(cmd.r1) PROVE Allowed(j, a + q, cmd)
  <2>1. Extent(cmd.dst) = Extent(cmd.r1)
    BY <1>7 DEF Fits
  <2>2. In(a + q, cmd.dst)
    BY <1>1, <1>2, <1>3, <1>7, <2>1 DEF In
  <2> HIDE DEF a, j
  <2> QED BY <1>6, <2>2 DEF Allowed
<1> HIDE DEF a, j
<1>8. OffsetReg(j) = core.reg[1] /\ j.op \in MemOps
  BY <1>6 DEF OffsetReg, MemOps
<1>9. j \in Body(core, cmd)
  BY <1>5, <1>6, <1>7, <1>8 DEF Body, w
<1> QED BY <1>9 DEF j, a

LEMMA BodyOps ==
  ASSUME NEW core, NEW cmd, NEW i \in Straight, i.op \in VecOps \cup ScalarOps
  PROVE  i \in Body(core, cmd)
BY DEF Body, IsMem, MemOps, VecOps, ScalarOps

-----------------------------------------------------------------------------
(* The kernels with loops.                                                 *)

\* A head of settings and a body make a loop.
LEMMA LoopOf ==
  ASSUME NEW core \in Setups, NEW cmd, Ranged(core, cmd), NEW m \in {2, 3},
         NEW s \in Seq(Straight), Len(s) = m, \A j \in 1..m : s[j].op = "MOV",
         s[m - 1] = SET(core.reg[1], 0), s[m] = SET(core.reg[2], Extent(cmd.r1)),
         NEW b \in Seq(Body(core, cmd))
  PROVE  IsLoop((s \o b) \o Iterate(core, cmd, SelWindow(core, Extent(cmd.r1)), m),
                core, cmd, m)
<1> DEFINE w == SelWindow(core, Extent(cmd.r1))
           t == Iterate(core, cmd, w, m)
           p == (s \o b) \o t
<1>1. w \in Nat /\ cmd.dtype \in Dtypes /\ core.reg[1] \in SReg /\ core.reg[2] \in SReg
  BY RangeFacts, WindowFacts, CoreFacts
<1> HIDE DEF w
<1>2. INC(core.reg[1], w, cmd.dtype) \in Legal
  BY <1>1, IncCode DEF Straight
<1>3. JL(core.reg[1], core.reg[2], m, cmd.dtype) \in Legal
  BY <1>1, JumpCode
<1>4. /\ t \in Seq(Legal) /\ Len(t) = 2
      /\ t[1] = INC(core.reg[1], w, cmd.dtype)
      /\ t[2] = JL(core.reg[1], core.reg[2], m, cmd.dtype)
  BY <1>2, <1>3 DEF Iterate
<1> HIDE DEF t
<1>5. s \in Seq(Legal) /\ Body(core, cmd) \subseteq Legal /\ t \in Seq(Legal)
  BY <1>4 DEF Body, Straight
<1>6. /\ p \in Seq(Legal) /\ Len(p) = Len(s) + Len(b) + Len(t)
      /\ \A j \in 1..Len(s) : p[j] = s[j]
      /\ \A j \in (Len(s) + 1)..(Len(s) + Len(b)) : p[j] \in Body(core, cmd)
      /\ \A j \in 1..Len(t) : p[Len(s) + Len(b) + j] = t[j]
  <2>1. p \in Seq(Legal)
    BY <1>5, Surrounded
  <2>2. Len(p) = Len(s) + Len(b) + Len(t)
    BY <1>5, Surrounded
  <2>3. \A j \in 1..Len(s) : p[j] = s[j]
    BY <1>5, Surrounded
  <2>4. \A j \in (Len(s) + 1)..(Len(s) + Len(b)) : p[j] \in Body(core, cmd)
    BY <1>5, Surrounded
  <2>5. \A j \in 1..Len(t) : p[Len(s) + Len(b) + j] = t[j]
    BY <1>5, Surrounded
  <2> QED BY <2>1, <2>2, <2>3, <2>4, <2>5
<1>7. Len(b) \in Nat
  OBVIOUS
<1> HIDE DEF p
<1>8. Len(p) \in Nat /\ Len(p) = m + Len(b) + 2
  BY <1>4, <1>6, <1>7
<1>9. \A j \in 1..m : p[j] \in Straight /\ p[j].op = "MOV"
  BY <1>6
<1>10. p[m - 1] = SET(core.reg[1], 0) /\ p[m] = SET(core.reg[2], Extent(cmd.r1))
  BY <1>6
<1>11. \A j \in (m + 1)..(Len(p) - 2) : p[j] \in Body(core, cmd)
  BY <1>6, <1>7, <1>8
<1>12. /\ p[Len(p) - 1] = INC(core.reg[1], w, cmd.dtype)
       /\ p[Len(p)] = JL(core.reg[1], core.reg[2], m, cmd.dtype)
  <2>1. Len(p) - 1 = Len(s) + Len(b) + 1 /\ Len(p) = Len(s) + Len(b) + 2
    BY <1>7, <1>8
  <2>2. 1 \in 1..Len(t) /\ 2 \in 1..Len(t)
    BY <1>4
  <2> QED BY <1>4, <1>6, <2>1, <2>2
<1>13. IsLoop(p, core, cmd, m)
  BY <1>6, <1>7, <1>8, <1>9, <1>10, <1>11, <1>12 DEF IsLoop, w
<1> QED BY <1>13 DEF p, t, w

\* A body has three parts, a loop without its end four.  Chain and StraightCode name
\* concatenation and its type, so that regrouping is a matter of two opaque operators.
Three(i, j, k) == (i \o j) \o k
Four(h, i, j, k) == ((h \o i) \o j) \o k

StraightCode(s) == s \in Seq(Straight)
Chain(s, t) == s \o t

LEMMA Chained ==
  ASSUME NEW f, StraightCode(f), NEW g, StraightCode(g), NEW e, StraightCode(e)
  PROVE  Chain(Chain(f, g), e) = Chain(f, Chain(g, e)) /\ StraightCode(Chain(f, g))
<1>1. f \in Seq(Straight) /\ g \in Seq(Straight) /\ e \in Seq(Straight)
  BY DEF StraightCode
<1> QED BY <1>1, ConcatAssociative, SMTT(60) DEF StraightCode, Chain

LEMMA Regrouped ==
  ASSUME NEW h, StraightCode(h), NEW i, StraightCode(i), NEW j, StraightCode(j),
         NEW k, StraightCode(k)
  PROVE  Four(h, i, j, k) = h \o Three(i, j, k)
<1>1. Chain(Chain(h, i), j) = Chain(h, Chain(i, j))
  BY Chained
<1>2. StraightCode(Chain(i, j))
  BY Chained
<1>3. Chain(Chain(h, Chain(i, j)), k) = Chain(h, Chain(Chain(i, j), k))
  BY <1>2, Chained
<1> QED BY <1>1, <1>3 DEF Three, Four, Chain

LEMMA LoopParts ==
  ASSUME NEW core \in Setups, NEW cmd, Ranged(core, cmd), NEW m \in {2, 3},
         NEW s \in Seq(Straight), Len(s) = m, \A j \in 1..m : s[j].op = "MOV",
         s[m - 1] = SET(core.reg[1], 0), s[m] = SET(core.reg[2], Extent(cmd.r1)),
         NEW B, B = Body(core, cmd),
         NEW r \in Seq(B), NEW o \in Seq(B), NEW x \in Seq(B)
  PROVE  IsLoop(Four(s, r, o, x)
                  \o Iterate(core, cmd, SelWindow(core, Extent(cmd.r1)), m), core, cmd, m)
<1>1. B \subseteq Straight
  BY DEF Body
<1>2. StraightCode(s) /\ StraightCode(r) /\ StraightCode(o) /\ StraightCode(x)
  BY <1>1 DEF StraightCode
<1>3. Four(s, r, o, x) = s \o Three(r, o, x)
  BY <1>2, Regrouped
<1>4. Three(r, o, x) \in Seq(B)
  BY Glued DEF Three
<1>5. IsLoop((s \o Three(r, o, x))
               \o Iterate(core, cmd, SelWindow(core, Extent(cmd.r1)), m), core, cmd, m)
  BY <1>4, LoopOf
<1> QED BY <1>3, <1>5

\* The windows of a loop.
LEMMA WindowBody ==
  ASSUME NEW core \in Setups, NEW cmd, Ranged(core, cmd)
  PROVE  LET w == SelWindow(core, Extent(cmd.r1)) IN
         /\ Reads(core, cmd, w) \in Seq(Body(core, cmd))
         /\ cmd.type \notin DOMAIN Fold => Writes(core, cmd, w) \in Seq(Body(core, cmd))
<1> DEFINE w == SelWindow(core, Extent(cmd.r1))
<1>1. w \in Nat /\ w <= Len(core.vec)
  BY RangeFacts, WindowFacts
<1>2. \A c \in 1..w : core.vec[c] \in VReg
  BY <1>1, CoreFacts
<1>3. \A c \in 1..w : READ(cmd.r1[1] + c - 1, core.reg[1], core.vec[c], cmd.dtype)
                        \in Body(core, cmd)
  BY <1>2, BodyReads
<1>4. cmd.type \notin DOMAIN Fold =>
        \A c \in 1..w : WRITE(core.vec[c], cmd.dst[1] + c - 1, core.reg[1], cmd.dtype)
                          \in Body(core, cmd)
  BY <1>2, BodyWrites
<1> HIDE DEF w
<1>5. Reads(core, cmd, w) \in [1..w -> Body(core, cmd)]
  BY <1>3 DEF Reads
<1>6. cmd.type \notin DOMAIN Fold => Writes(core, cmd, w) \in [1..w -> Body(core, cmd)]
  BY <1>4 DEF Writes
<1>7. /\ Reads(core, cmd, w) \in Seq(Body(core, cmd))
      /\ cmd.type \notin DOMAIN Fold => Writes(core, cmd, w) \in Seq(Body(core, cmd))
  BY <1>1, <1>5, <1>6, Listed
<1> QED BY <1>7 DEF w

LEMMA VecVecLoop ==
  ASSUME NEW core \in Setups, NEW cmd, Ranged(core, cmd), cmd.type \in DOMAIN VecVec,
         NEW op \in VecOps
  PROVE  IsLoop(VecVecKernel(core, cmd, op), core, cmd, 2)
<1> DEFINE len == Extent(cmd.r1)
           w == SelWindow(core, len)
           B == Body(core, cmd)
           h == <<SET(core.reg[1], 0), SET(core.reg[2], len)>>
           Operate(k) == LET c == (k + 1) \div 2 IN
             IF k % 2 = 1
               THEN READ(cmd.r2[1] + c - 1, core.reg[1], NoReg, cmd.dtype)
               ELSE Untimed(ARITH(op, core.vec[c], Gdl, NoReg, cmd.dtype))
           ops == [k \in 1..(2 * w) |-> Operate(k)]
           R == Reads(core, cmd, w)
           W == Writes(core, cmd, w)
           t == Iterate(core, cmd, w, 2)
<1>1. /\ w \in Nat /\ w <= Len(core.vec) /\ w <= len /\ len \in Nat
      /\ core.reg[1] \in SReg /\ core.reg[2] \in SReg /\ cmd.dtype \in Dtypes
  BY RangeFacts, WindowFacts, CoreFacts
<1>2. Least(w, len) = w
  BY <1>1 DEF Least
<1>3. VecVecKernel(core, cmd, op) = (((h \o R) \o ops) \o W) \o t
  BY <1>2 DEF VecVecKernel
<1>4. cmd.type \notin DOMAIN Fold
  BY DEF VecVec, Fold
<1>5. R \in Seq(B) /\ W \in Seq(B)
  BY <1>4, WindowBody
<1>6. ASSUME NEW k \in 1..(2 * w) PROVE Operate(k) \in B
  <2> DEFINE c == (k + 1) \div 2
  <2>1. c \in 1..w
    BY <1>1
  <2> HIDE DEF c
  <2>2. READ(cmd.r2[1] + c - 1, core.reg[1], NoReg, cmd.dtype) \in B
    BY <2>1, BodyReads
  <2>3. core.vec[c] \in VReg
    BY <1>1, <2>1, CoreFacts
  <2> DEFINE j == Untimed(ARITH(op, core.vec[c], Gdl, NoReg, cmd.dtype))
  <2>4. j \in Straight /\ j.op = op
    BY <1>1, <2>3, ArithCode, RegNames
  <2> HIDE DEF j
  <2>5. j \in B
    BY <2>4, BodyOps
  <2> QED BY <2>2, <2>5 DEF j, c
<1>7. ops \in Seq(B)
  <2> HIDE DEF Operate, B
  <2>1. ops \in [1..(2 * w) -> B]
    BY <1>6
  <2> HIDE DEF ops
  <2>2. 2 * w \in Nat
    BY <1>1
  <2> QED BY <2>1, <2>2, Listed
<1>8. SET(core.reg[1], 0) \in Straight /\ SET(core.reg[2], len) \in Straight
  BY <1>1, SetCode
<1>9. \A r, n : SET(r, n).op = "MOV"
  BY Fields DEF SET
<1>10. /\ h \in Seq(Straight) /\ Len(h) = 2
       /\ h[1] = SET(core.reg[1], 0) /\ h[2] = SET(core.reg[2], len)
  BY <1>8
<1>11. \A j \in 1..2 : h[j].op = "MOV"
  BY <1>9, <1>10
<1> HIDE DEF ops, R, W, h
<1>12. IsLoop(Four(h, R, ops, W) \o Iterate(core, cmd, SelWindow(core, Extent(cmd.r1)), 2),
              core, cmd, 2)
  <2>1. /\ 2 \in {2, 3} /\ h \in Seq(Straight) /\ Len(h) = 2
        /\ \A j \in 1..2 : h[j].op = "MOV"
        /\ h[2 - 1] = SET(core.reg[1], 0) /\ h[2] = SET(core.reg[2], Extent(cmd.r1))
    BY <1>10, <1>11
  <2> QED BY <1>5, <1>7, <2>1, LoopParts
<1> QED BY <1>3, <1>12 DEF Four

LEMMA VecScalarLoop ==
  ASSUME NEW core \in Setups, NEW cmd, Ranged(core, cmd), cmd.type \notin DOMAIN Fold,
         NEW op \in ScalarOps
  PROVE  IsLoop(VecScalarKernel(core, cmd, op), core, cmd, 3)
<1> DEFINE len == Extent(cmd.r1)
           w == SelWindow(core, len)
           B == Body(core, cmd)
           h == <<SET(core.reg[3], cmd.scalar), SET(core.reg[1], 0), SET(core.reg[2], len)>>
           Operate(c) == ARITH(op, core.vec[c], core.reg[3], NoReg, cmd.dtype)
           ops == [c \in 1..w |-> Operate(c)]
           R == Reads(core, cmd, w)
           W == Writes(core, cmd, w)
           t == Iterate(core, cmd, w, 3)
<1>1. /\ w \in Nat /\ w <= Len(core.vec) /\ w <= len /\ len \in Nat /\ cmd.scalar \in Nat
      /\ core.reg[1] \in SReg /\ core.reg[2] \in SReg /\ core.reg[3] \in SReg
      /\ cmd.dtype \in Dtypes
  BY RangeFacts, WindowFacts, CoreFacts
<1>2. Least(w, len) = w
  BY <1>1 DEF Least
<1>3. VecScalarKernel(core, cmd, op) = (((h \o R) \o ops) \o W) \o t
  BY <1>2 DEF VecScalarKernel
<1>4. R \in Seq(B) /\ W \in Seq(B)
  BY WindowBody
<1>5. ASSUME NEW c \in 1..w PROVE Operate(c) \in B
  <2>1. core.vec[c] \in VReg
    BY <1>1, CoreFacts
  <2> DEFINE j == ARITH(op, core.vec[c], core.reg[3], NoReg, cmd.dtype)
  <2>2. core.reg[3] \in SReg /\ cmd.dtype \in Dtypes
    BY <1>1
  <2>3. j \in Straight /\ j.op = op
    <3>1. j \in Straight
      BY <2>1, <2>2, ScalarArithCode
    <3>2. j.op = op
      BY Fields DEF ARITH
    <3> QED BY <3>1, <3>2
  <2> HIDE DEF j
  <2>4. j \in B
    BY <2>3, BodyOps
  <2> QED BY <2>4 DEF j
<1>6. ops \in Seq(B)
  <2> HIDE DEF Operate, B
  <2>1. ops \in [1..w -> B]
    BY <1>5
  <2> HIDE DEF ops
  <2> QED BY <1>1, <2>1, Listed
<1>7. /\ SET(core.reg[1], 0) \in Straight /\ SET(core.reg[2], len) \in Straight
      /\ SET(core.reg[3], cmd.scalar) \in Straight
  BY <1>1, SetCode
<1>8. \A r, n : SET(r, n).op = "MOV"
  BY Fields DEF SET
<1>9. /\ h \in Seq(Straight) /\ Len(h) = 3 /\ h[1] = SET(core.reg[3], cmd.scalar)
       /\ h[2] = SET(core.reg[1], 0) /\ h[3] = SET(core.reg[2], len)
  BY <1>7
<1>10. \A j \in 1..3 : h[j].op = "MOV"
  BY <1>8, <1>9
<1> HIDE DEF ops, R, W, h
<1>11. IsLoop(Four(h, R, ops, W) \o Iterate(core, cmd, SelWindow(core, Extent(cmd.r1)), 3),
              core, cmd, 3)
  <2>1. /\ 3 \in {2, 3} /\ h \in Seq(Straight) /\ Len(h) = 3
        /\ h[3 - 1] = SET(core.reg[1], 0) /\ h[3] = SET(core.reg[2], Extent(cmd.r1))
    BY <1>9
  <2> HIDE DEF B
  <2>2. B = Body(core, cmd)
    BY DEF B
  <2> QED BY <1>4, <1>6, <1>10, <2>1, <2>2, LoopParts
<1> QED BY <1>3, <1>11 DEF Four

-----------------------------------------------------------------------------
(* The kernel of reductions.                                               *)

\* Its instructions; those that are left open are operations on vector
\* registers, and the last one puts the result into a scalar register.
IsFold(p, core, cmd) ==
  LET len == Extent(cmd.r1)
      n == Len(p)
      a == cmd.r1[1]
      other == {i \in Straight : i.op \in VecOps \cup Ignored}
  IN  /\ p \in Seq(Legal) /\ n = IF len % 2 = 0 THEN 13 ELSE 11
      /\ p[1] = READ(a, NoReg, core.vec[1], Int32)
      /\ p[2] = SET(core.reg[2], 1) /\ p[3] = SET(core.reg[3], ((len - 1) \div 2) * 2)
      /\ p[4] = READ(a, core.reg[2], core.vec[2], cmd.dtype) /\ p[5] \in other
      /\ p[6] = INC(core.reg[2], 1, cmd.dtype)
      /\ p[7] = READ(a, core.reg[2], core.vec[3], cmd.dtype) /\ p[8] \in other
      /\ p[9] = INC(core.reg[2], 1, Int32)
      /\ p[10] = JL(core.reg[2], core.reg[3], 3, Int32)
      /\ len % 2 = 0 => /\ p[11] = READ(a, core.reg[2], core.vec[3], cmd.dtype)
                        /\ p[12] \in other
      /\ p[n] \in Straight /\ p[n].op \in RedOps

\* Instructions behind others.
One(s, a) == s \o <<a>>
Two(s, a, b) == s \o <<a, b>>

LEMMA OneMore ==
  ASSUME NEW S, NEW s \in Seq(S), NEW a \in S
  PROVE  /\ One(s, a) \in Seq(S) /\ Len(One(s, a)) = Len(s) + 1
         /\ \A j \in 1..Len(s) : One(s, a)[j] = s[j]
         /\ One(s, a)[Len(s) + 1] = a
  BY DEF One
LEMMA TwoMore ==
  ASSUME NEW S, NEW s \in Seq(S), NEW a \in S, NEW b \in S
  PROVE  /\ Two(s, a, b) \in Seq(S) /\ Len(Two(s, a, b)) = Len(s) + 2
         /\ \A j \in 1..Len(s) : Two(s, a, b)[j] = s[j]
         /\ Two(s, a, b)[Len(s) + 1] = a /\ Two(s, a, b)[Len(s) + 2] = b
  BY DEF Two

LEMMA TenLong ==
  ASSUME NEW S, NEW a \in S, NEW b \in S, NEW c \in S, NEW d \in S, NEW e \in S,
         NEW f \in S, NEW g \in S, NEW h \in S, NEW i \in S, NEW j \in S
  PROVE  LET p == ((((<<a, b, c>> \o <<d, e>>) \o <<f>>) \o <<g, h>>) \o <<i>>) \o <<j>> IN
         /\ p \in Seq(S) /\ Len(p) = 10
         /\ p[1] = a /\ p[2] = b /\ p[3] = c /\ p[4] = d /\ p[5] = e
         /\ p[6] = f /\ p[7] = g /\ p[8] = h /\ p[9] = i /\ p[10] = j
<1> DEFINE q3 == <<a, b, c>>
           q5 == Two(q3, d, e)
           q6 == One(q5, f)
           q8 == Two(q6, g, h)
           q9 == One(q8, i)
           p == One(q9, j)
<1>1. q3 \in Seq(S) /\ Len(q3) = 3 /\ q3[1] = a /\ q3[2] = b /\ q3[3] = c
  OBVIOUS
<1> HIDE DEF q3
<1>2. /\ q5 \in Seq(S) /\ Len(q5) = 5
      /\ q5[1] = a /\ q5[2] = b /\ q5[3] = c /\ q5[4] = d /\ q5[5] = e
  <2>1. q3 \in Seq(S)
    BY <1>1
  <2>2. /\ q5 \in Seq(S) /\ Len(q5) = Len(q3) + 2
        /\ \A k \in 1..Len(q3) : q5[k] = q3[k]
        /\ q5[Len(q3) + 1] = d /\ q5[Len(q3) + 2] = e
    BY <2>1, TwoMore
  <2> HIDE DEF q5
  <2> QED BY <1>1, <2>2
<1> HIDE DEF q5
<1>3. /\ q6 \in Seq(S) /\ Len(q6) = 6
      /\ q6[1] = a /\ q6[2] = b /\ q6[3] = c /\ q6[4] = d /\ q6[5] = e
      /\ q6[6] = f
  <2>1. q5 \in Seq(S)
    BY <1>2
  <2>2. /\ q6 \in Seq(S) /\ Len(q6) = Len(q5) + 1
        /\ \A k \in 1..Len(q5) : q6[k] = q5[k]
        /\ q6[Len(q5) + 1] = f
    BY <2>1, OneMore
  <2> HIDE DEF q6
  <2> QED BY <1>2, <2>2
<1> HIDE DEF q6
<1>4. /\ q8 \in Seq(S) /\ Len(q8) = 8
      /\ q8[1] = a /\ q8[2] = b /\ q8[3] = c /\ q8[4] = d /\ q8[5] = e
      /\ q8[6] = f /\ q8[7] = g /\ q8[8] = h
  <2>1. q6 \in Seq(S)
    BY <1>3
  <2>2. /\ q8 \in Seq(S) /\ Len(q8) = Len(q6) + 2
        /\ \A k \in 1..Len(q6) : q8[k] = q6[k]
        /\ q8[Len(q6) + 1] = g /\ q8[Len(q6) + 2] = h
    BY <2>1, TwoMore
  <2> HIDE DEF q8
  <2> QED BY <1>3, <2>2
<1> HIDE DEF q8
<1>5. /\ q9 \in Seq(S) /\ Len(q9) = 9
      /\ q9[1] = a /\ q9[2] = b /\ q9[3] = c /\ q9[4] = d /\ q9[5] = e
      /\ q9[6] = f /\ q9[7] = g /\ q9[8] = h /\ q9[9] = i
  <2>1. q8 \in Seq(S)
    BY <1>4
  <2>2. /\ q9 \in Seq(S) /\ Len(q9) = Len(q8) + 1
        /\ \A k \in 1..Len(q8) : q9[k] = q8[k]
        /\ q9[Len(q8) + 1] = i
    BY <2>1, OneMore
  <2> HIDE DEF q9
  <2> QED BY <1>4, <2>2
<1> HIDE DEF q9
<1>6. /\ p \in Seq(S) /\ Len(p) = 10
      /\ p[1] = a /\ p[2] = b /\ p[3] = c /\ p[4] = d /\ p[5] = e
      /\ p[6] = f /\ p[7] = g /\ p[8] = h /\ p[9] = i /\ p[10] = j
  <2>1. q9 \in Seq(S)
    BY <1>5
  <2>2. /\ p \in Seq(S) /\ Len(p) = Len(q9) + 1
        /\ \A k \in 1..Len(q9) : p[k] = q9[k]
        /\ p[Len(q9) + 1] = j
    BY <2>1, OneMore
  <2> HIDE DEF p
  <2> QED BY <1>5, <2>2
<1> QED BY <1>6 DEF p, q9, q8, q6, q5, q3, One, Two

LEMMA RedLoop ==
  ASSUME NEW core \in Setups, NEW cmd, Ranged(core, cmd), Len(core.vec) >= 3,
         NEW op \in VecOps \cup Ignored, NEW final \in RedOps
  PROVE  IsFold(RedKernel(core, cmd, op, final), core, cmd)
<1> DEFINE len == Extent(cmd.r1)
           a == cmd.r1[1]
           other == {i \in Straight : i.op \in VecOps \cup Ignored}
           limit == ((len - 1) \div 2) * 2
           i1 == READ(a, NoReg, core.vec[1], Int32)
           i2 == SET(core.reg[2], 1)
           i3 == SET(core.reg[3], limit)
           i4 == READ(a, core.reg[2], core.vec[2], cmd.dtype)
           i5 == ARITH(op, core.vec[1], core.vec[2], core.vec[1], cmd.dtype)
           i6 == INC(core.reg[2], 1, cmd.dtype)
           i7 == READ(a, core.reg[2], core.vec[3], cmd.dtype)
           i8 == ARITH(op, core.vec[1], core.vec[3], core.vec[1], cmd.dtype)
           i9 == INC(core.reg[2], 1, Int32)
           i10 == JL(core.reg[2], core.reg[3], 3, Int32)
           last == ARITH(final, core.reg[1], core.vec[1], core.reg[1], Int32)
           q == ((((<<i1, i2, i3>> \o <<i4, i5>>) \o <<i6>>) \o <<i7, i8>>) \o <<i9>>) \o <<i10>>
           rest == IF len % 2 = 0 THEN <<i7, i8>> ELSE <<>>
           p == (q \o rest) \o <<last>>
<1>1. RedKernel(core, cmd, op, final) = p
  BY DEF RedKernel, FoldNext
<1>2. /\ len \in Nat \ {0} /\ a \in Nat /\ cmd.dtype \in Dtypes /\ Int32 \in Dtypes
      /\ core.reg[1] \in SReg /\ core.reg[2] \in SReg /\ core.reg[3] \in SReg
  BY RangeFacts, CoreFacts DEF Dtypes
<1>3. core.vec[1] \in VReg /\ core.vec[2] \in VReg /\ core.vec[3] \in VReg
  BY CoreFacts
<1>4. limit \in Nat
  BY <1>2
<1> HIDE DEF len, limit, a
<1>5. /\ core.reg[1] \in SReg \cup {NoReg} /\ core.reg[2] \in SReg \cup {NoReg}
      /\ NoReg \in SReg \cup {NoReg} /\ a \in Int
      /\ core.vec[1] \in VReg \cup {NoReg} /\ core.vec[2] \in VReg \cup {NoReg}
      /\ core.vec[3] \in VReg \cup {NoReg}
      /\ core.vec[1] \in Vector /\ core.vec[2] \in Vector /\ core.vec[3] \in Vector
  BY <1>2, <1>3, RegNames
<1>6. i1 \in Straight
  BY <1>2, <1>5, ReadCode
<1>7. i4 \in Straight
  BY <1>2, <1>5, ReadCode
<1>8. i7 \in Straight
  BY <1>2, <1>5, ReadCode
<1>9. i2 \in Straight
  BY <1>2, SetCode
<1>10. i3 \in Straight
  BY <1>2, <1>4, SetCode
<1>11. i6 \in Straight
  BY <1>2, IncCode
<1>12. i9 \in Straight
  BY <1>2, IncCode
<1>13. i10 \in Legal
  BY <1>2, JumpCode
<1>14. i5 \in Straight
  BY <1>2, <1>3, <1>5, ArithCode
<1>15. i8 \in Straight
  BY <1>2, <1>3, <1>5, ArithCode
<1>16. last \in Straight
  BY <1>2, <1>3, <1>5, FoldCode
<1>17. i5.op = op /\ i8.op = op /\ last.op = final
  BY Fields DEF ARITH
<1> HIDE DEF i1, i2, i3, i4, i5, i6, i7, i8, i9, i10, last
<1>18. i5 \in other /\ i8 \in other /\ last \in Straight /\ last.op \in RedOps
  BY <1>14, <1>15, <1>16, <1>17
<1>19. /\ i1 \in Legal /\ i2 \in Legal /\ i3 \in Legal /\ i4 \in Legal /\ i5 \in Legal
       /\ i6 \in Legal /\ i7 \in Legal /\ i8 \in Legal /\ i9 \in Legal /\ i10 \in Legal
       /\ last \in Legal
  BY <1>6, <1>7, <1>8, <1>9, <1>10, <1>11, <1>12, <1>13, <1>14, <1>15, <1>16 DEF Straight
<1>20. /\ q \in Seq(Legal) /\ Len(q) = 10
       /\ q[1] = i1 /\ q[2] = i2 /\ q[3] = i3 /\ q[4] = i4 /\ q[5] = i5
       /\ q[6] = i6 /\ q[7] = i7 /\ q[8] = i8 /\ q[9] = i9 /\ q[10] = i10
  BY <1>19, TenLong
<1> HIDE DEF q, other
<1> DEFINE r == q \o rest
<1>21. /\ r \in Seq(Legal) /\ Len(r) = IF len % 2 = 0 THEN 12 ELSE 10
       /\ \A j \in 1..10 : r[j] = q[j]
       /\ len % 2 = 0 => r[11] = i7 /\ r[12] = i8
  <2>1. CASE len % 2 = 0
    <3>1. r = Two(q, i7, i8)
      BY <2>1 DEF Two
    <3>2. q \in Seq(Legal) /\ i7 \in Legal /\ i8 \in Legal
      BY <1>19, <1>20
    <3>3. /\ Two(q, i7, i8) \in Seq(Legal) /\ Len(Two(q, i7, i8)) = Len(q) + 2
          /\ \A j \in 1..Len(q) : Two(q, i7, i8)[j] = q[j]
          /\ Two(q, i7, i8)[Len(q) + 1] = i7 /\ Two(q, i7, i8)[Len(q) + 2] = i8
      BY <3>2, TwoMore
    <3> HIDE DEF r
    <3> QED BY <1>20, <2>1, <3>1, <3>3
  <2>2. CASE len % 2 # 0
    <3>1. r = q \o <<>>
      BY <2>2
    <3>2. r = q
      BY <1>20, <3>1, ConcatEmptySeq
    <3> HIDE DEF r
    <3> QED BY <1>20, <2>2, <3>2
  <2> QED BY <2>1, <2>2
<1>22. p = One(r, last)
  BY DEF One
<1> HIDE DEF r, p
<1>23. /\ p \in Seq(Legal) /\ Len(p) = IF len % 2 = 0 THEN 13 ELSE 11
       /\ \A j \in 1..10 : p[j] = q[j]
       /\ len % 2 = 0 => p[11] = i7 /\ p[12] = i8
       /\ p[Len(p)] = last
  <2>1. r \in Seq(Legal) /\ last \in Legal
    BY <1>19, <1>21
  <2>2. /\ One(r, last) \in Seq(Legal) /\ Len(One(r, last)) = Len(r) + 1
        /\ \A j \in 1..Len(r) : One(r, last)[j] = r[j]
        /\ One(r, last)[Len(r) + 1] = last
    BY <2>1, OneMore
  <2>3. /\ p \in Seq(Legal) /\ Len(p) = Len(r) + 1
        /\ \A j \in 1..Len(r) : p[j] = r[j]
        /\ p[Len(r) + 1] = last
    BY <1>22, <2>2
  <2>4. CASE len % 2 = 0
    <3>1. Len(r) = 12 /\ Len(p) = 13 /\ p[13] = last
      BY <1>21, <2>3, <2>4
    <3>2. p[11] = r[11] /\ p[12] = r[12] /\ \A j \in 1..10 : p[j] = r[j]
      BY <2>3, <3>1
    <3> QED BY <1>21, <2>3, <2>4, <3>1, <3>2
  <2>5. CASE len % 2 # 0
    BY <1>21, <2>3, <2>5
  <2> QED BY <2>4, <2>5
<1>24. IsFold(p, core, cmd)
  <2>1. /\ p[1] = i1 /\ p[2] = i2 /\ p[3] = i3 /\ p[4] = i4 /\ p[5] = i5
        /\ p[6] = i6 /\ p[7] = i7 /\ p[8] = i8 /\ p[9] = i9 /\ p[10] = i10
    BY <1>20, <1>23
  <2> QED BY <1>18, <1>23, <2>1
          DEF IsFold, other, len, limit, a, i1, i2, i3, i4, i6, i7, i9, i10
<1> QED BY <1>1, <1>24

-----------------------------------------------------------------------------
(* The kernels that are streamed.                                          *)

\* Instructions without a register in their address: the chunk they access is
\* one the command names.
Direct(cmd) ==
  {i \in Straight :
     IsMem(i) => OffsetReg(i) = NoReg /\ (Fits(cmd) => Allowed(i, i.addr, cmd))}

LEMMA DirectRead ==
  ASSUME NEW core \in Setups, NEW cmd, Ranged(core, cmd), NEW r \in {cmd.r1, cmd.r2},
         r = cmd.r1 \/ cmd.type \in DOMAIN VecVec,
         NEW a \in Int, r[1] <= a, a < r[1] + Extent(cmd.r1),
         NEW v \in VReg \cup {NoReg}, NEW dtype \in Dtypes
  PROVE  READ(a, NoReg, v, dtype) \in Direct(cmd)
<1> DEFINE j == READ(a, NoReg, v, dtype)
<1>1. Extent(cmd.r1) \in Nat /\ r[1] \in Nat /\ r[2] = r[1] + Extent(r)
  BY RangeFacts
<1>2. j \in Straight
  BY ReadCode
<1>3. j.op = "READ" /\ j.in1 = NoReg /\ j.addr = a
  BY Fields DEF READ
<1> HIDE DEF j
<1>4. ASSUME Fits(cmd) PROVE Allowed(j, a, cmd)
  <2>1. Extent(r) = Extent(cmd.r1)
    BY <1>4 DEF Fits
  <2>2. In(a, r)
    BY <1>1, <2>1 DEF In
  <2> QED BY <1>3, <2>2 DEF Allowed
<1>5. OffsetReg(j) = NoReg
  BY <1>3 DEF OffsetReg
<1>6. j \in Direct(cmd)
  BY <1>2, <1>3, <1>4, <1>5 DEF Direct
<1> QED BY <1>6 DEF j

LEMMA DirectWrite ==
  ASSUME NEW core \in Setups, NEW cmd, Ranged(core, cmd), cmd.type \notin DOMAIN Fold,
         NEW a \in Int, cmd.dst[1] <= a, a < cmd.dst[1] + Extent(cmd.r1),
         NEW v \in VReg \cup {NoReg}, NEW dtype \in Dtypes
  PROVE  WRITE(v, a, NoReg, dtype) \in Direct(cmd)
<1> DEFINE j == WRITE(v, a, NoReg, dtype)
<1>1. /\ Extent(cmd.r1) \in Nat /\ cmd.dst[1] \in Nat
      /\ cmd.dst[2] = cmd.dst[1] + Extent(cmd.dst)
  BY RangeFacts
<1>2. j \in Straight
  BY WriteCode
<1>3. j.op = "WRITE" /\ j.in2 = NoReg /\ j.addr = a
  BY Fields DEF WRITE
<1> HIDE DEF j
<1>4. ASSUME Fits(cmd) PROVE Allowed(j, a, cmd)
  <2>1. Extent(cmd.dst) = Extent(cmd.r1)
    BY <1>4 DEF Fits
  <2>2. In(a, cmd.dst)
    BY <1>1, <2>1 DEF In
  <2> QED BY <1>3, <2>2 DEF Allowed
<1>5. OffsetReg(j) = NoReg
  BY <1>3 DEF OffsetReg
<1>6. j \in Direct(cmd)
  BY <1>2, <1>3, <1>4, <1>5 DEF Direct
<1> QED BY <1>6 DEF j

LEMMA DirectOps ==
  ASSUME NEW cmd, NEW i \in Straight, i.op \notin MemOps
  PROVE  i \in Direct(cmd)
  BY DEF Direct, IsMem

\* An operation, or NOPs in its place.
LEMMA MaskedCode ==
  ASSUME NEW cmd, NEW op, NEW d \in BOOLEAN, NEW i \in Straight, i.op \notin MemOps
  PROVE  Masked(op, d, i) \in Seq(Direct(cmd))
<1> DEFINE D == Direct(cmd)
           nops == [k \in 1..Timing(op) |-> NOP]
<1>1. i \in D
  BY DirectOps
<1>2. NOP \in D
  <2>1. NOP \in Straight /\ NOP.op \notin MemOps
    BY NopCode DEF MemOps
  <2> QED BY <2>1, DirectOps
<1> HIDE DEF D
<1>3. Timing(op) \in Nat
  BY DEF Timing
<1>4. nops \in [1..Timing(op) -> D]
  BY <1>2
<1> HIDE DEF nops
<1>5. nops \in Seq(D)
  BY <1>3, <1>4, Listed
<1>6. <<i>> \in Seq(D)
  BY <1>1
<1>7. Masked(op, d, i) \in Seq(D)
  BY <1>5, <1>6 DEF Masked, nops
<1> QED BY <1>7 DEF D

\* Sequences one behind the other.
IsFlat(g, n, f) == g = [i \in 1..n |-> IF i = 1 THEN f[i] ELSE g[i - 1] \o f[i]]

LEMMA FlatExists ==
  ASSUME NEW f
  PROVE  \A n \in Nat : \E g : IsFlat(g, n, f)
<1> DEFINE T == {n \in Nat : ~ \E g : IsFlat(g, n, f)}
<1> SUFFICES ASSUME T # {} PROVE FALSE
  OBVIOUS
<1>1. PICK n \in T : \A l \in T : n <= l
  <2>1. T \subseteq Nat
    OBVIOUS
  <2> HIDE DEF T
  <2> QED BY <2>1, Tables!NatMin
<1>2. n \in Nat /\ ~ \E g : IsFlat(g, n, f)
  OBVIOUS
<1>3. CASE n = 0
  <2> DEFINE g == [i \in 1..0 |-> f[i]]
  <2>1. g = [i \in 1..0 |-> IF i = 1 THEN f[i] ELSE g[i - 1] \o f[i]]
    OBVIOUS
  <2>2. IsFlat(g, n, f)
    BY <1>3, <2>1 DEF IsFlat
  <2> QED BY <1>2, <2>2
<1>4. CASE n # 0
  <2>1. n - 1 \in Nat /\ ~(n <= n - 1)
    BY <1>2, <1>4
  <2>2. n - 1 \notin T
    BY <1>1, <2>1
  <2>3. PICK g : IsFlat(g, n - 1, f)
    BY <2>1, <2>2
  <2> DEFINE h == [i \in 1..n |-> IF i = n THEN IF n = 1 THEN f[n] ELSE g[n - 1] \o f[n]
                                  ELSE g[i]]
  <2>4. \A i \in 1..(n - 1) : g[i] = IF i = 1 THEN f[i] ELSE g[i - 1] \o f[i]
    BY <2>3 DEF IsFlat
  <2>5. ASSUME NEW i \in 1..n
        PROVE  h[i] = IF i = 1 THEN f[i] ELSE h[i - 1] \o f[i]
    <3>1. i = n \/ i \in 1..(n - 1)
      BY <1>2
    <3>2. i # 1 => i - 1 \in 1..n /\ i - 1 # n /\ h[i - 1] = g[i - 1]
      BY <1>2
    <3>3. i = n => h[i] = IF i = 1 THEN f[i] ELSE g[i - 1] \o f[i]
      OBVIOUS
    <3>4. i # n => h[i] = g[i]
      OBVIOUS
    <3> HIDE DEF h
    <3> QED BY <3>1, <3>2, <3>3, <3>4, <2>4
  <2>6. h = [i \in 1..n |-> IF i = 1 THEN f[i] ELSE h[i - 1] \o f[i]]
    <3>1. h = [i \in 1..n |-> h[i]]
      OBVIOUS
    <3> HIDE DEF h
    <3> QED BY <3>1, <2>5
  <2>7. IsFlat(h, n, f)
    <3> HIDE DEF h
    <3> QED BY <2>6 DEF IsFlat
  <2> QED BY <1>2, <2>7
<1> QED BY <1>3, <1>4

LEMMA Flattened ==
  ASSUME NEW S, NEW n \in Nat, NEW f \in [1..n -> Seq(S)]
  PROVE  Seqs!FlattenSeq(f) \in Seq(S)
<1>1. f \in Seq(Seq(S)) /\ Len(f) = n
  OBVIOUS
<1>2. CASE n = 0
  <2>1. f = <<>>
    BY <1>1, <1>2
  <2>2. Seqs!FlattenSeq(f) = f
    BY <1>1, <1>2 DEF Seqs!FlattenSeq
  <2>3. <<>> \in Seq(S)
    OBVIOUS
  <2>4. Seqs!FlattenSeq(f) = <<>>
    BY <2>1, <2>2, Zenon
  <2> QED BY <2>3, <2>4, Zenon
<1>3. CASE n # 0
  <2> DEFINE g == CHOOSE g : IsFlat(g, n, f)
  <2>1. IsFlat(g, n, f)
    BY FlatExists
  <2>2. Seqs!FlattenSeq(f) = g[n]
    BY <1>1, <1>3 DEF Seqs!FlattenSeq, IsFlat
  <2> HIDE DEF g
  <2>3. \A i \in 1..n : g[i] = IF i = 1 THEN f[i] ELSE g[i - 1] \o f[i]
    BY <2>1 DEF IsFlat
  <2> DEFINE T == {i \in 1..n : g[i] \notin Seq(S)}
  <2>4. T = {}
    <3> SUFFICES ASSUME T # {} PROVE FALSE
      OBVIOUS
    <3>1. PICK i \in T : \A j \in T : i <= j
      <4>1. T \subseteq Nat
        OBVIOUS
      <4> HIDE DEF T
      <4> QED BY <4>1, Tables!NatMin
    <3>2. i \in 1..n /\ g[i] \notin Seq(S) /\ f[i] \in Seq(S)
      OBVIOUS
    <3>3. CASE i = 1
      BY <2>3, <3>2, <3>3
    <3>4. CASE i # 1
      <4>1. i - 1 \in 1..n /\ ~(i <= i - 1)
        BY <3>2, <3>4
      <4>2. i - 1 \notin T
        BY <3>1, <4>1
      <4>3. g[i - 1] \in Seq(S)
        BY <4>1, <4>2
      <4>4. g[i - 1] \o f[i] \in Seq(S)
        BY <3>2, <4>3, Glued
      <4> QED BY <2>3, <3>2, <3>4, <4>4
    <3> QED BY <3>3, <3>4
  <2>5. n \in 1..n /\ n \notin T
    BY <1>3, <2>4
  <2> QED BY <2>2, <2>5
<1> QED BY <1>2, <1>3

\* The windows of a length are inside it.
LEMMA WindowsFacts ==
  ASSUME NEW core \in Setups, NEW len \in Nat \ {0}
  PROVE  LET ws == Windows(core, len) IN
         /\ \E n \in Nat : DOMAIN ws = 1..n
         /\ \A n \in DOMAIN ws : /\ ws[n].first \in Nat /\ ws[n].size \in Nat
                                 /\ ws[n].first + ws[n].size <= len
                                 /\ ws[n].size <= Len(core.vec)
<1> DEFINE w == Least(Len(core.vec), core.nCol)
           x == len + w - 1
           m == x \div w
           ws == Windows(core, len)
<1>1. Len(core.vec) \in Nat /\ Len(core.vec) >= 1 /\ core.nCol \in Nat \ {0}
  BY SetupAssumption
<1>2. w \in Nat /\ w > 0 /\ w <= Len(core.vec)
  BY <1>1 DEF Least
<1>3. /\ DOMAIN ws = 1..m
      /\ \A n \in 1..m : ws[n].first = (n - 1) * w /\ ws[n].size = Least(w, len - (n - 1) * w)
  BY DEF Windows
<1> HIDE DEF w, ws
<1>4. x \in Nat /\ x = len + w - 1
  BY <1>2
<1> HIDE DEF x
<1>5. m \in Nat /\ w * m <= x
  BY <1>2, <1>4
<1> HIDE DEF m
<1>6. ASSUME NEW n \in 1..m
      PROVE  /\ ws[n].first \in Nat /\ ws[n].size \in Nat
             /\ ws[n].first + ws[n].size <= len /\ ws[n].size <= Len(core.vec)
  <2> DEFINE f == (n - 1) * w
  <2>1. n - 1 \in Nat /\ n - 1 < m
    BY <1>5
  <2>2. f \in Nat /\ f + w <= m * w /\ m * w \in Nat
    BY <1>2, <1>5, <2>1, Tables!MultiplesApart
  <2>3. m * w = w * m
    BY <1>2, <1>5
  <2>4. ws[n].first = f /\ ws[n].size = Least(w, len - f)
    BY <1>3
  <2> HIDE DEF f
  <2>5. f <= len
    BY <1>2, <1>4, <1>5, <2>2, <2>3
  <2>6. Least(w, len - f) \in Nat /\ Least(w, len - f) <= w /\ f + Least(w, len - f) <= len
    BY <1>2, <2>2, <2>5 DEF Least
  <2>7. Least(w, len - f) <= Len(core.vec)
    BY <1>1, <1>2, <2>6
  <2> QED BY <2>2, <2>4, <2>6, <2>7
<1>7. /\ \E n \in Nat : DOMAIN ws = 1..n
      /\ \A n \in DOMAIN ws : /\ ws[n].first \in Nat /\ ws[n].size \in Nat
                              /\ ws[n].first + ws[n].size <= len
                              /\ ws[n].size <= Len(core.vec)
  BY <1>3, <1>5, <1>6
<1> QED BY <1>7 DEF ws

\* A window: its reads, what is done to its chunks, its writes.
LEMMA WindowCode ==
  ASSUME NEW core \in Setups, NEW cmd, Ranged(core, cmd), cmd.type \notin DOMAIN Fold, NEW data,
         NEW win, win.first \in Nat, win.size \in Nat,
         win.first + win.size <= Extent(cmd.r1), win.size <= Len(core.vec)
  PROVE  /\ StreamedReads(core, cmd, data, win) \in Seq(Direct(cmd))
         /\ StreamedWrites(core, cmd, data, win) \in Seq(Direct(cmd))
<1> DEFINE D == Direct(cmd)
           n == win.size
           R(c) == LET a == cmd.r1[1] + win.first + c - 1 IN
                   READ(a, NoReg, MaskedReg(a \in data, core.vec[c]), cmd.dtype)
           W(c) == LET a == cmd.dst[1] + win.first + c - 1 IN
                   WRITE(MaskedReg(a \in data, core.vec[c]), a, NoReg, cmd.dtype)
<1>1. /\ Extent(cmd.r1) \in Nat /\ cmd.dtype \in Dtypes
      /\ cmd.r1[1] \in Nat /\ cmd.dst[1] \in Nat
  BY RangeFacts
<1>2. ASSUME NEW c \in 1..n, NEW d PROVE MaskedReg(d, core.vec[c]) \in VReg \cup {NoReg}
  BY CoreFacts DEF MaskedReg
<1>3. ASSUME NEW c \in 1..n PROVE R(c) \in D
  <2> DEFINE a == cmd.r1[1] + win.first + c - 1
             v == MaskedReg(a \in data, core.vec[c])
  <2>1. a \in Int /\ cmd.r1[1] <= a /\ a < cmd.r1[1] + Extent(cmd.r1)
    BY <1>1
  <2>2. v \in VReg \cup {NoReg}
    BY <1>2
  <2> HIDE DEF a, v
  <2>3. READ(a, NoReg, v, cmd.dtype) \in D
    BY <1>1, <2>1, <2>2, DirectRead
  <2> QED BY <2>3 DEF a, v
<1>4. ASSUME NEW c \in 1..n PROVE W(c) \in D
  <2> DEFINE a == cmd.dst[1] + win.first + c - 1
             v == MaskedReg(a \in data, core.vec[c])
  <2>1. a \in Int /\ cmd.dst[1] <= a /\ a < cmd.dst[1] + Extent(cmd.r1)
    BY <1>1
  <2>2. v \in VReg \cup {NoReg}
    BY <1>2
  <2> HIDE DEF a, v
  <2>3. WRITE(v, a, NoReg, cmd.dtype) \in D
    BY <1>1, <2>1, <2>2, DirectWrite
  <2> QED BY <2>3 DEF a, v
<1>5. /\ StreamedReads(core, cmd, data, win) = [c \in 1..n |-> R(c)]
      /\ StreamedWrites(core, cmd, data, win) = [c \in 1..n |-> W(c)]
  BY DEF StreamedReads, StreamedWrites
<1> HIDE DEF R, W, D
<1>6. [c \in 1..n |-> R(c)] \in [1..n -> D] /\ [c \in 1..n |-> W(c)] \in [1..n -> D]
  BY <1>3, <1>4
<1>7. /\ StreamedReads(core, cmd, data, win) \in Seq(D)
      /\ StreamedWrites(core, cmd, data, win) \in Seq(D)
  BY <1>5, <1>6, Listed
<1> QED BY <1>7 DEF D

\* Window after window, given what is done to a chunk.
LEMMA StreamOf ==
  ASSUME NEW core \in Setups, NEW cmd, Ranged(core, cmd), cmd.type \notin DOMAIN Fold, NEW data,
         NEW O, \A n \in DOMAIN Windows(core, Extent(cmd.r1)) :
                  \A c \in 1..Windows(core, Extent(cmd.r1))[n].size :
                    O[n][c] \in Seq(Direct(cmd))
  PROVE  LET ws == Windows(core, Extent(cmd.r1)) IN
         Seqs!FlattenSeq([n \in DOMAIN ws |->
           Three(StreamedReads(core, cmd, data, ws[n]),
                 Seqs!FlattenSeq([c \in 1..ws[n].size |-> O[n][c]]),
                 StreamedWrites(core, cmd, data, ws[n]))]) \in Seq(Direct(cmd))
<1> DEFINE D == Direct(cmd)
           ws == Windows(core, Extent(cmd.r1))
           Inner(n) == [c \in 1..ws[n].size |-> O[n][c]]
           Window(n) == Three(StreamedReads(core, cmd, data, ws[n]),
                              Seqs!FlattenSeq(Inner(n)),
                              StreamedWrites(core, cmd, data, ws[n]))
<1>1. /\ \E n \in Nat : DOMAIN ws = 1..n
      /\ \A n \in DOMAIN ws : /\ ws[n].first \in Nat /\ ws[n].size \in Nat
                              /\ ws[n].first + ws[n].size <= Extent(cmd.r1)
                              /\ ws[n].size <= Len(core.vec)
  BY RangeFacts, WindowsFacts
<1>2. PICK m \in Nat : DOMAIN ws = 1..m
  BY <1>1
<1>3. \A n \in DOMAIN ws : \A c \in 1..ws[n].size : O[n][c] \in Seq(D)
  OBVIOUS
<1> HIDE DEF ws
<1>4. ASSUME NEW n \in 1..m PROVE Window(n) \in Seq(D)
  <2>1. n \in DOMAIN ws
    BY <1>2
  <2>2. /\ StreamedReads(core, cmd, data, ws[n]) \in Seq(D)
        /\ StreamedWrites(core, cmd, data, ws[n]) \in Seq(D)
    BY <1>1, <2>1, WindowCode
  <2>3. Inner(n) \in [1..ws[n].size -> Seq(D)] /\ ws[n].size \in Nat
    BY <1>1, <1>3, <2>1
  <2> HIDE DEF Inner, D
  <2>4. Seqs!FlattenSeq(Inner(n)) \in Seq(D)
    BY <2>3, Flattened
  <2> DEFINE F == Seqs!FlattenSeq(Inner(n))
             R == StreamedReads(core, cmd, data, ws[n])
             W == StreamedWrites(core, cmd, data, ws[n])
  <2>5. F \in Seq(D) /\ R \in Seq(D) /\ W \in Seq(D)
    BY <2>2, <2>4
  <2> HIDE DEF F, R, W
  <2>6. Three(R, F, W) \in Seq(D)
    BY <2>5, Glued DEF Three
  <2> QED BY <2>6 DEF F, R, W
<1> HIDE DEF Window, D
<1>5. [n \in DOMAIN ws |-> Window(n)] \in [1..m -> Seq(D)]
  BY <1>2, <1>4
<1>6. Seqs!FlattenSeq([n \in DOMAIN ws |-> Window(n)]) \in Seq(D)
  BY <1>5, Flattened
<1> QED BY <1>6 DEF Window, Inner, D, ws

LEMMA VecVecStream ==
  ASSUME NEW core \in Setups, NEW cmd, Ranged(core, cmd), cmd.type \in DOMAIN VecVec,
         NEW op \in VecOps, NEW data
  PROVE  StreamedVecVecKernel(core, cmd, op, data) \in Seq(Direct(cmd))
<1> DEFINE D == Direct(cmd)
           ws == Windows(core, Extent(cmd.r1))
           Operate(window, c) ==
             LET a == cmd.r2[1] + window.first + c - 1 IN
             <<READ(a, NoReg, NoReg, cmd.dtype)>>
             \o Masked(op, a \in data, Untimed(ARITH(op, core.vec[c], Gdl, NoReg, cmd.dtype)))
           O == [n \in DOMAIN ws |-> [c \in 1..ws[n].size |-> Operate(ws[n], c)]]
<1>1. \A n \in DOMAIN ws : /\ ws[n].first \in Nat /\ ws[n].size \in Nat
                           /\ ws[n].first + ws[n].size <= Extent(cmd.r1)
                           /\ ws[n].size <= Len(core.vec)
  BY RangeFacts, WindowsFacts
<1>2. Extent(cmd.r1) \in Nat /\ cmd.dtype \in Dtypes /\ cmd.r2[1] \in Nat
  BY RangeFacts
<1>3. cmd.type \notin DOMAIN Fold
  BY DEF VecVec, Fold
<1>4. StreamedVecVecKernel(core, cmd, op, data) =
        Seqs!FlattenSeq([n \in DOMAIN ws |->
          Three(StreamedReads(core, cmd, data, ws[n]),
                Seqs!FlattenSeq([c \in 1..ws[n].size |-> Operate(ws[n], c)]),
                StreamedWrites(core, cmd, data, ws[n]))])
  BY DEF StreamedVecVecKernel, Three
<1> HIDE DEF ws
<1>5. ASSUME NEW n \in DOMAIN ws, NEW c \in 1..ws[n].size PROVE Operate(ws[n], c) \in Seq(D)
  <2> DEFINE a == cmd.r2[1] + ws[n].first + c - 1
             r == READ(a, NoReg, NoReg, cmd.dtype)
             j == Untimed(ARITH(op, core.vec[c], Gdl, NoReg, cmd.dtype))
             isData == a \in data
             rest == Masked(op, isData, j)
  <2>1. a \in Int /\ cmd.r2[1] <= a /\ a < cmd.r2[1] + Extent(cmd.r1)
    BY <1>1, <1>2
  <2>2. core.vec[c] \in VReg
    BY <1>1, CoreFacts
  <2>3. j \in Straight /\ j.op = op
    BY <1>2, <2>2, ArithCode, RegNames
  <2> HIDE DEF a, j
  <2>4. r \in D
    BY <1>2, <2>1, DirectRead
  <2>5. isData \in BOOLEAN
    OBVIOUS
  <2> HIDE DEF D, isData
  <2>6. rest \in Seq(D)
    <3>1. j.op \notin MemOps
      BY <2>3 DEF VecOps, MemOps
    <3> QED BY <2>3, <2>5, <3>1, MaskedCode DEF D
  <2> HIDE DEF r, rest
  <2>7. <<r>> \in Seq(D)
    BY <2>4
  <2>8. <<r>> \o rest \in Seq(D)
    BY <2>6, <2>7, Glued
  <2> QED BY <2>8 DEF r, rest, isData, a, j
<1> HIDE DEF Operate, D
<1>6. \A n \in DOMAIN ws : \A c \in 1..ws[n].size :
        O[n][c] \in Seq(D) /\ O[n][c] = Operate(ws[n], c)
  BY <1>5
<1>7. \A n \in DOMAIN ws :
        [c \in 1..ws[n].size |-> O[n][c]] = [c \in 1..ws[n].size |-> Operate(ws[n], c)]
  BY <1>6
<1> HIDE DEF O
<1>8. Seqs!FlattenSeq([n \in DOMAIN ws |->
           Three(StreamedReads(core, cmd, data, ws[n]),
                 Seqs!FlattenSeq([c \in 1..ws[n].size |-> O[n][c]]),
                 StreamedWrites(core, cmd, data, ws[n]))]) \in Seq(D)
  BY <1>3, <1>6, StreamOf DEF ws, D
<1>9. [n \in DOMAIN ws |->
           Three(StreamedReads(core, cmd, data, ws[n]),
                 Seqs!FlattenSeq([c \in 1..ws[n].size |-> O[n][c]]),
                 StreamedWrites(core, cmd, data, ws[n]))]
      = [n \in DOMAIN ws |->
           Three(StreamedReads(core, cmd, data, ws[n]),
                 Seqs!FlattenSeq([c \in 1..ws[n].size |-> Operate(ws[n], c)]),
                 StreamedWrites(core, cmd, data, ws[n]))]
  BY <1>7
<1> QED BY <1>4, <1>8, <1>9 DEF D

LEMMA VecScalarStream ==
  ASSUME NEW core \in Setups, NEW cmd, Ranged(core, cmd), cmd.type \notin DOMAIN Fold,
         NEW op \in ScalarOps, NEW data
  PROVE  StreamedVecScalarKernel(core, cmd, op, data) \in Seq(Direct(cmd))
<1> DEFINE D == Direct(cmd)
           ws == Windows(core, Extent(cmd.r1))
           Operate(window, c) ==
             Masked(op, cmd.r1[1] + window.first + c - 1 \in data,
                    Untimed(ARITH(op, core.vec[c], core.reg[1], NoReg, cmd.dtype)))
           O == [n \in DOMAIN ws |-> [c \in 1..ws[n].size |-> Operate(ws[n], c)]]
           set == SET(core.reg[1], cmd.scalar)
           loop == Seqs!FlattenSeq([n \in DOMAIN ws |->
                     Three(StreamedReads(core, cmd, data, ws[n]),
                           Seqs!FlattenSeq([c \in 1..ws[n].size |-> Operate(ws[n], c)]),
                           StreamedWrites(core, cmd, data, ws[n]))])
<1>1. \A n \in DOMAIN ws : ws[n].size \in Nat /\ ws[n].size <= Len(core.vec)
  BY RangeFacts, WindowsFacts
<1>2. cmd.dtype \in Dtypes /\ cmd.scalar \in Nat /\ core.reg[1] \in SReg
  BY RangeFacts, CoreFacts
<1>3. StreamedVecScalarKernel(core, cmd, op, data) = <<set>> \o loop
  BY DEF StreamedVecScalarKernel, Three
<1>4. set \in D
  <2>1. set \in Straight
    BY <1>2, SetCode
  <2>2. set.op = "MOV"
    BY Fields DEF SET
  <2> HIDE DEF set
  <2> QED BY <2>1, <2>2, DirectOps DEF MemOps
<1> HIDE DEF ws, set
<1>5. ASSUME NEW n \in DOMAIN ws, NEW c \in 1..ws[n].size PROVE Operate(ws[n], c) \in Seq(D)
  <2> DEFINE j == Untimed(ARITH(op, core.vec[c], core.reg[1], NoReg, cmd.dtype))
             isData == cmd.r1[1] + ws[n].first + c - 1 \in data
             rest == Masked(op, isData, j)
  <2>1. core.vec[c] \in VReg
    BY <1>1, CoreFacts
  <2>2. j \in Straight /\ j.op = op
    <3>1. j \in Straight
      BY <1>2, <2>1, ScalarArithCode
    <3>2. j.op = ARITH(op, core.vec[c], core.reg[1], NoReg, cmd.dtype).op
      BY DEF Untimed, ARITH, Ins
    <3>3. j.op = op
      BY <3>2, Fields DEF ARITH
    <3> QED BY <3>1, <3>3
  <2> HIDE DEF j
  <2>3. isData \in BOOLEAN
    OBVIOUS
  <2> HIDE DEF isData
  <2>4. rest \in Seq(D)
    <3>1. j.op \notin MemOps
      BY <2>2 DEF ScalarOps, MemOps
    <3> QED BY <2>2, <2>3, <3>1, MaskedCode
  <2> QED BY <2>4 DEF rest, isData, j
<1> HIDE DEF Operate, D
<1>6. \A n \in DOMAIN ws : \A c \in 1..ws[n].size :
        O[n][c] \in Seq(D) /\ O[n][c] = Operate(ws[n], c)
  BY <1>5
<1>7. \A n \in DOMAIN ws :
        [c \in 1..ws[n].size |-> O[n][c]] = [c \in 1..ws[n].size |-> Operate(ws[n], c)]
  BY <1>6
<1> HIDE DEF O
<1>8. Seqs!FlattenSeq([n \in DOMAIN ws |->
           Three(StreamedReads(core, cmd, data, ws[n]),
                 Seqs!FlattenSeq([c \in 1..ws[n].size |-> O[n][c]]),
                 StreamedWrites(core, cmd, data, ws[n]))]) \in Seq(D)
  BY <1>6, StreamOf DEF ws, D
<1>9. loop \in Seq(D)
  <2>1. [n \in DOMAIN ws |->
           Three(StreamedReads(core, cmd, data, ws[n]),
                 Seqs!FlattenSeq([c \in 1..ws[n].size |-> O[n][c]]),
                 StreamedWrites(core, cmd, data, ws[n]))]
        = [n \in DOMAIN ws |->
             Three(StreamedReads(core, cmd, data, ws[n]),
                   Seqs!FlattenSeq([c \in 1..ws[n].size |-> Operate(ws[n], c)]),
                   StreamedWrites(core, cmd, data, ws[n]))]
    BY <1>7
  <2> QED BY <1>8, <2>1
<1> HIDE DEF loop
<1>10. <<set>> \in Seq(D)
  BY <1>4
<1>11. <<set>> \o loop \in Seq(D)
  BY <1>9, <1>10, Glued
<1> QED BY <1>3, <1>11 DEF D

LEMMA RedStream ==
  ASSUME NEW core \in Setups, NEW cmd, Ranged(core, cmd),
         NEW op \in VecOps \cup Ignored, NEW final \in RedOps
  PROVE  StreamedRedKernel(core, cmd, op, final) \in Seq(Direct(cmd))
<1> DEFINE D == Direct(cmd)
           a0 == cmd.r1[1]
           reg(a) == core.vec[2 + (a % 2)]
           FoldAt(a) ==
             IF Len(core.vec) >= 3
               THEN <<READ(a, NoReg, reg(a), cmd.dtype),
                      ARITH(op, core.vec[1], reg(a), NoReg, cmd.dtype)>>
               ELSE <<READ(a, NoReg, NoReg, Int32), ARITH(op, core.vec[1], Gdl, NoReg, Int32)>>
           n == Extent(cmd.r1) - 1
           first == READ(a0, NoReg, core.vec[1], Int32)
           last == ARITH(final, core.reg[1], core.vec[1], NoReg, cmd.dtype)
           loop == Seqs!FlattenSeq([k \in 1..n |-> FoldAt(a0 + k)])
<1>1. StreamedRedKernel(core, cmd, op, final) = (<<first>> \o loop) \o <<last>>
  BY DEF StreamedRedKernel
<1>2. /\ n \in Nat /\ cmd.dtype \in Dtypes /\ Int32 \in Dtypes /\ a0 \in Nat
      /\ core.reg[1] \in SReg /\ core.vec[1] \in VReg /\ Extent(cmd.r1) \in Nat \ {0}
  BY RangeFacts, CoreFacts DEF Dtypes
<1>3. ASSUME NEW a \in Int, a0 <= a, a < a0 + Extent(cmd.r1), NEW v \in VReg \cup {NoReg},
             NEW dtype \in Dtypes
      PROVE  READ(a, NoReg, v, dtype) \in D
  BY <1>3, DirectRead
<1>4. first \in D
  BY <1>2, <1>3
<1>5. ASSUME NEW v \in Vector, NEW dtype \in Dtypes
      PROVE  ARITH(op, core.vec[1], v, NoReg, dtype) \in D
  <2> DEFINE j == ARITH(op, core.vec[1], v, NoReg, dtype)
  <2>1. j \in Straight
    BY <1>2, ArithCode
  <2>2. j.op = op
    BY Fields DEF ARITH
  <2> HIDE DEF j
  <2>3. j.op \notin MemOps
    BY <2>2 DEF VecOps, Ignored, MemOps
  <2>4. j \in D
    BY <2>1, <2>3, DirectOps
  <2> QED BY <2>4 DEF j
<1>6. last \in D
  <2>1. last \in Straight
    BY <1>2, FoldCode
  <2>2. last.op = final
    BY Fields DEF ARITH
  <2> HIDE DEF last
  <2>3. last.op \notin MemOps
    BY <2>2 DEF RedOps, MemOps
  <2> QED BY <2>1, <2>3, DirectOps
<1>7. ASSUME NEW k \in 1..n PROVE FoldAt(a0 + k) \in Seq(D)
  <2> DEFINE a == a0 + k
             v == reg(a)
             r1 == READ(a, NoReg, v, cmd.dtype)
             j1 == ARITH(op, core.vec[1], v, NoReg, cmd.dtype)
             r2 == READ(a, NoReg, NoReg, Int32)
             j2 == ARITH(op, core.vec[1], Gdl, NoReg, Int32)
  <2>1. a \in Int /\ a0 <= a /\ a < a0 + Extent(cmd.r1)
    BY <1>2
  <2>2. Len(core.vec) >= 3 => v \in VReg
    <3>1. a % 2 \in {0, 1}
      BY <2>1
    <3>2. Len(core.vec) >= 3 => 2 + (a % 2) \in 1..Len(core.vec)
      BY <3>1, CoreFacts
    <3> QED BY <3>2, CoreFacts
  <2> HIDE DEF a, v, D
  <2>3. Len(core.vec) >= 3 => r1 \in D /\ j1 \in D
    BY <1>2, <1>3, <1>5, <2>1, <2>2, RegNames
  <2>4. r2 \in D /\ j2 \in D
    BY <1>2, <1>3, <1>5, <2>1, RegNames
  <2> HIDE DEF r1, j1, r2, j2
  <2>5. /\ Len(core.vec) >= 3 => <<r1, j1>> \in Seq(D)
        /\ <<r2, j2>> \in Seq(D)
    BY <2>3, <2>4
  <2> QED BY <2>5 DEF r1, j1, r2, j2, v, a
<1> HIDE DEF D, FoldAt, first, last
<1>8. [k \in 1..n |-> FoldAt(a0 + k)] \in [1..n -> Seq(D)]
  BY <1>7
<1>9. loop \in Seq(D)
  BY <1>2, <1>8, Flattened
<1> HIDE DEF loop
<1>10. <<first>> \in Seq(D) /\ <<last>> \in Seq(D)
  BY <1>4, <1>6
<1>11. <<first>> \o loop \in Seq(D)
  BY <1>9, <1>10, Glued
<1>12. (<<first>> \o loop) \o <<last>> \in Seq(D)
  BY <1>10, <1>11, Glued
<1> QED BY <1>1, <1>12 DEF D

-----------------------------------------------------------------------------
(* From a command to its program.                                          *)

\* What a program is like.
Shaped(core, p, cmd) ==
  IF core.kind = "cached"
    THEN IF cmd.type \in DOMAIN Fold THEN IsFold(p, core, cmd)
                                     ELSE \E m \in {2, 3} : IsLoop(p, core, cmd, m)
    ELSE p \in Seq(Direct(cmd))

LEMMA Operations ==
  ASSUME NEW t
  PROVE  /\ t \in DOMAIN VecVec => VecVec[t] \in VecOps
         /\ t \in DOMAIN VecScalar => VecScalar[t] \in ScalarOps
         /\ t \in DOMAIN Fold => Fold[t] \in VecOps \cup Ignored /\ Final[t] \in RedOps
         /\ t \in DOMAIN VecVec => t \notin DOMAIN VecScalar /\ t \notin DOMAIN Fold
         /\ t \in DOMAIN VecScalar => t \notin DOMAIN Fold
BY DEF VecVec, VecScalar, Fold, Final, VecOps, ScalarOps, RedOps, Ignored

LEMMA Elements ==
  ASSUME NEW S, NEW s \in Seq(S)
  PROVE  \A k \in DOMAIN s : s[k] \in S
  OBVIOUS

LEMMA CommandFacts ==
  ASSUME setup \in Setups, NEW c \in Commands
  PROVE  LET cmd == ToCommand(c) IN
         /\ Ranged(setup, cmd) /\ cmd.type = c.type /\ cmd.dtype = setup.dtype
         /\ \A r \in {cmd.r1, cmd.r2, cmd.dst} : \E o \in Objects : r = RangeOf(o)
<1>1. /\ {c.op1, c.op2, c.dst} \subseteq DOMAIN setup.object /\ c.scalar \in Nat
  BY CommandAssumption
<1>2. setup.object \in Seq([first : Nat, len : Nat \ {0}, used : Nat])
  BY SetupAssumption
<1>3. ASSUME NEW o \in DOMAIN setup.object
      PROVE  /\ RangeOf(o)[1] \in Nat /\ RangeOf(o)[2] \in Nat
             /\ RangeOf(o)[1] < RangeOf(o)[2]
  <2>1. setup.object[o] \in [first : Nat, len : Nat \ {0}, used : Nat]
    BY <1>2, Elements
  <2>2. setup.object[o].first \in Nat /\ setup.object[o].len \in Nat \ {0}
    BY <2>1
  <2> QED BY <2>2 DEF RangeOf
<1>4. /\ ToCommand(c).r1 = RangeOf(c.op1) /\ ToCommand(c).r2 = RangeOf(c.op2)
      /\ ToCommand(c).dst = RangeOf(c.dst) /\ ToCommand(c).scalar = c.scalar
      /\ ToCommand(c).type = c.type /\ ToCommand(c).dtype = setup.dtype
  BY DEF ToCommand
<1>5. c.op1 \in DOMAIN setup.object /\ c.op2 \in DOMAIN setup.object /\ c.dst \in DOMAIN setup.object
  BY <1>1
<1> QED BY <1>1, <1>3, <1>4, <1>5 DEF Ranged, Objects

LEMMA Codes ==
  ASSUME setup \in Setups, NEW c \in Commands, Accepted(ToCommand(c))
  PROVE  Shaped(setup, ProgramOf(ToCommand(c)), ToCommand(c))
<1> DEFINE cmd == ToCommand(c)
           p == ProgramOf(cmd)
<1>1. Ranged(setup, cmd)
  BY CommandFacts
<1>2. Accepted(cmd)
  OBVIOUS
<1> HIDE DEF cmd
<1>3. CASE cmd.type \in DOMAIN VecVec
  <2> DEFINE op == VecVec[cmd.type]
  <2>1. /\ op \in VecOps /\ cmd.type \notin DOMAIN Fold
        /\ cmd.type \notin DOMAIN VecScalar
    BY <1>3, Operations
  <2>2. p = IF Cached THEN VecVecKernel(setup, cmd, op)
                      ELSE StreamedVecVecKernel(setup, cmd, op, InBounds)
    BY <1>3, <2>1 DEF ProgramOf
  <2> HIDE DEF op, p
  <2>3. IsLoop(VecVecKernel(setup, cmd, op), setup, cmd, 2)
    BY <1>1, <1>3, <2>1, VecVecLoop
  <2>4. StreamedVecVecKernel(setup, cmd, op, InBounds) \in Seq(Direct(cmd))
    BY <1>1, <1>3, <2>1, VecVecStream
  <2>5. CASE Cached
    <3>1. IsLoop(p, setup, cmd, 2)
      BY <2>2, <2>3, <2>5
    <3>2. 2 \in {2, 3}
      OBVIOUS
    <3> QED BY <2>1, <2>5, <3>1, <3>2 DEF Shaped, p, cmd, Cached
  <2>6. CASE ~Cached
    <3>1. p \in Seq(Direct(cmd))
      BY <2>2, <2>4, <2>6
    <3> QED BY <2>6, <3>1 DEF Shaped, p, cmd, Cached
  <2> QED BY <2>5, <2>6
<1>4. CASE cmd.type \in DOMAIN VecScalar
  <2> DEFINE op == VecScalar[cmd.type]
  <2>1. op \in ScalarOps /\ cmd.type \notin DOMAIN Fold /\ cmd.type \notin DOMAIN VecVec
    BY <1>4, Operations
  <2>2. p = IF Cached THEN VecScalarKernel(setup, cmd, op)
                      ELSE StreamedVecScalarKernel(setup, cmd, op, InBounds)
    BY <1>4, <2>1 DEF ProgramOf
  <2> HIDE DEF op, p
  <2>3. IsLoop(VecScalarKernel(setup, cmd, op), setup, cmd, 3)
    BY <1>1, <2>1, VecScalarLoop
  <2>4. StreamedVecScalarKernel(setup, cmd, op, InBounds) \in Seq(Direct(cmd))
    BY <1>1, <2>1, VecScalarStream
  <2>5. CASE Cached
    <3>1. IsLoop(p, setup, cmd, 3)
      BY <2>2, <2>3, <2>5
    <3>2. 3 \in {2, 3}
      OBVIOUS
    <3> QED BY <2>1, <2>5, <3>1, <3>2 DEF Shaped, p, cmd, Cached
  <2>6. CASE ~Cached
    <3>1. p \in Seq(Direct(cmd))
      BY <2>2, <2>4, <2>6
    <3> QED BY <2>6, <3>1 DEF Shaped, p, cmd, Cached
  <2> QED BY <2>5, <2>6
<1>5. CASE cmd.type \in DOMAIN Fold
  <2> DEFINE op == Fold[cmd.type]
             final == Final[cmd.type]
  <2>1. /\ op \in VecOps \cup Ignored /\ final \in RedOps
        /\ cmd.type \notin DOMAIN VecVec /\ cmd.type \notin DOMAIN VecScalar
    BY <1>5, Operations
  <2>2. p = IF Cached THEN RedKernel(setup, cmd, op, final)
                      ELSE StreamedRedKernel(setup, cmd, op, final)
    BY <1>5, <2>1 DEF ProgramOf
  <2>3. Cached => Len(setup.vec) >= 3
    BY <1>2, <2>1 DEF Accepted
  <2> HIDE DEF op, final, p
  <2>4. StreamedRedKernel(setup, cmd, op, final) \in Seq(Direct(cmd))
    BY <1>1, <2>1, RedStream
  <2>5. CASE Cached
    <3>1. IsFold(RedKernel(setup, cmd, op, final), setup, cmd)
      BY <1>1, <2>1, <2>3, <2>5, RedLoop
    <3>2. IsFold(p, setup, cmd)
      BY <2>2, <2>5, <3>1
    <3> QED BY <1>5, <2>5, <3>2 DEF Shaped, p, cmd, Cached
  <2>6. CASE ~Cached
    <3>1. p \in Seq(Direct(cmd))
      BY <2>2, <2>4, <2>6
    <3> QED BY <2>6, <3>1 DEF Shaped, p, cmd, Cached
  <2> QED BY <2>5, <2>6
<1> QED BY <1>2, <1>3, <1>4, <1>5 DEF Accepted

\* Its instructions are legal, its jumps within itself.
Contained(p) ==
  p \in Seq(Legal) /\ \A k \in 1..Len(p) : IsJump(p[k]) => p[k].addr \in 0..Len(p)

LEMMA ShapedContained ==
  ASSUME NEW core \in Setups, NEW cmd, NEW p, Shaped(core, p, cmd)
  PROVE  Contained(p)
<1>1. /\ Straight \subseteq Legal /\ \A i \in Straight : ~IsJump(i)
      /\ \A i \in Body(core, cmd) : i \in Straight
      /\ \A i \in Direct(cmd) : i \in Straight
      /\ \A r, n : SET(r, n).op = "MOV" /\ ~IsJump(SET(r, n))
      /\ \A a, r, v, d : ~IsJump(READ(a, r, v, d))
      /\ \A r, n, d : ~IsJump(INC(r, n, d))
      /\ \A r, s, n, d : JL(r, s, n, d).addr = n
  <2>1. Straight \subseteq Legal /\ \A i \in Straight : ~IsJump(i)
    BY DEF Straight
  <2>2. /\ \A i \in Body(core, cmd) : i \in Straight
        /\ \A i \in Direct(cmd) : i \in Straight
    BY DEF Body, Direct
  <2>3. \A r, n : SET(r, n).op = "MOV"
    BY Fields DEF SET
  <2>4. \A a, r, v, d : READ(a, r, v, d).op = "READ"
    BY Fields DEF READ
  <2>5. \A r, n, d : INC(r, n, d).op = "IMM_ADD"
    BY Fields DEF INC
  <2>6. \A r, s, n, d : JL(r, s, n, d).addr = n
    BY Fields DEF JL
  <2>7. \A i : i.op \in {"MOV", "READ", "IMM_ADD"} => ~IsJump(i)
    BY DEF IsJump, CondJumps
  <2> QED BY <2>1, <2>2, <2>3, <2>4, <2>5, <2>6, <2>7
<1>2. CASE p \in Seq(Direct(cmd))
  <2>1. \A k \in 1..Len(p) : p[k] \in Direct(cmd)
    BY <1>2
  <2>2. p \in Seq(Legal)
    <3>1. Direct(cmd) \subseteq Legal
      BY <1>1
    <3> QED BY <1>2, <3>1
  <2> QED BY <1>1, <2>1, <2>2 DEF Contained
<1>3. ASSUME NEW m \in {2, 3}, IsLoop(p, core, cmd, m) PROVE Contained(p)
  <2>1. /\ p \in Seq(Legal) /\ Len(p) >= m + 2 /\ Len(p) \in Nat
        /\ \A j \in 1..m : p[j] \in Straight
        /\ \A j \in (m + 1)..(Len(p) - 2) : p[j] \in Body(core, cmd)
        /\ ~IsJump(p[Len(p) - 1]) /\ p[Len(p)].addr = m
    BY <1>1, <1>3 DEF IsLoop
  <2>2. ASSUME NEW k \in 1..Len(p), IsJump(p[k]) PROVE p[k].addr \in 0..Len(p)
    <3>1. k \notin 1..m /\ k \notin (m + 1)..(Len(p) - 2) /\ k # Len(p) - 1
      BY <1>1, <2>1, <2>2
    <3>2. k = Len(p)
      BY <2>1, <3>1
    <3> QED BY <2>1, <3>2
  <2> QED BY <2>1, <2>2 DEF Contained
<1>4. ASSUME IsFold(p, core, cmd) PROVE Contained(p)
  <2>1. /\ p \in Seq(Legal) /\ Len(p) \in {11, 13}
        /\ ~IsJump(p[1]) /\ ~IsJump(p[2]) /\ ~IsJump(p[3]) /\ ~IsJump(p[4]) /\ ~IsJump(p[5])
        /\ ~IsJump(p[6]) /\ ~IsJump(p[7]) /\ ~IsJump(p[8]) /\ ~IsJump(p[9]) /\ p[10].addr = 3
        /\ ~IsJump(p[Len(p)]) /\ (Len(p) = 13 => ~IsJump(p[11]) /\ ~IsJump(p[12]))
    <3>1. p \in Seq(Legal) /\ Len(p) \in {11, 13} /\ (Len(p) = 13 => Extent(cmd.r1) % 2 = 0)
      BY <1>4 DEF IsFold
    <3>2. ~IsJump(p[1]) /\ ~IsJump(p[4]) /\ ~IsJump(p[7])
      BY <1>1, <1>4 DEF IsFold
    <3>3. ~IsJump(p[2]) /\ ~IsJump(p[3])
      BY <1>1, <1>4 DEF IsFold
    <3>4. ~IsJump(p[5]) /\ ~IsJump(p[8]) /\ ~IsJump(p[Len(p)])
      BY <1>1, <1>4 DEF IsFold
    <3>5. ~IsJump(p[6]) /\ ~IsJump(p[9]) /\ p[10].addr = 3
      BY <1>1, <1>4 DEF IsFold
    <3>6. Extent(cmd.r1) % 2 = 0 => ~IsJump(p[11]) /\ ~IsJump(p[12])
      BY <1>1, <1>4 DEF IsFold
    <3> QED BY <3>1, <3>2, <3>3, <3>4, <3>5, <3>6
  <2>2. ASSUME NEW k \in 1..Len(p), IsJump(p[k]) PROVE k = 10
    <3> DEFINE n == Len(p)
    <3>1. n \in {11, 13} /\ k \in 1..n
      BY <2>1
    <3> HIDE DEF n
    <3>2. \/ k \in {1, 2, 3, 4, 5, 6, 7, 8, 9, 10} \/ k = 11
          \/ n = 13 /\ k \in {12, 13}
      BY <3>1
    <3>3. CASE k = 11
      BY <2>1, <2>2, <3>1, <3>3 DEF n
    <3> QED BY <2>1, <2>2, <3>2, <3>3 DEF n
  <2> QED BY <2>1, <2>2 DEF Contained
<1> QED BY <1>2, <1>3, <1>4 DEF Shaped

\* load_prog leaves all but the targets of jumps.
LEMMA RelocatedFacts ==
  ASSUME NEW p, Contained(p), NEW s \in Nat
  PROVE  LET q == Relocated(p, s) IN
         /\ q \in Seq(Legal) /\ Len(q) = Len(p)
         /\ \A k \in 1..Len(p) : ~IsJump(p[k]) => q[k] = p[k]
         /\ \A k \in 1..Len(p) :
              IsJump(p[k]) => /\ IsJump(q[k]) /\ q[k].addr = p[k].addr + s
                              /\ q[k].op = p[k].op /\ q[k].in1 = p[k].in1
                              /\ q[k].in2 = p[k].in2 /\ q[k].dtype = p[k].dtype
<1> DEFINE q == Relocated(p, s)
           moved(i) == [i EXCEPT !.addr = @ + s]
<1>1. p \in Seq(Legal) /\ \A k \in 1..Len(p) : p[k] \in Legal
  BY DEF Contained
<1>2. q = [k \in 1..Len(p) |-> IF IsJump(p[k]) THEN moved(p[k]) ELSE p[k]]
  BY <1>1 DEF Relocated
<1>3. ASSUME NEW i \in Legal
      PROVE  /\ moved(i) \in Legal /\ moved(i).addr = i.addr + s
             /\ moved(i).op = i.op /\ moved(i).in1 = i.in1 /\ moved(i).in2 = i.in2
             /\ moved(i).dtype = i.dtype
  <2>1. i \in Worded /\ WellFormed(i)
    BY DEF Legal
  <2>2. /\ moved(i) \in Worded /\ moved(i).addr = i.addr + s
        /\ moved(i).op = i.op /\ moved(i).in1 = i.in1 /\ moved(i).in2 = i.in2
        /\ moved(i).dst = i.dst /\ moved(i).dtype = i.dtype
    BY <2>1 DEF Worded
  <2> HIDE DEF moved
  <2>3. WellFormed(moved(i))
    BY <2>1, <2>2 DEF WellFormed, Immediate, Folding, Vectorial, Operands
  <2> QED BY <2>2, <2>3 DEF Legal
<1> HIDE DEF moved
<1>4. q \in [1..Len(p) -> Legal] /\ Len(p) \in Nat
  BY <1>1, <1>2, <1>3
<1>5. q \in Seq(Legal) /\ Len(q) = Len(p)
  BY <1>4, Listed
<1>6. \A k \in 1..Len(p) : q[k] = IF IsJump(p[k]) THEN moved(p[k]) ELSE p[k]
  BY <1>2
<1> HIDE DEF q
<1>7. ASSUME NEW k \in 1..Len(p), IsJump(p[k])
      PROVE  /\ IsJump(q[k]) /\ q[k].addr = p[k].addr + s
             /\ q[k].op = p[k].op /\ q[k].in1 = p[k].in1
             /\ q[k].in2 = p[k].in2 /\ q[k].dtype = p[k].dtype
  BY <1>1, <1>3, <1>6, <1>7 DEF IsJump
<1> QED BY <1>5, <1>6, <1>7 DEF q

-----------------------------------------------------------------------------
(* Type correctness.                                                       *)

\* The numbers of a finite list have a bound.
LEMMA Bounded ==
  ASSUME NEW n \in Nat, NEW f, \A i \in 1..n : f[i] \in Nat
  PROVE  \E b \in Nat : \A i \in 1..n : f[i] <= b
<1> DEFINE T == {m \in 0..n : ~ \E b \in Nat : \A i \in 1..m : f[i] <= b}
<1>1. T = {}
  <2> SUFFICES ASSUME T # {} PROVE FALSE
    OBVIOUS
  <2>1. PICK m \in T : \A l \in T : m <= l
    <3>1. T \subseteq Nat
      OBVIOUS
    <3> HIDE DEF T
    <3> QED BY <3>1, Tables!NatMin
  <2>2. m \in 0..n /\ ~ \E b \in Nat : \A i \in 1..m : f[i] <= b
    OBVIOUS
  <2>3. m # 0
    <3>1. 0 \in Nat /\ \A i \in 1..0 : f[i] <= 0
      OBVIOUS
    <3> QED BY <2>2, <3>1
  <2>4. m - 1 \in 0..n /\ m - 1 \notin T
    <3>1. m - 1 \in 0..n /\ ~(m <= m - 1)
      BY <2>2, <2>3
    <3> HIDE DEF T
    <3> QED BY <2>1, <3>1
  <2>5. PICK b \in Nat : \A i \in 1..(m - 1) : f[i] <= b
    BY <2>4
  <2> DEFINE c == IF f[m] <= b THEN b ELSE f[m]
  <2>6. f[m] \in Nat
    BY <2>2, <2>3
  <2>7. c \in Nat /\ b <= c /\ f[m] <= c
    BY <2>6
  <2> HIDE DEF c
  <2>8. \A i \in 1..m : f[i] <= c
    <3> TAKE i \in 1..m
    <3>1. i = m \/ i \in 1..(m - 1)
      BY <2>2
    <3>2. i \in 1..n
      BY <2>2
    <3> QED BY <2>5, <2>7, <3>1, <3>2
  <2> QED BY <2>2, <2>7, <2>8
<1>2. n \notin T
  <2> HIDE DEF T
  <2> QED BY <1>1
<1>3. n \in 0..n
  OBVIOUS
<1> QED BY <1>2, <1>3

\* The bank ends with an object.
LEMMA MappedFacts ==
  ASSUME setup \in Setups
  PROVE  /\ \E o \in Objects : Mapped = 0..(RangeOf(o)[2] - 1)
         /\ \A o \in Objects : \A a \in RangeOf(o)[1]..(RangeOf(o)[2] - 1) : a \in Mapped
<1> DEFINE S == {RangeOf(o)[2] : o \in Objects}
           n == Len(setup.object)
           ends == [o \in 1..n |-> RangeOf(o)[2]]
<1>1. /\ setup.object \in Seq([first : Nat, len : Nat \ {0}, used : Nat])
      /\ Len(setup.object) >= 1
  BY SetupAssumption
<1>2. n \in Nat /\ n >= 1 /\ Objects = 1..n
  BY <1>1 DEF Objects
<1>3. ASSUME NEW o \in 1..n PROVE RangeOf(o)[1] \in Nat /\ RangeOf(o)[2] \in Nat
  <2>1. setup.object[o] \in [first : Nat, len : Nat \ {0}, used : Nat]
    BY <1>1, <1>2, Elements DEF Objects
  <2> QED BY <2>1 DEF RangeOf
<1> HIDE DEF n
<1>4. PICK b \in Nat : \A o \in 1..n : ends[o] <= b
  <2>1. \A o \in 1..n : ends[o] \in Nat
    BY <1>3
  <2> HIDE DEF ends
  <2> QED BY <1>2, <2>1, Bounded
<1>5. S \subseteq 0..b /\ S # {}
  <2>1. \A o \in Objects : RangeOf(o)[2] \in 0..b
    BY <1>2, <1>3, <1>4
  <2>2. 1 \in Objects
    BY <1>2
  <2> QED BY <2>1, <2>2
<1>6. Max(S) \in S /\ \A x \in S : x <= Max(S)
  <2> HIDE DEF S
  <2> QED BY <1>5, Largest
<1>7. Mapped = 0..(Max(S) - 1)
  BY DEF Mapped
<1> DEFINE top == Max(S)
<1>8. \A o \in Objects : RangeOf(o)[2] <= top
  BY <1>6
<1>9. \E o \in Objects : top = RangeOf(o)[2]
  BY <1>6
<1> HIDE DEF top, S
<1>10. Mapped = 0..(top - 1) /\ top \in Nat
  BY <1>2, <1>3, <1>7, <1>9 DEF top
<1>11. ASSUME NEW o \in Objects, NEW a \in RangeOf(o)[1]..(RangeOf(o)[2] - 1)
       PROVE  a \in Mapped
  BY <1>2, <1>3, <1>8, <1>10
<1> QED BY <1>9, <1>10, <1>11

Job == [start : Nat, cmd : {ToCommand(c) : c \in Commands}]

\* The types of the state, of the instructions loaded and of their jumps.
TypeInv ==
  /\ setup \in Setups /\ RegsOK /\ BankOK
  /\ cache \in Seq(Legal) /\ pc \in 0..Len(cache) /\ (Cached => Len(cache) <= CacheSize)
  /\ \A k \in 1..Len(cache) : IsJump(cache[k]) => cache[k].addr \in 0..Len(cache)
  /\ sent \in 0..MaxCommands /\ jobs \in Seq(Job) /\ Len(jobs) <= sent

LEMMA InitTypes == Init => TypeInv
<1> SUFFICES ASSUME Init PROVE TypeInv
  OBVIOUS
<1>1. /\ setup \in Setups /\ cache = <<>> /\ pc = 0
      /\ sreg = [r \in SReg |-> 0] /\ val = [r \in Vector |-> Empty]
      /\ alias = {{r} : r \in Vector} /\ sent = 0 /\ jobs = <<>>
      /\ mem = [a \in Mapped |-> IF Padding(a) THEN Empty ELSE setup.data[a]]
  BY DEF Init
<1>2. RegsOK
  <2>1. UNION alias = Vector /\ \A c, d \in alias : c = d \/ c \cap d = {}
    <3>1. alias = {{r} : r \in Vector}
      BY <1>1
    <3>2. UNION alias = Vector
      <4>1. \A r \in Vector : r \in {r} /\ {r} \in alias
        BY ONLY <3>1
      <4>2. \A c \in alias : c \subseteq Vector
        BY ONLY <3>1
      <4> QED BY ONLY <4>1, <4>2
    <3>3. \A c, d \in alias : c = d \/ c \cap d = {}
      BY ONLY <3>1
    <3> QED BY <3>2, <3>3
  <2>2. val \in [Vector -> Lane \cup {Empty}] /\ sreg \in [SReg -> Nat \cup {Mixed}]
    BY <1>1
  <2> QED BY <2>1, <2>2 DEF RegsOK, Parted
<1>3. BankOK
  <2>1. PICK o \in Objects : Mapped = 0..(RangeOf(o)[2] - 1)
    BY <1>1, MappedFacts
  <2>2. RangeOf(o)[2] = setup.object[o].first + setup.object[o].len
    BY DEF RangeOf
  <2>3. \A a \in Mapped : setup.data[a] \in Value
    <3> DEFINE f == setup.object[o].first
               n == setup.object[o].len
    <3>1. o \in DOMAIN setup.object /\ setup \in Setups
      BY <1>1 DEF Objects
    <3>2. \A a \in 0..(f + n - 1) : setup.data[a] \in Value
      BY <3>1, SetupAssumption
    <3>3. f \in Nat /\ n \in Nat
      <4>1. setup.object \in Seq([first : Nat, len : Nat \ {0}, used : Nat])
        BY <3>1, SetupAssumption
      <4>2. setup.object[o] \in [first : Nat, len : Nat \ {0}, used : Nat]
        BY <3>1, <4>1, Elements
      <4> QED BY <4>2
    <3>4. Mapped = 0..((f + n) - 1)
      BY <2>1, <2>2
    <3> HIDE DEF f, n
    <3>5. (f + n) - 1 = f + n - 1
      BY <3>3
    <3> QED BY <3>2, <3>4, <3>5
  <2>4. Value \subseteq Lane /\ Empty \notin Value
    BY EmptyAssumption, SizeAssumption DEF Lane, Value
  <2> QED BY <1>1, <2>3, <2>4 DEF BankOK
<1>4. CacheSize \in Nat /\ MaxCommands \in Nat
  BY SizeAssumption, BoundAssumption
<1>5. /\ cache \in Seq(Legal) /\ Len(cache) = 0 /\ jobs \in Seq(Job) /\ Len(jobs) = 0
  BY <1>1
<1> QED BY <1>1, <1>2, <1>3, <1>4, <1>5 DEF TypeInv

\* What a step does, instruction by instruction.
LEMMA StepFacts ==
  ASSUME Step
  PROVE  /\ pc < Len(cache) /\ pc' = Target(cache[pc + 1]) /\ Effect(cache[pc + 1])
         /\ setup' = setup /\ cache' = cache /\ sent' = sent /\ jobs' = jobs
  BY DEF Step, Effect

LEMMA SameSetup ==
  ASSUME setup' = setup
  PROVE  /\ (Cached' <=> Cached) /\ Mapped' = Mapped /\ Job' = Job
         /\ \A a : Padding(a)' <=> Padding(a)
  BY DEF Cached, Mapped, Padding, Objects, RangeOf, Job, ToCommand

\* Where it goes on.
LEMMA TargetFacts ==
  ASSUME NEW i
  PROVE  \/ IsJump(i) /\ Target(i) = i.addr
         \/ Target(i) = IF Cached THEN Succ(pc) ELSE pc + 1
  BY DEF Target, IsJump

LEMMA TypeNext == TypeInv /\ [Next]_vars => TypeInv'
<1> SUFFICES ASSUME TypeInv, [Next]_vars PROVE TypeInv'
  OBVIOUS
<1>1. /\ setup \in Setups /\ RegsOK /\ BankOK
      /\ cache \in Seq(Legal) /\ pc \in 0..Len(cache) /\ (Cached => Len(cache) <= CacheSize)
      /\ \A k \in 1..Len(cache) : IsJump(cache[k]) => cache[k].addr \in 0..Len(cache)
      /\ sent \in 0..MaxCommands /\ jobs \in Seq(Job) /\ Len(jobs) <= sent
  BY DEF TypeInv
<1>2. ASSUME UNCHANGED <<pc, sreg, val, alias, mem, setup>>
      PROVE  RegsOK' /\ BankOK' /\ pc' = pc /\ setup' = setup
  <2>1. Mapped' = Mapped /\ \A a : Padding(a)' <=> Padding(a)
    BY <1>2, SameSetup
  <2>2. RegsOK'
    BY <1>1, <1>2 DEF RegsOK, Parted
  <2>3. BankOK'
    BY <1>1, <1>2, <2>1 DEF BankOK
  <2> QED BY <1>2, <2>2, <2>3
<1>3. CASE Step
  <2>1. /\ pc < Len(cache) /\ pc' = Target(cache[pc + 1]) /\ Effect(cache[pc + 1])
        /\ setup' = setup /\ cache' = cache /\ sent' = sent /\ jobs' = jobs
    BY <1>3, StepFacts
  <2>2. pc + 1 \in 1..Len(cache) /\ cache[pc + 1] \in Legal
    BY <1>1, <2>1
  <2>3. RegsOK' /\ BankOK'
    BY <1>1, <2>1, <2>2, StepTypes
  <2>4. pc' \in 0..Len(cache)
    <3>1. pc + 1 \in 0..Len(cache) /\ 0 \in 0..Len(cache)
      BY <2>2
    <3>2. CASE IsJump(cache[pc + 1]) /\ pc' = cache[pc + 1].addr
      BY <1>1, <2>2, <3>2
    <3>3. CASE pc' = IF Cached THEN Succ(pc) ELSE pc + 1
      BY <3>1, <3>3 DEF Succ
    <3> QED BY <2>1, <3>2, <3>3, TargetFacts
  <2>5. (Cached' <=> Cached) /\ Job' = Job
    BY <2>1, SameSetup
  <2> QED BY <1>1, <2>1, <2>3, <2>4, <2>5 DEF TypeInv
<1>4. CASE \E c \in Commands : HandleCommand(c)
  <2>1. PICK c \in Commands : HandleCommand(c)
    BY <1>4
  <2> DEFINE cmd == ToCommand(c)
             p == ProgramOf(cmd)
             r == Relocated(p, Len(cache))
             job == [start |-> Len(cache), cmd |-> cmd]
  <2>2. /\ sent < MaxCommands /\ sent' = sent + 1 /\ Accepted(cmd)
        /\ cache' = cache \o r /\ jobs' = Append(jobs, job)
        /\ UNCHANGED <<setup, pc, sreg, val, alias, mem>>
    BY <2>1 DEF HandleCommand
  <2>3. RegsOK' /\ BankOK' /\ pc' = pc /\ setup' = setup
    BY <1>2, <2>2
  <2>4. (Cached' <=> Cached) /\ Job' = Job
    BY <2>3, SameSetup
  <2>5. Cached => Len(cache) + Len(p) <= CacheSize
    BY <2>2 DEF Accepted
  <2>6. Contained(p)
    BY <1>1, <2>2, Codes, ShapedContained
  <2>7. job \in Job
    BY <1>1 DEF Job
  <2> HIDE DEF p, job
  <2>8. /\ r \in Seq(Legal) /\ Len(r) = Len(p)
        /\ \A k \in 1..Len(p) : ~IsJump(p[k]) => r[k] = p[k]
        /\ \A k \in 1..Len(p) : IsJump(p[k]) => r[k].addr = p[k].addr + Len(cache)
    <3>1. Len(cache) \in Nat
      BY <1>1
    <3> QED BY <2>6, <3>1, RelocatedFacts
  <2> HIDE DEF r
  <2>9. /\ cache' \in Seq(Legal) /\ Len(cache') = Len(cache) + Len(p)
        /\ \A k \in 1..Len(cache) : cache'[k] = cache[k]
        /\ \A k \in 1..Len(p) : cache'[Len(cache) + k] = r[k]
    <3>1. /\ cache \o r \in Seq(Legal) /\ Len(cache \o r) = Len(cache) + Len(r)
          /\ \A k \in 1..Len(cache) : (cache \o r)[k] = cache[k]
          /\ \A k \in 1..Len(r) : (cache \o r)[Len(cache) + k] = r[k]
      <4>1. cache \in Seq(Legal) /\ r \in Seq(Legal)
        BY <1>1, <2>8
      <4> QED BY <4>1, Glued
    <3> QED BY <2>2, <2>8, <3>1
  <2>10. Len(cache) \in Nat /\ Len(p) \in Nat
    BY <1>1, <2>6 DEF Contained
  <2>11. ASSUME NEW k \in 1..Len(cache'), IsJump(cache'[k])
         PROVE  cache'[k].addr \in 0..Len(cache')
    <3>1. CASE k \in 1..Len(cache)
      BY <1>1, <2>9, <2>10, <2>11, <3>1
    <3>2. CASE k \notin 1..Len(cache)
      <4> DEFINE l == k - Len(cache)
      <4>1. l \in 1..Len(p) /\ k = Len(cache) + l
        BY <2>9, <2>10, <3>2
      <4> HIDE DEF l
      <4>2. cache'[k] = r[l]
        BY <2>9, <4>1
      <4>3. IsJump(p[l])
        BY <2>8, <2>11, <4>1, <4>2
      <4>4. p[l].addr \in 0..Len(p) /\ cache'[k].addr = p[l].addr + Len(cache)
        BY <2>6, <2>8, <4>1, <4>2, <4>3 DEF Contained
      <4> QED BY <2>9, <2>10, <4>4
    <3> QED BY <3>1, <3>2
  <2>12. jobs' \in Seq(Job') /\ Len(jobs') = Len(jobs) + 1
    BY <1>1, <2>2, <2>4, <2>7
  <2>13. sent' \in 0..MaxCommands /\ Len(jobs') <= sent'
    BY <1>1, <2>2, <2>12, BoundAssumption
  <2>14. pc' \in 0..Len(cache') /\ (Cached' => Len(cache') <= CacheSize)
    BY <1>1, <2>3, <2>4, <2>5, <2>9, <2>10
  <2> QED BY <1>1, <2>3, <2>9, <2>11, <2>12, <2>13, <2>14 DEF TypeInv
<1>5. CASE \E c \in Commands : RefuseCommand(c)
  <2>1. /\ sent < MaxCommands /\ sent' = sent + 1
        /\ UNCHANGED <<setup, cache, pc, sreg, val, alias, mem, jobs>>
    BY <1>5 DEF RefuseCommand
  <2>2. RegsOK' /\ BankOK' /\ (Cached' <=> Cached) /\ Job' = Job
    BY <1>2, <2>1, SameSetup
  <2>3. sent' \in 0..MaxCommands /\ Len(jobs) <= sent'
    BY <1>1, <2>1, BoundAssumption
  <2> QED BY <1>1, <2>1, <2>2, <2>3 DEF TypeInv
<1>6. CASE UNCHANGED vars
  <2>1. UNCHANGED <<setup, cache, pc, sreg, val, alias, mem, sent, jobs>>
    BY <1>6 DEF vars
  <2>2. RegsOK' /\ BankOK' /\ (Cached' <=> Cached) /\ Job' = Job
    BY <1>2, <2>1, SameSetup
  <2> QED BY <1>1, <2>1, <2>2 DEF TypeInv
<1> QED BY <1>3, <1>4, <1>5, <1>6 DEF Next

\* Registers hold numbers and chunks, those that share a buffer are classes of
\* all of them, padding stays without bytes, and pc stays in the cache: for any
\* cores, objects and commands, also those that do not do as they say.
THEOREM TypeCorrect == Spec => []TypeOK
<1>1. TypeInv => TypeOK
  <2>1. Nat \cup {Mixed} \subseteq Int
    BY DEF Mixed
  <2> QED BY <2>1 DEF TypeInv, TypeOK, RegsOK, Parted, BankOK
<1>2. Spec => []TypeInv
  BY InitTypes, TypeNext, PTL DEF Spec
<1> QED BY <1>1, <1>2, PTL

-----------------------------------------------------------------------------
(* The addresses of loops.                                                 *)

\* Commands whose loops stay on their objects: operands as long as the
\* destination, counters that do not overflow, three chunks to be folded.
Sound(core, cmd) ==
  /\ Ranged(core, cmd) /\ Fits(cmd)
  /\ core.kind = "cached" =>
       IF cmd.type \in DOMAIN Fold THEN Extent(cmd.r1) >= 3 /\ core.dtype = Int32
                                   ELSE core.dtype = Int32 \/ Extent(cmd.r1) < Narrow

\* At instruction k of a loop of n whose head has m: the first register has
\* advanced by whole windows and leaves room for one until it is increased.
Turn(R, core, cmd, n, m, k) ==
  LET len == Extent(cmd.r1)
      w == SelWindow(core, len)
  IN  /\ k = m - 1 => R[core.reg[1]] = 0
      /\ k \in m..(n - 1) =>
           /\ R[core.reg[2]] = len
           /\ \E q \in Nat : /\ R[core.reg[1]] = q * w
                             /\ IF k = n - 1 THEN q * w <= len ELSE q * w + w <= len

\* At instruction k of the kernel of a reduction: the second register is odd
\* at the head of the loop, and the limit, in the third, is even.
Round(R, core, cmd, k) ==
  LET h == (Extent(cmd.r1) - 1) \div 2 IN
  /\ k = 2 => R[core.reg[2]] = 1
  /\ k \in 3..9 =>
       /\ R[core.reg[3]] = 2 * h
       /\ \E q \in Nat : /\ q < h
                         /\ k \in 3..5 => R[core.reg[2]] = 2 * q + 1
                         /\ k \in 6..8 => R[core.reg[2]] = 2 * q + 2
                         /\ k = 9 => R[core.reg[2]] = 2 * q + 3
  /\ k >= 10 => R[core.reg[2]] = 2 * h + 1

\* At instruction k of a program.
Where(R, core, p, cmd, k) ==
  core.kind = "cached" =>
    IF cmd.type \in DOMAIN Fold
      THEN Round(R, core, cmd, k)
      ELSE \E m \in {2, 3} : IsLoop(p, core, cmd, m) /\ Turn(R, core, cmd, Len(p), m, k)

LEMMA WhereStart ==
  ASSUME NEW R, NEW core, NEW p, NEW cmd, Shaped(core, p, cmd)
  PROVE  Where(R, core, p, cmd, 0)
<1>1. CASE core.kind # "cached"
  BY <1>1 DEF Where
<1>2. CASE core.kind = "cached" /\ cmd.type \in DOMAIN Fold
  <2>1. Round(R, core, cmd, 0)
    BY DEF Round
  <2> QED BY <1>2, <2>1 DEF Where
<1>3. CASE core.kind = "cached" /\ cmd.type \notin DOMAIN Fold
  <2>1. PICK m \in {2, 3} : IsLoop(p, core, cmd, m)
    BY <1>3 DEF Shaped
  <2>2. 0 # m - 1 /\ 0 \notin m..(Len(p) - 1)
    OBVIOUS
  <2>3. Turn(R, core, cmd, Len(p), m, 0)
    BY <2>2 DEF Turn
  <2> QED BY <1>3, <2>1, <2>3 DEF Where
<1> QED BY <1>1, <1>2, <1>3

\* The address of an access.
LEMMA Address ==
  ASSUME NEW i
  PROVE  Core!At(i) = i.addr + (IF OffsetReg(i) = NoReg THEN 0 ELSE sreg[OffsetReg(i)])
  BY DEF Core!At, Core!Offset, Core!OffsetReg, OffsetReg, Core!NoReg, NoReg

LEMMA LoopAccess ==
  ASSUME NEW core \in Setups, NEW cmd, Sound(core, cmd), NEW p, NEW m \in {2, 3},
         IsLoop(p, core, cmd, m), NEW k \in 0..(Len(p) - 1),
         Turn(sreg, core, cmd, Len(p), m, k), IsMem(p[k + 1])
  PROVE  Allowed(p[k + 1], Core!At(p[k + 1]), cmd)
<1> DEFINE n == Len(p)
           len == Extent(cmd.r1)
           w == SelWindow(core, len)
           i == p[k + 1]
<1>1. /\ n \in Nat /\ n >= m + 2
      /\ \A j \in 1..m : p[j] \in Straight /\ p[j].op = "MOV"
      /\ \A j \in (m + 1)..(n - 2) : p[j] \in Body(core, cmd)
      /\ p[n - 1] = INC(core.reg[1], w, cmd.dtype)
      /\ p[n] = JL(core.reg[1], core.reg[2], m, cmd.dtype)
  BY DEF IsLoop
<1>2. p[n - 1].op = "IMM_ADD" /\ p[n].op = "JL"
  BY <1>1, Fields DEF INC, JL
<1>3. k + 1 \notin 1..m /\ k + 1 # n - 1 /\ k + 1 # n
  BY <1>1, <1>2 DEF IsMem, MemOps
<1>4. k + 1 \in (m + 1)..(n - 2) /\ k \in m..(n - 1) /\ k # n - 1
  BY <1>1, <1>3
<1>5. PICK q \in Nat : sreg[core.reg[1]] = q * w /\ q * w + w <= len
  BY <1>4 DEF Turn
<1>6. i \in Body(core, cmd) /\ IsMem(i)
  BY <1>1, <1>4
<1> HIDE DEF i
<1>7. OffsetReg(i) = core.reg[1] /\ core.reg[1] # NoReg
  BY <1>6, CoreFacts, RegNames DEF Body
<1>8. Core!At(i) = i.addr + q * w
  BY <1>5, <1>7, Address
<1>9. q * w \in Nat
  <2>1. len \in Nat \ {0}
    BY RangeFacts DEF Sound
  <2>2. w \in Nat
    BY <2>1, WindowFacts, SMTT(40)
  <2> HIDE DEF w
  <2> QED BY <2>2
<1>10. Fits(cmd)
  BY DEF Sound
<1>11. Allowed(i, i.addr + q * w, cmd)
  <2> DEFINE x == q * w
  <2>1. x \in Nat /\ x + w <= len
    BY <1>5, <1>9
  <2> HIDE DEF x
  <2>2. Allowed(i, i.addr + x, cmd)
    BY <1>6, <1>10, <2>1 DEF Body
  <2> QED BY <2>2 DEF x
<1> QED BY <1>8, <1>11 DEF i

\* Half of a number of chunks, the first left out.
LEMMA Halved ==
  ASSUME NEW n \in Nat, n >= 3
  PROVE  LET h == (n - 1) \div 2 IN
         h \in Nat /\ 2 * h + 1 <= n /\ (n % 2 = 0 => 2 * h + 2 = n)
  OBVIOUS

\* The kernel of a reduction reads in four places.
LEMMA FoldReads ==
  ASSUME NEW p, NEW core, NEW cmd, IsFold(p, core, cmd)
  PROVE  /\ \A n \in {1, 4, 7} : p[n].op = "READ" /\ p[n].addr = cmd.r1[1]
         /\ OffsetReg(p[1]) = NoReg /\ OffsetReg(p[4]) = core.reg[2]
         /\ OffsetReg(p[7]) = core.reg[2]
         /\ Extent(cmd.r1) % 2 = 0 =>
              p[11].op = "READ" /\ p[11].addr = cmd.r1[1] /\ OffsetReg(p[11]) = core.reg[2]
<1> DEFINE a == cmd.r1[1]
<1>1. ASSUME NEW r, NEW v, NEW d
      PROVE  /\ READ(a, r, v, d).op = "READ" /\ READ(a, r, v, d).addr = a
             /\ OffsetReg(READ(a, r, v, d)) = r
  BY Fields DEF READ, OffsetReg
<1>2. /\ p[1] = READ(a, NoReg, core.vec[1], Int32)
      /\ p[4] = READ(a, core.reg[2], core.vec[2], cmd.dtype)
      /\ p[7] = READ(a, core.reg[2], core.vec[3], cmd.dtype)
      /\ Extent(cmd.r1) % 2 = 0 => p[11] = READ(a, core.reg[2], core.vec[3], cmd.dtype)
  BY DEF IsFold
<1>3. p[1].op = "READ" /\ p[1].addr = a /\ OffsetReg(p[1]) = NoReg
  BY <1>1, <1>2
<1>4. p[4].op = "READ" /\ p[4].addr = a /\ OffsetReg(p[4]) = core.reg[2]
  BY <1>1, <1>2
<1>5. p[7].op = "READ" /\ p[7].addr = a /\ OffsetReg(p[7]) = core.reg[2]
  BY <1>1, <1>2
<1>6. Extent(cmd.r1) % 2 = 0 =>
        p[11].op = "READ" /\ p[11].addr = a /\ OffsetReg(p[11]) = core.reg[2]
  BY <1>1, <1>2
<1> QED BY <1>3, <1>4, <1>5, <1>6

\* ... and its other instructions are these.
LEMMA FoldOps ==
  ASSUME NEW p, NEW core, NEW cmd, IsFold(p, core, cmd)
  PROVE  /\ Len(p) = IF Extent(cmd.r1) % 2 = 0 THEN 13 ELSE 11
         /\ p[2].op = "MOV" /\ p[3].op = "MOV" /\ p[6].op = "IMM_ADD" /\ p[9].op = "IMM_ADD"
         /\ p[5].op \in VecOps \cup Ignored /\ p[8].op \in VecOps \cup Ignored
         /\ p[10].op = "JL" /\ p[Len(p)].op \in RedOps
         /\ Extent(cmd.r1) % 2 = 0 => p[12].op \in VecOps \cup Ignored
<1>1. /\ p[2] = SET(core.reg[2], 1) /\ p[3] = SET(core.reg[3], ((Extent(cmd.r1) - 1) \div 2) * 2)
      /\ p[6] = INC(core.reg[2], 1, cmd.dtype) /\ p[9] = INC(core.reg[2], 1, Int32)
      /\ p[10] = JL(core.reg[2], core.reg[3], 3, Int32)
  BY DEF IsFold
<1>2. p[2].op = "MOV" /\ p[3].op = "MOV"
  BY <1>1, Fields DEF SET
<1>3. p[6].op = "IMM_ADD" /\ p[9].op = "IMM_ADD"
  BY <1>1, Fields DEF INC
<1>4. p[10].op = "JL"
  BY <1>1, Fields DEF JL
<1>5. /\ Len(p) = IF Extent(cmd.r1) % 2 = 0 THEN 13 ELSE 11
      /\ p[5].op \in VecOps \cup Ignored /\ p[8].op \in VecOps \cup Ignored
      /\ p[Len(p)].op \in RedOps
      /\ Extent(cmd.r1) % 2 = 0 => p[12].op \in VecOps \cup Ignored
  BY DEF IsFold
<1> QED BY <1>2, <1>3, <1>4, <1>5

\* So those are the places of its accesses.
LEMMA FoldPlaces ==
  ASSUME NEW p, NEW core, NEW cmd, IsFold(p, core, cmd), NEW k \in 0..(Len(p) - 1),
         IsMem(p[k + 1])
  PROVE  k \in {0, 3, 6} \/ (k = 10 /\ Extent(cmd.r1) % 2 = 0)
<1>1. \A j : j.op \in {"MOV", "IMM_ADD", "JL"} \cup VecOps \cup Ignored \cup RedOps => ~IsMem(j)
  BY DEF IsMem, MemOps, VecOps, Ignored, RedOps
<1>2. /\ ~IsMem(p[2]) /\ ~IsMem(p[3]) /\ ~IsMem(p[5]) /\ ~IsMem(p[6]) /\ ~IsMem(p[8])
      /\ ~IsMem(p[9]) /\ ~IsMem(p[10]) /\ ~IsMem(p[Len(p)])
  BY <1>1, FoldOps
<1>3. Extent(cmd.r1) % 2 = 0 => ~IsMem(p[12])
  BY <1>1, FoldOps
<1>4. k # 1 /\ k # 2 /\ k # 4 /\ k # 5 /\ k # 7 /\ k # 8 /\ k # 9
  BY <1>2
<1>5. Len(p) = IF Extent(cmd.r1) % 2 = 0 THEN 13 ELSE 11
  BY FoldOps
<1>6. CASE Extent(cmd.r1) % 2 = 0
  <2>1. Len(p) = 13
    BY <1>5, <1>6
  <2>2. k \in 0..12 /\ k # 11 /\ k # 12
    BY <1>2, <1>3, <1>6, <2>1
  <2> QED BY <1>4, <1>6, <2>2
<1>7. CASE Extent(cmd.r1) % 2 # 0
  <2>1. Len(p) = 11
    BY <1>5, <1>7
  <2>2. k \in 0..10 /\ k # 10
    BY <1>2, <2>1
  <2> QED BY <1>4, <2>2
<1> QED BY <1>6, <1>7

LEMMA FoldAccess ==
  ASSUME NEW core \in Setups, NEW cmd, Sound(core, cmd), NEW p, cmd.type \in DOMAIN Fold,
         core.kind = "cached", IsFold(p, core, cmd), NEW k \in 0..(Len(p) - 1),
         Round(sreg, core, cmd, k), IsMem(p[k + 1])
  PROVE  Allowed(p[k + 1], Core!At(p[k + 1]), cmd)
<1> DEFINE len == Extent(cmd.r1)
           h == (len - 1) \div 2
           a == cmd.r1[1]
<1>1. /\ len \in Nat /\ len >= 3 /\ a \in Nat /\ cmd.r1[2] = a + len
      /\ core.reg[2] \in SReg /\ core.reg[2] # NoReg
  BY RangeFacts, CoreFacts, RegNames DEF Sound
<1>2. h \in Nat /\ 2 * h + 1 <= len /\ (len % 2 = 0 => 2 * h + 2 = len)
  <2> HIDE DEF len
  <2> QED BY <1>1, Halved
<1>3. ASSUME NEW j, j.op = "READ", j.addr = a, NEW x \in Nat, x < len,
             (OffsetReg(j) = NoReg /\ x = 0) \/ (OffsetReg(j) = core.reg[2] /\ sreg[core.reg[2]] = x)
      PROVE  Allowed(j, Core!At(j), cmd)
  <2>1. Core!At(j) = a + x
    BY <1>1, <1>3, Address
  <2>2. In(a + x, cmd.r1)
    BY <1>1, <1>3 DEF In
  <2> QED BY <1>3, <2>1, <2>2 DEF Allowed
<1>4. /\ p[1].op = "READ" /\ p[1].addr = a /\ OffsetReg(p[1]) = NoReg
      /\ p[4].op = "READ" /\ p[4].addr = a /\ OffsetReg(p[4]) = core.reg[2]
      /\ p[7].op = "READ" /\ p[7].addr = a /\ OffsetReg(p[7]) = core.reg[2]
      /\ len % 2 = 0 =>
           p[11].op = "READ" /\ p[11].addr = a /\ OffsetReg(p[11]) = core.reg[2]
  BY FoldReads
<1>5. k \in {0, 3, 6} \/ (k = 10 /\ len % 2 = 0)
  BY FoldPlaces
<1> HIDE DEF h, len, a
<1>6. CASE k = 0
  <2>1. 0 \in Nat /\ 0 < len
    BY <1>1
  <2> QED BY <1>3, <1>4, <1>6, <2>1
<1>7. CASE k = 3
  <2>1. PICK q \in Nat : q < h /\ sreg[core.reg[2]] = 2 * q + 1
    BY <1>7 DEF Round, h, len
  <2>2. 2 * q + 1 \in Nat /\ 2 * q + 1 < len
    BY <1>1, <1>2, <2>1, SMTT(40)
  <2> QED BY <1>3, <1>4, <1>7, <2>1, <2>2
<1>8. CASE k = 6
  <2>1. PICK q \in Nat : q < h /\ sreg[core.reg[2]] = 2 * q + 2
    BY <1>8 DEF Round, h, len
  <2>2. 2 * q + 2 \in Nat /\ 2 * q + 2 < len
    BY <1>1, <1>2, <2>1, SMTT(40)
  <2> QED BY <1>3, <1>4, <1>8, <2>1, <2>2
<1>9. CASE k = 10 /\ len % 2 = 0
  <2>1. sreg[core.reg[2]] = 2 * h + 1
    BY <1>9 DEF Round, h, len
  <2>2. 2 * h + 1 \in Nat /\ 2 * h + 1 < len
    BY <1>1, <1>2, <1>9
  <2> QED BY <1>3, <1>4, <1>9, <2>1, <2>2
<1> QED BY <1>5, <1>6, <1>7, <1>8, <1>9

\* Any access of a program, where its registers are as they should be.
LEMMA AccessAllowed ==
  ASSUME NEW core \in Setups, NEW cmd, Sound(core, cmd), NEW p, Shaped(core, p, cmd),
         NEW k \in 0..(Len(p) - 1), Where(sreg, core, p, cmd, k), IsMem(p[k + 1])
  PROVE  Allowed(p[k + 1], Core!At(p[k + 1]), cmd)
<1>1. CASE core.kind = "cached" /\ cmd.type \in DOMAIN Fold
  BY <1>1, FoldAccess DEF Shaped, Where
<1>2. CASE core.kind = "cached" /\ cmd.type \notin DOMAIN Fold
  <2>1. PICK m \in {2, 3} : IsLoop(p, core, cmd, m) /\ Turn(sreg, core, cmd, Len(p), m, k)
    BY <1>2 DEF Where
  <2> QED BY <2>1, LoopAccess
<1>3. CASE core.kind # "cached"
  <2>1. p \in Seq(Direct(cmd))
    BY <1>3 DEF Shaped
  <2>2. k + 1 \in DOMAIN p
    BY <2>1
  <2> DEFINE i == p[k + 1]
  <2>3. i \in Direct(cmd) /\ IsMem(i)
    BY <2>1, <2>2
  <2> HIDE DEF i
  <2>4. /\ OffsetReg(i) = NoReg /\ Allowed(i, i.addr, cmd) /\ i.addr \in Int
    BY <2>3 DEF Direct, Sound, Straight, Legal, Worded
  <2>5. Core!At(i) = i.addr
    BY <2>4, Address
  <2> QED BY <2>4, <2>5 DEF i
<1> QED BY <1>1, <1>2, <1>3

-----------------------------------------------------------------------------
(* The scalar registers in a step.                                         *)

\* Most instructions leave them.
LEMMA QuietStep ==
  ASSUME NEW i, Effect(i), i.op \in MemOps \cup VecOps \cup ScalarOps \cup Ignored \cup CondJumps
  PROVE  sreg' = sreg
<1>1. i.op # "MOV" /\ i.op # "IMM_ADD" /\ i.op \notin RedOps
  BY DEF MemOps, VecOps, ScalarOps, Ignored, CondJumps, RedOps
<1>2. CASE Read(i)
  BY <1>2 DEF Read, Core!Read, Core!Latch
<1>3. CASE Write(i)
  BY <1>3 DEF Write, Core!Latch
<1>4. ~Core!Move(i) /\ ~Add(i)
  BY <1>1 DEF Core!Move, Add
<1>5. CASE Core!Control(i)
  BY <1>5 DEF Core!Control
<1>6. CASE MapVec(i)
  BY <1>6 DEF MapVec, Core!Shared
<1>7. CASE MapScalarVec(i)
  BY <1>7 DEF MapScalarVec, Core!Shared
<1> QED BY <1>1, <1>2, <1>3, <1>4, <1>5, <1>6, <1>7 DEF Effect

\* No instruction but an addition is one of IMM_ADD, and so on.
LEMMA OneEffect ==
  ASSUME NEW i, Effect(i)
  PROVE  /\ i.op = "MOV" => Core!Move(i)
         /\ i.op = "IMM_ADD" => Add(i)
         /\ i.op \in CondJumps => Core!Control(i)
<1>1. /\ "MOV" \notin VecOps \cup ScalarOps \cup RedOps
      /\ "IMM_ADD" \notin VecOps \cup ScalarOps \cup RedOps
      /\ CondJumps \cap (VecOps \cup ScalarOps \cup RedOps \cup {"READ", "WRITE", "MOV", "IMM_ADD"}) = {}
  BY DEF VecOps, ScalarOps, RedOps, CondJumps
<1>2. /\ "MOV" \notin CondJumps \cup Ignored \cup {"JMP", "NOP"}
      /\ "IMM_ADD" \notin CondJumps \cup Ignored \cup {"JMP", "NOP"}
  BY DEF CondJumps, Ignored
<1>3. Core!CondJumps = CondJumps /\ Core!Ignored = Ignored
  BY DEF CondJumps, Ignored, Core!CondJumps, Core!Ignored
<1>4. /\ Read(i) => i.op = "READ"
      /\ Write(i) => i.op = "WRITE"
      /\ Core!Move(i) => i.op = "MOV"
      /\ Add(i) => i.op = "IMM_ADD"
      /\ Core!Control(i) => i.op \in CondJumps \cup Ignored \cup {"JMP", "NOP"}
  BY <1>3 DEF Read, Write, Core!Move, Add, Core!Control
<1> QED BY <1>1, <1>2, <1>4 DEF Effect

LEMMA SetStep ==
  ASSUME RegsOK, NEW r \in SReg, NEW n, Effect(SET(r, n))
  PROVE  sreg'[r] = n /\ \A s \in SReg : s # r => sreg'[s] = sreg[s]
<1> DEFINE i == SET(r, n)
<1>1. i.op = "MOV" /\ i.in1 = NoReg /\ i.dst = r /\ i.imm = n
  BY Fields DEF SET
<1>2. Effect(i)
  OBVIOUS
<1> HIDE DEF i
<1>3. Core!Scalar(i.dst, i.imm)
  <2>1. Core!Move(i)
    BY <1>1, <1>2, OneEffect
  <2>2. Core!NoReg = NoReg
    BY DEF Core!NoReg, NoReg
  <2> QED BY <1>1, <2>1, <2>2, RegNames DEF Core!Move
<1> QED BY <1>1, <1>3 DEF Core!Scalar, RegsOK

LEMMA IncStep ==
  ASSUME RegsOK, NEW r \in SReg, NEW n, NEW d, Effect(INC(r, n, d))
  PROVE  /\ sreg'[r] = Cast(d, Cast(d, sreg[r]) + Cast(d, n))
         /\ \A s \in SReg : s # r => sreg'[s] = sreg[s]
<1> DEFINE i == INC(r, n, d)
<1>1. i.op = "IMM_ADD" /\ i.in1 = r /\ i.dst = r /\ i.imm = n /\ i.dtype = d
  BY Fields DEF INC
<1>2. Effect(i)
  OBVIOUS
<1> HIDE DEF i
<1>3. Core!Scalar(r, Cast(d, Cast(d, sreg[r]) + Cast(d, n)))
  BY <1>1, <1>2, OneEffect DEF Add, Dest
<1> QED BY <1>3 DEF Core!Scalar, RegsOK

\* A conditional jump compares.
LEMMA JumpStep ==
  ASSUME NEW i, Effect(i), i.op = "JL"
  PROVE  /\ sreg' = sreg
         /\ IF Cast(i.dtype, sreg[i.in1]) < Cast(i.dtype, sreg[i.in2])
              THEN Target(i) = i.addr
              ELSE Target(i) = IF Cached THEN Succ(pc) ELSE pc + 1
<1>1. "JL" \in CondJumps
  BY DEF CondJumps
<1>2. sreg' = sreg
  BY <1>1, QuietStep
<1> QED BY <1>1, <1>2 DEF Target, Taken

\* Other instructions go on behind themselves.
LEMMA NextTarget ==
  ASSUME NEW i, i.op \notin CondJumps
  PROVE  Target(i) = IF Cached THEN Succ(pc) ELSE pc + 1
  BY DEF Target

\* Numbers below the width of a type stay what they are in it.
LEMMA CastExact ==
  ASSUME NEW d, NEW n \in Nat, d = Int32 \/ n < Narrow
  PROVE  Cast(d, n) = n
  BY NarrowAssumption DEF Cast

-----------------------------------------------------------------------------
(* The commands that are sound.                                            *)

LEMMA Soundness ==
  ASSUME setup \in Setups, NEW c \in Commands, Accepted(ToCommand(c)),
         Deviates(ToCommand(c)) \subseteq {"min", "ragged"}
  PROVE  /\ Sound(setup, ToCommand(c))
         /\ Cached => Len(cache) + Len(ProgramOf(ToCommand(c))) # CacheSize
<1> DEFINE cmd == ToCommand(c)
<1>1. Ranged(setup, cmd) /\ Extent(cmd.r1) \in Nat
  BY CommandFacts, RangeFacts
<1>2. Accepted(cmd) /\ Deviates(cmd) \subseteq {"min", "ragged"}
  OBVIOUS
<1> HIDE DEF cmd
<1>3. /\ "short" \notin Deviates(cmd) /\ "narrow" \notin Deviates(cmd)
      /\ "uneven" \notin Deviates(cmd) /\ "full" \notin Deviates(cmd)
  BY <1>2
<1>4. /\ cmd.type \in DOMAIN VecVec => cmd.type \notin DOMAIN Fold
      /\ cmd.type \in DOMAIN VecScalar => cmd.type \notin DOMAIN Fold
  BY Operations
<1>5. cmd.type \notin DOMAIN Fold => Even(cmd)
  BY <1>3 DEF Deviates
<1>6. cmd.type \in DOMAIN VecVec => Extent(cmd.r1) = Extent(cmd.r2)
  <2>1. DOMAIN VecVec \cap DOMAIN VecScalar = {}
    BY DEF VecVec, VecScalar
  <2> QED BY <1>2, <1>4, <2>1 DEF Accepted
<1>7. Fits(cmd)
  BY <1>5, <1>6 DEF Fits, Even
<1>8. Cached /\ cmd.type \in DOMAIN Fold => ~(Extent(cmd.r1) < 3) /\ setup.dtype = Int32
  BY <1>3 DEF Deviates
<1>9. Cached /\ cmd.type \notin DOMAIN Fold => setup.dtype = Int32 \/ ~(Extent(cmd.r1) >= Narrow)
  BY <1>3 DEF Deviates
<1>10. Cached => Len(cache) + Len(ProgramOf(cmd)) # CacheSize
  BY <1>3 DEF Deviates
<1>11. Sound(setup, cmd)
  BY <1>1, <1>7, <1>8, <1>9, NarrowAssumption DEF Sound, Cached
<1> QED BY <1>10, <1>11 DEF cmd

-----------------------------------------------------------------------------
(* A step in a program.                                                    *)

\* An instruction that was loaded: only the targets of jumps are moved.
Moved(i, j, s) ==
  IF IsJump(j) THEN /\ i.op = j.op /\ i.in1 = j.in1 /\ i.in2 = j.in2 /\ i.dtype = j.dtype
                    /\ i.addr = j.addr + s
               ELSE i = j

\* The step goes on in the program at s, or to its end.
GoesOn(p, cmd, s) ==
  \E t \in 0..Len(p) : pc' = s + t /\ (t < Len(p) => Where(sreg', setup, p, cmd, t))

LEMMA Behind ==
  ASSUME pc \in Nat, Cached => pc + 1 < CacheSize, NEW i, i.op \notin CondJumps
  PROVE  Target(i) = pc + 1
  BY NextTarget, SizeAssumption DEF Succ

\* A loop: what it does at its places.
LEMMA LoopFacts ==
  ASSUME NEW p, NEW core, NEW cmd, NEW m \in {2, 3}, IsLoop(p, core, cmd, m)
  PROVE  /\ Len(p) \in Nat /\ Len(p) >= m + 2
         /\ \A j \in 1..m : p[j].op = "MOV" /\ ~IsJump(p[j])
         /\ p[m - 1] = SET(core.reg[1], 0) /\ p[m] = SET(core.reg[2], Extent(cmd.r1))
         /\ \A j \in (m + 1)..(Len(p) - 2) :
              p[j].op \in MemOps \cup VecOps \cup ScalarOps /\ ~IsJump(p[j])
         /\ p[Len(p) - 1] = INC(core.reg[1], SelWindow(core, Extent(cmd.r1)), cmd.dtype)
         /\ p[Len(p)] = JL(core.reg[1], core.reg[2], m, cmd.dtype)
  BY DEF IsLoop, Straight, Body

\* A multiple of w below a multiple of w leaves room for another w.
LEMMA Room ==
  ASSUME NEW q \in Nat, NEW w \in Nat \ {0}, NEW len \in Nat, len % w = 0, q * w < len
  PROVE  q * w + w <= len
<1>1. PICK d \in Nat : len = d * w
  <2>1. len = (len \div w) * w /\ len \div w \in Nat
    OBVIOUS
  <2> QED BY <2>1
<1>2. q < d
  <2>1. CASE d < q
    BY <1>1, <2>1, Tables!MultiplesApart
  <2>2. CASE d = q
    BY <1>1, <2>2
  <2> QED BY <2>1, <2>2
<1> QED BY <1>1, <1>2, Tables!MultiplesApart

\* The head of a loop.
LEMMA HeadStep ==
  ASSUME RegsOK, setup \in Setups, NEW cmd, Ranged(setup, cmd), NEW p, NEW m \in {2, 3},
         IsLoop(p, setup, cmd, m), NEW k \in 0..(m - 1), Turn(sreg, setup, cmd, Len(p), m, k),
         Effect(p[k + 1])
  PROVE  Turn(sreg', setup, cmd, Len(p), m, k + 1)
<1> DEFINE len == Extent(cmd.r1)
           w == SelWindow(setup, len)
           n == Len(p)
           a == setup.reg[1]
           b == setup.reg[2]
<1>1. /\ n \in Nat /\ n >= m + 2 /\ p[m - 1] = SET(a, 0) /\ p[m] = SET(b, len)
      /\ a \in SReg /\ b \in SReg /\ a # b /\ len \in Nat \ {0}
  BY LoopFacts, CoreFacts, RangeFacts
<1>2. w \in 1..len
  BY <1>1, WindowFacts
<1> HIDE DEF len, w, n, a, b
<1>3. CASE k = m - 1
  <2>1. sreg[a] = 0
    BY <1>3 DEF Turn, a
  <2>2. Effect(SET(b, len))
    BY <1>1, <1>3
  <2>3. sreg'[b] = len /\ sreg'[a] = 0
    BY <1>1, <2>1, <2>2, SetStep
  <2>4. 0 * w = 0 /\ 0 * w + w <= len /\ k + 1 = m /\ k + 1 # m - 1 /\ k + 1 # n - 1
    BY <1>1, <1>2, <1>3
  <2>5. \E q \in Nat : sreg'[a] = q * w /\ q * w + w <= len
    BY <2>3, <2>4
  <2> QED BY <2>3, <2>4, <2>5 DEF Turn, len, w, n, a, b
<1>4. CASE k = m - 2
  <2>1. Effect(SET(a, 0))
    BY <1>1, <1>4
  <2>2. sreg'[a] = 0
    BY <1>1, <2>1, SetStep
  <2>3. k + 1 \notin m..(n - 1)
    BY <1>1, <1>4
  <2> QED BY <2>2, <2>3 DEF Turn, a, n
<1>5. CASE k < m - 2
  <2>1. k + 1 # m - 1 /\ k + 1 \notin m..(n - 1)
    BY <1>1, <1>5
  <2> QED BY <2>1 DEF Turn, n
<1> QED BY <1>3, <1>4, <1>5

\* Its body.
LEMMA BodyStep ==
  ASSUME NEW core, NEW cmd, NEW p, NEW m \in {2, 3}, NEW k \in m..(Len(p) - 3), Len(p) \in Nat,
         Turn(sreg, core, cmd, Len(p), m, k), sreg' = sreg
  PROVE  Turn(sreg', core, cmd, Len(p), m, k + 1)
<1> DEFINE n == Len(p)
<1>1. /\ n \in Nat /\ k \in m..(n - 3)
      /\ k \in m..(n - 1) /\ k # n - 1 /\ k + 1 # n - 1 /\ k + 1 # m - 1
  OBVIOUS
<1> HIDE DEF n
<1> QED BY <1>1 DEF Turn, n

\* Its counter.
LEMMA CountStep ==
  ASSUME RegsOK, setup \in Setups, NEW cmd, Sound(setup, cmd), Cached, cmd.type \notin DOMAIN Fold,
         NEW p, NEW m \in {2, 3}, IsLoop(p, setup, cmd, m),
         Turn(sreg, setup, cmd, Len(p), m, Len(p) - 2), Effect(p[Len(p) - 1])
  PROVE  Turn(sreg', setup, cmd, Len(p), m, Len(p) - 1)
<1> DEFINE len == Extent(cmd.r1)
           w == SelWindow(setup, len)
           n == Len(p)
           a == setup.reg[1]
           b == setup.reg[2]
<1>1. /\ n \in Nat /\ n >= m + 2 /\ p[n - 1] = INC(a, w, cmd.dtype)
      /\ a \in SReg /\ b \in SReg /\ a # b /\ len \in Nat \ {0}
  BY LoopFacts, CoreFacts, RangeFacts DEF Sound
<1>2. w \in 1..len
  BY <1>1, WindowFacts
<1>3. cmd.dtype = Int32 \/ len < Narrow
  BY DEF Sound, Ranged, Cached
<1>4. n - 2 \in m..(n - 1) /\ n - 2 # n - 1 /\ n - 1 # m - 1 /\ n - 1 \in m..(n - 1)
  <2> HIDE DEF n
  <2> QED BY <1>1
<1>5. sreg[b] = len
  BY <1>4 DEF Turn
<1>6. PICK q \in Nat : sreg[a] = q * w /\ q * w + w <= len
  BY <1>4 DEF Turn
<1> HIDE DEF len, w, n, a, b
<1>7. Effect(INC(a, w, cmd.dtype))
  BY <1>1 DEF n
<1>8. /\ sreg'[a] = Cast(cmd.dtype, Cast(cmd.dtype, sreg[a]) + Cast(cmd.dtype, w))
      /\ sreg'[b] = sreg[b]
  BY <1>1, <1>7, IncStep
<1>9. q * w \in Nat /\ q * w + w = (q + 1) * w /\ (q + 1) * w \in Nat
  BY <1>2
<1>10. sreg'[a] = (q + 1) * w
  <2> DEFINE x == q * w
             y == (q + 1) * w
  <2>1. x \in Nat /\ w \in Nat /\ x + w = y /\ y \in Nat /\ y <= len /\ len \in Nat
    BY <1>1, <1>2, <1>6, <1>9
  <2>2. sreg[a] = x
    BY <1>6
  <2> HIDE DEF x, y
  <2>3. /\ cmd.dtype = Int32 \/ x < Narrow
        /\ cmd.dtype = Int32 \/ w < Narrow
        /\ cmd.dtype = Int32 \/ y < Narrow
    BY <1>3, <2>1, NarrowAssumption
  <2>4. Cast(cmd.dtype, x) = x /\ Cast(cmd.dtype, w) = w
    BY <2>1, <2>3, CastExact
  <2>5. Cast(cmd.dtype, y) = y
    BY <2>1, <2>3, CastExact
  <2>6. sreg'[a] = y
    BY <1>8, <2>1, <2>2, <2>4, <2>5
  <2> QED BY <2>6 DEF y
<1>11. \E r \in Nat : sreg'[a] = r * w /\ r * w <= len
  <2>1. q + 1 \in Nat /\ (q + 1) * w <= len
    BY <1>6, <1>9
  <2> QED BY <1>10, <2>1
<1> QED BY <1>4, <1>5, <1>8, <1>11 DEF Turn, len, w, n, a, b

\* Its end: back to the first instruction of the body, or on.
LEMMA EndStep ==
  ASSUME setup \in Setups, NEW cmd, Sound(setup, cmd), Cached, cmd.type \notin DOMAIN Fold,
         NEW p, NEW m \in {2, 3}, IsLoop(p, setup, cmd, m), NEW s \in Nat,
         Turn(sreg, setup, cmd, Len(p), m, Len(p) - 1), pc = s + Len(p) - 1,
         pc + 1 < CacheSize, NEW i, Moved(i, p[Len(p)], s), Effect(i)
  PROVE  \/ Target(i) = s + Len(p)
         \/ Target(i) = s + m /\ Turn(sreg', setup, cmd, Len(p), m, m)
<1> DEFINE len == Extent(cmd.r1)
           w == SelWindow(setup, len)
           n == Len(p)
           a == setup.reg[1]
           b == setup.reg[2]
<1>1. /\ n \in Nat /\ n >= m + 2 /\ p[n] = JL(a, b, m, cmd.dtype) /\ len \in Nat \ {0}
  BY LoopFacts, RangeFacts DEF Sound
<1>2. w \in 1..len /\ len % w = 0
  BY <1>1, WindowFacts
<1>3. cmd.dtype = Int32 \/ len < Narrow
  BY DEF Sound, Ranged, Cached
<1>4. n - 1 \in m..(n - 1) /\ m # n - 1 /\ m # m - 1 /\ m \in m..(n - 1)
  <2> HIDE DEF n
  <2> QED BY <1>1
<1>5. sreg[b] = len
  BY <1>4 DEF Turn
<1>6. PICK q \in Nat : sreg[a] = q * w /\ q * w <= len
  BY <1>4 DEF Turn
<1>7. pc = s + n - 1
  OBVIOUS
<1> HIDE DEF len, w, n, a, b
<1>8. /\ i.op = "JL" /\ i.in1 = a /\ i.in2 = b /\ i.dtype = cmd.dtype /\ i.addr = m + s
  <2> DEFINE j == JL(a, b, m, cmd.dtype)
  <2>1. j.op = "JL" /\ j.in1 = a /\ j.in2 = b /\ j.dtype = cmd.dtype /\ j.addr = m
    BY Fields DEF JL
  <2>2. Moved(i, j, s)
    BY <1>1 DEF n
  <2> HIDE DEF j
  <2>3. IsJump(j)
    BY <2>1 DEF IsJump, CondJumps
  <2> QED BY <2>1, <2>2, <2>3 DEF Moved
<1>9. q * w \in Nat
  BY <1>2
<1>10. Cast(cmd.dtype, sreg[a]) = q * w /\ Cast(cmd.dtype, sreg[b]) = len
  <2> DEFINE x == q * w
  <2>1. x \in Nat /\ x <= len /\ sreg[a] = x
    BY <1>6, <1>9
  <2> HIDE DEF x
  <2>2. cmd.dtype = Int32 \/ x < Narrow
    BY <1>1, <1>3, <2>1, NarrowAssumption
  <2>3. Cast(cmd.dtype, x) = x /\ Cast(cmd.dtype, len) = len
    BY <1>1, <1>3, <2>1, <2>2, CastExact
  <2> QED BY <1>5, <2>1, <2>3 DEF x
<1>11. sreg' = sreg
  BY <1>8, JumpStep
<1>12. CASE q * w < len
  <2>1. Target(i) = m + s
    BY <1>8, <1>10, <1>12, JumpStep
  <2>2. q * w + w <= len
    <3>1. w \in Nat \ {0} /\ len \in Nat /\ len % w = 0 /\ q * w < len
      BY <1>1, <1>2, <1>12
    <3> QED BY <3>1, Room
  <2>3. \E r \in Nat : sreg[a] = r * w /\ r * w + w <= len
    BY <1>6, <2>2
  <2>4. Turn(sreg', setup, cmd, n, m, m)
    BY <1>4, <1>5, <1>11, <2>3 DEF Turn, len, w, a, b
  <2>5. m + s = s + m
    OBVIOUS
  <2> QED BY <2>1, <2>4, <2>5 DEF n
<1>13. CASE ~(q * w < len)
  <2>1. Target(i) = Succ(pc)
    BY <1>8, <1>10, <1>13, JumpStep
  <2>2. Succ(pc) = s + n
    BY <1>1, <1>7, SizeAssumption DEF Succ
  <2> QED BY <2>1, <2>2 DEF n
<1> QED BY <1>12, <1>13

LEMMA LoopStep ==
  ASSUME RegsOK, setup \in Setups, NEW cmd, Sound(setup, cmd), Cached, cmd.type \notin DOMAIN Fold,
         NEW p, NEW m \in {2, 3}, IsLoop(p, setup, cmd, m), NEW s \in Nat,
         NEW k \in 0..(Len(p) - 1), Turn(sreg, setup, cmd, Len(p), m, k),
         pc = s + k, pc + 1 < CacheSize, NEW i, Moved(i, p[k + 1], s), Effect(i),
         pc' = Target(i)
  PROVE  GoesOn(p, cmd, s)
<1> DEFINE n == Len(p)
<1>1. /\ n \in Nat /\ n >= m + 2 /\ k \in 0..(n - 1)
      /\ \A j \in 1..m : p[j].op = "MOV" /\ ~IsJump(p[j])
      /\ \A j \in (m + 1)..(n - 2) :
           p[j].op \in MemOps \cup VecOps \cup ScalarOps /\ ~IsJump(p[j])
      /\ p[n - 1].op = "IMM_ADD" /\ ~IsJump(p[n - 1])
  <2>1. p[n - 1].op = "IMM_ADD"
    BY LoopFacts, Fields DEF INC
  <2>2. ~IsJump(p[n - 1])
    BY <2>1 DEF IsJump, CondJumps
  <2>3. n \in Nat /\ n >= m + 2
    BY LoopFacts
  <2>4. \A j \in 1..m : p[j].op = "MOV" /\ ~IsJump(p[j])
    BY LoopFacts
  <2>5. \A j \in (m + 1)..(n - 2) :
          p[j].op \in MemOps \cup VecOps \cup ScalarOps /\ ~IsJump(p[j])
    BY LoopFacts
  <2> QED BY <2>1, <2>2, <2>3, <2>4, <2>5
<1>2. Ranged(setup, cmd)
  BY DEF Sound
<1>3. /\ pc \in Nat /\ pc + 1 = s + (k + 1) /\ Turn(sreg, setup, cmd, n, m, k)
  OBVIOUS
<1>4. ASSUME NEW t \in 0..n, pc' = s + t, t < n => Turn(sreg', setup, cmd, n, m, t)
      PROVE  GoesOn(p, cmd, s)
  BY <1>4 DEF GoesOn, Where, Cached
<1>5. ~IsJump(p[k + 1]) => Effect(p[k + 1]) /\ pc' = s + (k + 1)
  <2>1. SUFFICES ASSUME ~IsJump(p[k + 1])
                 PROVE  Effect(p[k + 1]) /\ pc' = s + (k + 1)
    OBVIOUS
  <2>2. i = p[k + 1]
    BY <2>1 DEF Moved
  <2>3. i.op \notin CondJumps
    BY <2>1, <2>2 DEF IsJump
  <2> QED BY <1>3, <2>2, <2>3, Behind
<1>6. n \in Nat /\ n >= m + 2 /\ k \in 0..(n - 1)
  BY <1>1
<1> HIDE DEF n
<1>7. CASE k <= m - 1
  <2>1. ~IsJump(p[k + 1]) /\ k \in 0..(m - 1) /\ k + 1 \in 0..n
    BY <1>1, <1>7
  <2>2. Turn(sreg', setup, cmd, n, m, k + 1)
    BY <1>2, <1>3, <1>5, <2>1, HeadStep DEF n
  <2> QED BY <1>4, <1>5, <2>1, <2>2
<1>8. CASE m <= k /\ k <= n - 3
  <2>1. k + 1 \in (m + 1)..(n - 2) /\ k + 1 \in 0..n /\ k \in m..(n - 3)
    <3>1. m \in Nat /\ n \in Nat /\ k \in Nat /\ m <= k /\ k <= n - 3
      BY <1>6, <1>8
    <3>2. k + 1 \in (m + 1)..(n - 2)
      BY <3>1
    <3>3. k + 1 \in 0..n
      BY <3>1
    <3>4. k \in m..(n - 3)
      BY <3>1
    <3> QED BY <3>2, <3>3, <3>4
  <2>2. ~IsJump(p[k + 1]) /\ p[k + 1].op \in MemOps \cup VecOps \cup ScalarOps
    BY <1>1, <2>1
  <2>3. sreg' = sreg
    BY <1>5, <2>2, QuietStep
  <2>4. Turn(sreg', setup, cmd, n, m, k + 1)
    BY <1>1, <1>3, <2>1, <2>3, BodyStep DEF n
  <2> QED BY <1>4, <1>5, <2>1, <2>2, <2>4
<1>9. CASE k = n - 2
  <2>1. k + 1 = n - 1 /\ k + 1 \in 0..n
    BY <1>1, <1>9
  <2>2. ~IsJump(p[k + 1]) /\ Effect(p[n - 1])
    BY <1>1, <1>5, <2>1
  <2>3. Turn(sreg', setup, cmd, n, m, n - 1)
    BY <1>3, <1>9, <2>2, CountStep DEF n
  <2> QED BY <1>4, <1>5, <2>1, <2>2, <2>3
<1>10. CASE k = n - 1
  <2>1. k + 1 = n /\ pc = s + n - 1 /\ m \in 0..n /\ n \in 0..n /\ ~(n < n)
    BY <1>1, <1>3, <1>10
  <2>2. Moved(i, p[n], s) /\ Turn(sreg, setup, cmd, n, m, n - 1)
    BY <1>3, <1>10, <2>1
  <2>3. Target(i) = s + n \/ (Target(i) = s + m /\ Turn(sreg', setup, cmd, n, m, m))
    <3>1. /\ Moved(i, p[Len(p)], s) /\ Turn(sreg, setup, cmd, Len(p), m, Len(p) - 1)
          /\ pc = s + Len(p) - 1
      BY <2>1, <2>2 DEF n
    <3>2. \/ Target(i) = s + Len(p)
          \/ Target(i) = s + m /\ Turn(sreg', setup, cmd, Len(p), m, m)
      BY <3>1, EndStep
    <3> QED BY <3>2 DEF n
  <2> QED BY <1>4, <2>1, <2>3
<1> QED BY <1>1, <1>7, <1>8, <1>9, <1>10

\* The kernel of a reduction: what it does at its places.
LEMMA FoldFacts ==
  ASSUME NEW p, NEW core, NEW cmd, IsFold(p, core, cmd)
  PROVE  /\ p[2] = SET(core.reg[2], 1)
         /\ p[3] = SET(core.reg[3], ((Extent(cmd.r1) - 1) \div 2) * 2)
         /\ p[6] = INC(core.reg[2], 1, cmd.dtype) /\ p[9] = INC(core.reg[2], 1, Int32)
         /\ p[10] = JL(core.reg[2], core.reg[3], 3, Int32)
         /\ \A j \in 1..Len(p) : j # 10 => ~IsJump(p[j])
<1>1. /\ p[2] = SET(core.reg[2], 1)
      /\ p[3] = SET(core.reg[3], ((Extent(cmd.r1) - 1) \div 2) * 2)
      /\ p[6] = INC(core.reg[2], 1, cmd.dtype) /\ p[9] = INC(core.reg[2], 1, Int32)
      /\ p[10] = JL(core.reg[2], core.reg[3], 3, Int32)
  BY DEF IsFold
<1>2. \A j : j.op \in {"READ", "MOV", "IMM_ADD"} \cup VecOps \cup Ignored \cup RedOps => ~IsJump(j)
  BY DEF IsJump, CondJumps, VecOps, Ignored, RedOps
<1>3. /\ Len(p) = IF Extent(cmd.r1) % 2 = 0 THEN 13 ELSE 11
      /\ ~IsJump(p[1]) /\ ~IsJump(p[2]) /\ ~IsJump(p[3]) /\ ~IsJump(p[4])
      /\ ~IsJump(p[5]) /\ ~IsJump(p[6]) /\ ~IsJump(p[7]) /\ ~IsJump(p[8]) /\ ~IsJump(p[9])
      /\ ~IsJump(p[Len(p)])
      /\ Extent(cmd.r1) % 2 = 0 => ~IsJump(p[11]) /\ ~IsJump(p[12])
  <2>1. Len(p) = IF Extent(cmd.r1) % 2 = 0 THEN 13 ELSE 11
    BY FoldOps
  <2>2. /\ p[2].op = "MOV" /\ p[3].op = "MOV" /\ p[6].op = "IMM_ADD" /\ p[9].op = "IMM_ADD"
        /\ p[5].op \in VecOps \cup Ignored /\ p[8].op \in VecOps \cup Ignored
        /\ p[Len(p)].op \in RedOps
        /\ Extent(cmd.r1) % 2 = 0 => p[12].op \in VecOps \cup Ignored
    BY FoldOps
  <2>3. /\ p[1].op = "READ" /\ p[4].op = "READ" /\ p[7].op = "READ"
        /\ Extent(cmd.r1) % 2 = 0 => p[11].op = "READ"
    BY FoldReads
  <2>4. /\ ~IsJump(p[2]) /\ ~IsJump(p[3]) /\ ~IsJump(p[5]) /\ ~IsJump(p[6])
        /\ ~IsJump(p[8]) /\ ~IsJump(p[9]) /\ ~IsJump(p[Len(p)])
    BY <1>2, <2>2
  <2>5. ~IsJump(p[1]) /\ ~IsJump(p[4]) /\ ~IsJump(p[7])
    BY <1>2, <2>3
  <2>6. Extent(cmd.r1) % 2 = 0 => ~IsJump(p[11]) /\ ~IsJump(p[12])
    BY <1>2, <2>2, <2>3
  <2> QED BY <2>1, <2>4, <2>5, <2>6
<1>4. ASSUME NEW j \in 1..Len(p), j # 10 PROVE ~IsJump(p[j])
  <2>1. CASE Extent(cmd.r1) % 2 = 0
    <3>1. j \in 1..13 /\ Len(p) = 13
      BY <1>3, <2>1
    <3> QED BY <1>3, <1>4, <2>1, <3>1
  <2>2. CASE Extent(cmd.r1) % 2 # 0
    <3>1. j \in 1..11 /\ Len(p) = 11
      BY <1>3, <2>2
    <3> QED BY <1>3, <1>4, <3>1
  <2> QED BY <2>1, <2>2
<1> QED BY <1>1, <1>4

\* Where nothing is counted.
LEMMA FoldQuiet ==
  ASSUME NEW core, NEW cmd, NEW k \in {0, 3, 4, 6, 7, 10, 11}, Round(sreg, core, cmd, k),
         sreg' = sreg
  PROVE  Round(sreg', core, cmd, k + 1)
<1>1. CASE k = 0
  BY <1>1 DEF Round
<1>2. CASE k \in {3, 4}
  <2>1. PICK q \in Nat : /\ q < (Extent(cmd.r1) - 1) \div 2
                         /\ sreg[core.reg[2]] = 2 * q + 1
    BY <1>2 DEF Round
  <2>2. k + 1 \in 4..5 /\ k \in 3..9
    BY <1>2
  <2> QED BY <2>1, <2>2 DEF Round
<1>3. CASE k \in {6, 7}
  <2>1. PICK q \in Nat : /\ q < (Extent(cmd.r1) - 1) \div 2
                         /\ sreg[core.reg[2]] = 2 * q + 2
    BY <1>3 DEF Round
  <2>2. k + 1 \in 7..8 /\ k \in 3..9
    BY <1>3
  <2> QED BY <2>1, <2>2 DEF Round
<1>4. CASE k \in {10, 11}
  <2>1. k + 1 \in {11, 12} /\ k >= 10 /\ k + 1 >= 10 /\ k + 1 \notin 3..9 /\ k + 1 # 2
    BY <1>4
  <2> QED BY <2>1 DEF Round
<1> QED BY <1>1, <1>2, <1>3, <1>4

\* Where the counter or the limit is set, and where the counter is increased.
LEMMA FoldSets ==
  ASSUME RegsOK, setup \in Setups, NEW cmd, Sound(setup, cmd), Cached, cmd.type \in DOMAIN Fold,
         NEW p, IsFold(p, setup, cmd), NEW k \in {1, 2, 5, 8}, Round(sreg, setup, cmd, k),
         Effect(p[k + 1])
  PROVE  Round(sreg', setup, cmd, k + 1)
<1> DEFINE h == (Extent(cmd.r1) - 1) \div 2
           b == setup.reg[2]
           c == setup.reg[3]
<1>1. /\ b \in SReg /\ c \in SReg /\ b # c /\ Extent(cmd.r1) \in Nat /\ Extent(cmd.r1) >= 3
      /\ cmd.dtype = Int32
  BY CoreFacts, RangeFacts DEF Sound, Ranged, Cached
<1>2. h \in Nat /\ h >= 1
  BY <1>1
<1>3. /\ p[2] = SET(b, 1) /\ p[3] = SET(c, h * 2)
      /\ p[6] = INC(b, 1, Int32) /\ p[9] = INC(b, 1, Int32)
  BY <1>1, FoldFacts
<1>4. /\ k = 2 => sreg[b] = 1
      /\ k \in 3..9 =>
           /\ sreg[c] = 2 * h
           /\ \E q \in Nat : /\ q < h
                             /\ k \in 3..5 => sreg[b] = 2 * q + 1
                             /\ k \in 6..8 => sreg[b] = 2 * q + 2
  BY DEF Round
<1>5. ASSUME /\ k + 1 = 2 => sreg'[b] = 1
             /\ k + 1 \in 3..9 =>
                  /\ sreg'[c] = 2 * h
                  /\ \E q \in Nat : /\ q < h
                                    /\ k + 1 \in 3..5 => sreg'[b] = 2 * q + 1
                                    /\ k + 1 \in 6..8 => sreg'[b] = 2 * q + 2
                                    /\ k + 1 = 9 => sreg'[b] = 2 * q + 3
      PROVE  Round(sreg', setup, cmd, k + 1)
  <2>1. ~(k + 1 >= 10)
    OBVIOUS
  <2> QED BY <1>5, <2>1 DEF Round
<1> HIDE DEF h, b, c
<1>6. CASE k = 1
  <2>1. Effect(SET(b, 1))
    BY <1>3, <1>6
  <2>2. sreg'[b] = 1
    BY <1>1, <2>1, SetStep
  <2> QED BY <1>5, <1>6, <2>2
<1>7. CASE k = 2
  <2>1. Effect(SET(c, h * 2))
    BY <1>3, <1>7
  <2>2. sreg'[c] = h * 2 /\ sreg'[b] = sreg[b]
    BY <1>1, <2>1, SetStep
  <2>3. h * 2 = 2 * h /\ 0 \in Nat /\ 0 < h /\ sreg[b] = 2 * 0 + 1
    BY <1>2, <1>4, <1>7
  <2> QED BY <1>5, <1>7, <2>2, <2>3
<1>8. CASE k \in {5, 8}
  <2>1. Effect(INC(b, 1, Int32))
    BY <1>3, <1>8
  <2>2. sreg'[b] = sreg[b] + 1 /\ sreg'[c] = sreg[c]
    BY <1>1, <2>1, IncStep DEF Cast
  <2>3. PICK q \in Nat : q < h /\ (k \in 3..5 => sreg[b] = 2 * q + 1)
                               /\ (k \in 6..8 => sreg[b] = 2 * q + 2)
    BY <1>4, <1>8
  <2>4. CASE k = 5
    <3>1. sreg'[b] = 2 * q + 2
      BY <2>2, <2>3, <2>4
    <3>2. k + 1 \in 6..8 /\ k + 1 \notin 3..5 /\ k + 1 # 9 /\ k + 1 # 2 /\ k \in 3..9
      BY <2>4
    <3> QED BY <1>4, <1>5, <2>2, <2>3, <3>1, <3>2
  <2>5. CASE k = 8
    <3>1. sreg'[b] = 2 * q + 3
      BY <2>2, <2>3, <2>5
    <3>2. k + 1 \notin 6..8 /\ k + 1 \notin 3..5 /\ k + 1 = 9 /\ k + 1 # 2 /\ k \in 3..9
      BY <2>5
    <3> QED BY <1>4, <1>5, <2>2, <2>3, <3>1, <3>2
  <2> QED BY <1>8, <2>4, <2>5
<1> QED BY <1>6, <1>7, <1>8

\* The end of the loop.
LEMMA FoldEnd ==
  ASSUME RegsOK, setup \in Setups, NEW cmd, Sound(setup, cmd), Cached, cmd.type \in DOMAIN Fold,
         NEW p, IsFold(p, setup, cmd), NEW s \in Nat, Round(sreg, setup, cmd, 9),
         pc = s + 9, pc + 1 < CacheSize, NEW i, Moved(i, p[10], s), Effect(i)
  PROVE  \E t \in {3, 10} : Target(i) = s + t /\ Round(sreg', setup, cmd, t)
<1> DEFINE h == (Extent(cmd.r1) - 1) \div 2
           b == setup.reg[2]
           c == setup.reg[3]
<1>1. Extent(cmd.r1) \in Nat /\ Extent(cmd.r1) >= 3
  BY RangeFacts DEF Sound, Cached
<1>2. h \in Nat
  BY <1>1
<1>3. sreg[c] = 2 * h
  BY DEF Round
<1>4. PICK q \in Nat : q < h /\ sreg[b] = 2 * q + 3
  BY DEF Round
<1>5. /\ i.op = "JL" /\ i.in1 = b /\ i.in2 = c /\ i.dtype = Int32 /\ i.addr = 3 + s
  <2> DEFINE j == JL(b, c, 3, Int32)
  <2>1. j.op = "JL" /\ j.in1 = b /\ j.in2 = c /\ j.dtype = Int32 /\ j.addr = 3
    BY Fields DEF JL
  <2>2. Moved(i, j, s)
    BY FoldFacts
  <2> HIDE DEF j
  <2>3. IsJump(j)
    BY <2>1 DEF IsJump, CondJumps
  <2> QED BY <2>1, <2>2, <2>3 DEF Moved
<1>6. ASSUME NEW r \in Nat, r < h, sreg[b] = 2 * r + 1
      PROVE  Round(sreg, setup, cmd, 3)
  BY <1>3, <1>6 DEF Round
<1>7. ASSUME sreg[b] = 2 * h + 1
      PROVE  Round(sreg, setup, cmd, 10)
  BY <1>7 DEF Round
<1> HIDE DEF h, b, c
<1>8. sreg' = sreg /\ IF sreg[b] < sreg[c] THEN Target(i) = 3 + s ELSE Target(i) = Succ(pc)
  BY <1>5, JumpStep DEF Cast
<1>9. CASE sreg[b] < sreg[c]
  <2>1. q + 1 \in Nat /\ q + 1 < h /\ sreg[b] = 2 * (q + 1) + 1
    BY <1>2, <1>3, <1>4, <1>9
  <2>2. Round(sreg', setup, cmd, 3)
    BY <1>6, <1>8, <2>1
  <2>3. Target(i) = s + 3
    BY <1>8, <1>9
  <2> QED BY <2>2, <2>3
<1>10. CASE ~(sreg[b] < sreg[c])
  <2>1. sreg[b] = 2 * h + 1
    BY <1>2, <1>3, <1>4, <1>10
  <2>2. Round(sreg', setup, cmd, 10)
    BY <1>7, <1>8, <2>1
  <2>3. Succ(pc) = s + 10
    BY SizeAssumption DEF Succ
  <2>4. Target(i) = s + 10
    BY <1>8, <1>10, <2>3
  <2> QED BY <2>2, <2>4
<1> QED BY <1>9, <1>10

LEMMA FoldStep ==
  ASSUME RegsOK, setup \in Setups, NEW cmd, Sound(setup, cmd), Cached, cmd.type \in DOMAIN Fold,
         NEW p, IsFold(p, setup, cmd), NEW s \in Nat, NEW k \in 0..(Len(p) - 1),
         Round(sreg, setup, cmd, k), pc = s + k, pc + 1 < CacheSize,
         NEW i, Moved(i, p[k + 1], s), Effect(i), pc' = Target(i)
  PROVE  GoesOn(p, cmd, s)
<1>1. Len(p) = IF Extent(cmd.r1) % 2 = 0 THEN 13 ELSE 11
  BY FoldOps
<1>2. \/ Len(p) = 13 /\ Extent(cmd.r1) % 2 = 0 /\ k \in 0..12
      \/ Len(p) = 11 /\ Extent(cmd.r1) % 2 # 0 /\ k \in 0..10
  <2>1. CASE Extent(cmd.r1) % 2 = 0
    <3>1. Len(p) = 13
      BY <1>1, <2>1
    <3> QED BY <2>1, <3>1
  <2>2. CASE Extent(cmd.r1) % 2 # 0
    <3>1. Len(p) = 11
      BY <1>1, <2>2
    <3> QED BY <2>2, <3>1
  <2> QED BY <2>1, <2>2
<1>3. /\ Len(p) \in Nat /\ k \in Nat /\ k + 1 \in 0..Len(p) /\ 3 <= Len(p) /\ 10 <= Len(p)
      /\ k \in 0..12 /\ (k = 9 => k + 1 # Len(p)) /\ (k = 12 => k + 1 = Len(p))
  <2> DEFINE n == Len(p)
  <2>1. (n = 13 /\ k \in 0..12) \/ (n = 11 /\ k \in 0..10)
    BY <1>2
  <2> HIDE DEF n
  <2>2. /\ n \in Nat /\ k \in Nat /\ k + 1 \in 0..n /\ 3 <= n /\ 10 <= n
        /\ k \in 0..12 /\ (k = 9 => k + 1 # n) /\ (k = 12 => k + 1 = n)
    BY <2>1
  <2> QED BY <2>2 DEF n
<1>4. ASSUME NEW t \in 0..Len(p), pc' = s + t, t < Len(p) => Round(sreg', setup, cmd, t)
      PROVE  GoesOn(p, cmd, s)
  BY <1>4 DEF GoesOn, Where, Cached
<1>5. k # 9 => Effect(p[k + 1]) /\ pc' = s + (k + 1)
  <2>1. SUFFICES ASSUME k # 9
                 PROVE  Effect(p[k + 1]) /\ pc' = s + (k + 1)
    OBVIOUS
  <2>2. k + 1 \in 1..Len(p) /\ k + 1 # 10
    BY <1>2, <2>1
  <2>3. ~IsJump(p[k + 1])
    BY <2>2, FoldFacts
  <2>4. i = p[k + 1]
    BY <2>3 DEF Moved
  <2>5. i.op \notin CondJumps
    BY <2>3, <2>4 DEF IsJump
  <2>6. pc \in Nat
    OBVIOUS
  <2>7. Target(i) = pc + 1
    BY <2>5, <2>6, Behind
  <2> QED BY <2>4, <2>7
<1>6. CASE k + 1 = Len(p)
  <2>1. k # 9 /\ k + 1 \in 0..Len(p) /\ ~(k + 1 < Len(p))
    BY <1>6, <1>3
  <2> QED BY <1>4, <1>5, <2>1
<1>7. CASE k + 1 # Len(p) /\ k \in {0, 3, 4, 6, 7, 10, 11}
  <2>1. k # 9 /\ k + 1 \in 0..Len(p)
    BY <1>2, <1>7
  <2>2. p[k + 1].op \in MemOps \cup VecOps \cup Ignored
    <3>1. /\ p[1].op = "READ" /\ p[4].op = "READ" /\ p[7].op = "READ"
          /\ p[5].op \in VecOps \cup Ignored /\ p[8].op \in VecOps \cup Ignored
      BY FoldReads, FoldOps
    <3>2. Extent(cmd.r1) % 2 = 0 => p[11].op = "READ" /\ p[12].op \in VecOps \cup Ignored
      BY FoldReads, FoldOps
    <3>3. k \in {10, 11} => Extent(cmd.r1) % 2 = 0
      <4>1. ASSUME k = 10 PROVE Len(p) # 11
        <5>1. k + 1 # Len(p) /\ k + 1 = 11
          BY <1>7, <4>1
        <5> QED BY <5>1
      <4> QED BY <1>2, <4>1
    <3>4. "READ" \in MemOps
      BY DEF MemOps
    <3>5. CASE k \in {0, 3, 4, 6, 7}
      BY <3>1, <3>4, <3>5
    <3>6. CASE k \in {10, 11}
      BY <3>2, <3>3, <3>4, <3>6
    <3> QED BY <1>7, <3>5, <3>6
  <2>3. sreg' = sreg
    BY <1>5, <2>1, <2>2, QuietStep
  <2>4. Round(sreg', setup, cmd, k + 1)
    BY <1>7, <2>3, FoldQuiet
  <2> QED BY <1>4, <1>5, <2>1, <2>4
<1>8. CASE k + 1 # Len(p) /\ k \in {1, 2, 5, 8}
  <2>1. k # 9 /\ k + 1 \in 0..Len(p)
    BY <1>2, <1>8
  <2>2. Round(sreg', setup, cmd, k + 1)
    BY <1>5, <1>8, <2>1, FoldSets
  <2> QED BY <1>4, <1>5, <2>1, <2>2
<1>9. CASE k = 9
  <2>1. PICK t \in {3, 10} : Target(i) = s + t /\ Round(sreg', setup, cmd, t)
    BY <1>9, FoldEnd
  <2>2. t \in 0..Len(p)
    BY <1>3
  <2> QED BY <1>4, <2>1, <2>2
<1>10. k \in {0, 3, 4, 6, 7, 10, 11} \cup {1, 2, 5, 8} \cup {9, 12}
  BY <1>3
<1> QED BY <1>6, <1>7, <1>8, <1>9, <1>3, <1>10

\* The next instruction of a program is its own, with its registers as they
\* should be there, or the one behind it.
LEMMA ProgramStep ==
  ASSUME RegsOK, setup \in Setups, NEW cmd, Sound(setup, cmd), NEW p, Shaped(setup, p, cmd),
         NEW s \in Nat, NEW k \in 0..(Len(p) - 1), Where(sreg, setup, p, cmd, k),
         pc = s + k, Cached => pc + 1 < CacheSize,
         NEW i, Moved(i, p[k + 1], s), Effect(i), pc' = Target(i)
  PROVE  GoesOn(p, cmd, s)
<1>1. CASE Cached /\ cmd.type \in DOMAIN Fold
  <2>1. IsFold(p, setup, cmd) /\ Round(sreg, setup, cmd, k)
    BY <1>1 DEF Shaped, Where, Cached
  <2> QED BY <1>1, <2>1, FoldStep
<1>2. CASE Cached /\ cmd.type \notin DOMAIN Fold
  <2>1. PICK m \in {2, 3} : IsLoop(p, setup, cmd, m) /\ Turn(sreg, setup, cmd, Len(p), m, k)
    BY <1>2 DEF Where, Cached
  <2> QED BY <1>2, <2>1, LoopStep
<1>3. CASE ~Cached
  <2>1. p \in Seq(Direct(cmd)) /\ Len(p) \in Nat
    BY <1>3 DEF Shaped, Cached
  <2>2. k + 1 \in DOMAIN p
    BY <2>1
  <2>3. p[k + 1] \in Direct(cmd)
    BY <2>1, <2>2, Elements
  <2>4. ~IsJump(p[k + 1])
    BY <2>3 DEF Direct, Straight
  <2>5. i = p[k + 1]
    BY <2>4 DEF Moved
  <2>6. i.op \notin CondJumps /\ pc \in Nat
    BY <2>4, <2>5 DEF IsJump
  <2>7. Target(i) = pc + 1
    BY <1>3, <2>6, Behind
  <2>8. k + 1 \in 0..Len(p) /\ pc' = s + (k + 1)
    BY <2>1, <2>7
  <2> QED BY <1>3, <2>8 DEF GoesOn, Where, Cached
<1> QED BY <1>1, <1>2, <1>3

-----------------------------------------------------------------------------
(* Kernels stay in range.                                                  *)

\* A job's program p is in the cache from the job's start on.
Laid(core, c, p, j) ==
  /\ Sound(core, j.cmd) /\ Shaped(core, p, j.cmd)
  /\ Len(p) \in Nat /\ j.start \in Nat /\ j.start + Len(p) <= Len(c)
  /\ \A k \in 0..(Len(p) - 1) : Moved(c[j.start + k + 1], p[k + 1], j.start)

\* The programs of the jobs fill the cache, one behind the other; wherever pc
\* is, the registers are as they should be there.
Stay(core, c, code, js, P, R) ==
  /\ \A n \in 1..Len(js) : Laid(core, c, code[n], js[n])
  /\ \A n \in 1..Len(js) : \A k \in 0..(Len(code[n]) - 1) :
       P = js[n].start + k => Where(R, core, code[n], js[n].cmd, k)
  /\ \A m, n \in 1..Len(js) : m < n => js[m].start + Len(code[m]) <= js[n].start
  /\ \A a \in 0..(Len(c) - 1) : \E n \in 1..Len(js) : \E k \in 0..(Len(code[n]) - 1) :
       a = js[n].start + k

StayInv ==
  /\ Cached => Len(cache) < CacheSize
  /\ \E code : Stay(setup, cache, code, jobs, pc, sreg)

LEMMA StayInit == Init => StayInv
<1> SUFFICES ASSUME Init PROVE StayInv
  OBVIOUS
<1>1. cache = <<>> /\ jobs = <<>>
  BY DEF Init
<1>2. Len(cache) = 0 /\ Len(jobs) = 0
  BY <1>1
<1>3. 1..Len(jobs) = {} /\ 0..(Len(cache) - 1) = {}
  BY <1>2
<1>4. ASSUME NEW code PROVE Stay(setup, cache, code, jobs, pc, sreg)
  BY <1>3 DEF Stay
<1>5. Len(cache) < CacheSize
  BY <1>2, SizeAssumption
<1> QED BY <1>4, <1>5 DEF StayInv

LEMMA LoadedLength ==
  ASSUME NEW core \in Setups, NEW cmd, NEW p, Shaped(core, p, cmd), NEW c \in Seq(Legal)
  PROVE  Len(c \o Relocated(p, Len(c))) = Len(c) + Len(p)
<1> DEFINE q == Relocated(p, Len(c))
<1>1. Len(c) \in Nat /\ Contained(p)
  BY ShapedContained
<1>2. q \in Seq(Legal) /\ Len(q) = Len(p)
  BY <1>1, RelocatedFacts
<1> HIDE DEF q
<1>3. Len(c \o q) = Len(c) + Len(q)
  BY <1>2, Glued
<1> QED BY <1>2, <1>3 DEF q

\* A program that is loaded.
LEMMA LoadedLaid ==
  ASSUME NEW core \in Setups, NEW cmd, Sound(core, cmd), NEW p, Shaped(core, p, cmd),
         NEW c \in Seq(Legal), NEW j, j.cmd = cmd, j.start = Len(c),
         NEW d, d = c \o Relocated(p, Len(c))
  PROVE  /\ Laid(core, d, p, j) /\ Len(d) = Len(c) + Len(p) /\ Len(p) \in Nat
         /\ \A k \in 1..Len(c) : d[k] = c[k]
<1> DEFINE s == Len(c)
           q == Relocated(p, s)
<1>1. s \in Nat /\ Contained(p)
  BY ShapedContained
<1>2. Len(p) \in Nat
  BY <1>1 DEF Contained
<1>3. q \in Seq(Legal) /\ Len(q) = Len(p)
  BY <1>1, RelocatedFacts
<1>4. \A k \in 1..Len(p) : Moved(q[k], p[k], s)
  <2> TAKE k \in 1..Len(p)
  <2>1. CASE IsJump(p[k])
    <3>1. /\ q[k].addr = p[k].addr + s /\ q[k].op = p[k].op /\ q[k].in1 = p[k].in1
          /\ q[k].in2 = p[k].in2 /\ q[k].dtype = p[k].dtype
      BY <1>1, <2>1, RelocatedFacts
    <3> QED BY <2>1, <3>1 DEF Moved
  <2>2. CASE ~IsJump(p[k])
    <3>1. q[k] = p[k]
      BY <1>1, <2>2, RelocatedFacts
    <3> QED BY <2>2, <3>1 DEF Moved
  <2> QED BY <2>1, <2>2
<1> HIDE DEF q
<1>5. d = c \o q
  BY DEF q
<1>6. /\ Len(d) = s + Len(p)
      /\ \A k \in 1..s : d[k] = c[k]
      /\ \A k \in 1..Len(p) : d[s + k] = q[k]
  <2>1. Len(c \o q) = Len(c) + Len(q)
    BY <1>3, Glued
  <2>2. \A k \in 1..Len(c) : (c \o q)[k] = c[k]
    BY <1>3, Glued
  <2>3. \A k \in 1..Len(q) : (c \o q)[Len(c) + k] = q[k]
    BY <1>3, Glued
  <2> QED BY <1>3, <1>5, <2>1, <2>2, <2>3
<1> HIDE DEF s
<1>7. ASSUME NEW k \in 0..(Len(p) - 1) PROVE Moved(d[s + k + 1], p[k + 1], s)
  <2>1. k + 1 \in 1..Len(p) /\ s + k + 1 = s + (k + 1)
    BY <1>1, <1>2
  <2>2. d[s + k + 1] = q[k + 1]
    BY <1>6, <2>1
  <2> QED BY <1>4, <2>1, <2>2
<1>8. Laid(core, d, p, j)
  BY <1>1, <1>2, <1>6, <1>7 DEF Laid, s
<1> QED BY <1>2, <1>6, <1>8 DEF s

\* Programs stay where they are when another one is loaded behind them.
LEMMA LaidStays ==
  ASSUME NEW core, NEW c, NEW d, NEW p, NEW j, Laid(core, c, p, j),
         Len(c) \in Nat, Len(d) \in Nat, Len(c) <= Len(d), \A k \in 1..Len(c) : d[k] = c[k]
  PROVE  Laid(core, d, p, j)
<1>1. /\ Len(p) \in Nat /\ j.start \in Nat /\ j.start + Len(p) <= Len(c)
      /\ \A k \in 0..(Len(p) - 1) : Moved(c[j.start + k + 1], p[k + 1], j.start)
  BY DEF Laid
<1>2. ASSUME NEW k \in 0..(Len(p) - 1)
      PROVE  Moved(d[j.start + k + 1], p[k + 1], j.start)
  <2>1. j.start + k + 1 \in 1..Len(c)
    BY <1>1
  <2>2. d[j.start + k + 1] = c[j.start + k + 1]
    BY <2>1
  <2> QED BY <1>1, <2>2
<1>3. j.start + Len(p) <= Len(d)
  BY <1>1
<1> QED BY <1>2, <1>3 DEF Laid

\* One more job.
LEMMA StayLoads ==
  ASSUME NEW core \in Setups, NEW c \in Seq(Legal), NEW code, NEW js \in Seq(Job),
         NEW P \in 0..Len(c), NEW R, Stay(core, c, code, js, P, R),
         NEW cmd, Sound(core, cmd), NEW p, Shaped(core, p, cmd)
  PROVE  \E more : Stay(core, c \o Relocated(p, Len(c)), more,
                        Append(js, [start |-> Len(c), cmd |-> cmd]), P, R)
<1> DEFINE j == [start |-> Len(c), cmd |-> cmd]
           d == c \o Relocated(p, Len(c))
           ks == Append(js, j)
<1>1. j.cmd = cmd /\ j.start = Len(c) /\ d = c \o Relocated(p, Len(c)) /\ ks = Append(js, j)
  OBVIOUS
<1> HIDE DEF j, d, ks
<1> DEFINE N == Len(js)
           more == [n \in 1..(N + 1) |-> IF n = N + 1 THEN p ELSE code[n]]
<1>2. /\ N \in Nat /\ Len(ks) = N + 1 /\ ks[N + 1] = j
      /\ \A n \in 1..N : ks[n] = js[n]
  BY <1>1 DEF Job
<1>3. /\ more[N + 1] = p /\ \A n \in 1..N : more[n] = code[n] /\ n # N + 1
  BY <1>2
<1>4. \A n \in 1..(N + 1) : n = N + 1 \/ n \in 1..N
  BY <1>2
<1> HIDE DEF more
<1>5. /\ Laid(core, d, p, j) /\ Len(d) = Len(c) + Len(p) /\ Len(p) \in Nat
      /\ \A k \in 1..Len(c) : d[k] = c[k]
  <2>1. Laid(core, d, p, j)
    BY <1>1, LoadedLaid
  <2>2. Len(d) = Len(c) + Len(p)
    BY <1>1, LoadedLength
  <2>3. Len(p) \in Nat
    BY <2>1 DEF Laid
  <2>4. \A k \in 1..Len(c) : d[k] = c[k]
    BY <1>1, LoadedLaid
  <2> QED BY <2>1, <2>2, <2>3, <2>4
<1>6. Len(c) \in Nat
  OBVIOUS
<1>7. \A n \in 1..N : Laid(core, c, code[n], js[n])
  BY DEF Stay
<1>8. \A n \in 1..N : /\ Len(code[n]) \in Nat /\ js[n].start \in Nat
                      /\ js[n].start + Len(code[n]) <= Len(c)
  BY <1>7 DEF Laid
<1>9. \A n \in 1..(N + 1) : Laid(core, d, more[n], ks[n])
  <2> TAKE n \in 1..(N + 1)
  <2>1. CASE n = N + 1
    BY <1>2, <1>3, <1>5, <1>1, <2>1
  <2>2. CASE n \in 1..N
    <3>1. Len(d) \in Nat /\ Len(c) <= Len(d)
      BY <1>5, <1>6
    <3>2. Laid(core, c, code[n], js[n])
      BY <1>7, <2>2
    <3>3. Laid(core, d, code[n], js[n])
      BY <1>5, <1>6, <3>1, <3>2, LaidStays
    <3> QED BY <1>2, <1>3, <2>2, <3>3
  <2> QED BY <1>4, <2>1, <2>2
<1>10. \A n \in 1..(N + 1) : \A k \in 0..(Len(more[n]) - 1) :
        P = ks[n].start + k => Where(R, core, more[n], ks[n].cmd, k)
  <2> SUFFICES ASSUME NEW n \in 1..(N + 1), NEW k \in 0..(Len(more[n]) - 1), P = ks[n].start + k
               PROVE  Where(R, core, more[n], ks[n].cmd, k)
    OBVIOUS
  <2>1. CASE n = N + 1
    <3>1. P = Len(c) + k /\ more[n] = p /\ ks[n].cmd = cmd /\ Len(p) \in Nat
      BY <1>2, <1>3, <1>5, <1>1, <2>1
    <3>2. k \in 0..(Len(p) - 1)
      BY <3>1
    <3>3. k = 0
      BY <1>6, <3>1, <3>2
    <3>4. Where(R, core, p, cmd, 0)
      BY WhereStart
    <3> QED BY <3>1, <3>3, <3>4
  <2>2. CASE n \in 1..N
    BY <1>2, <1>3, <2>2 DEF Stay
  <2> QED BY <1>4, <2>1, <2>2
<1>11. \A m, n \in 1..(N + 1) : m < n => ks[m].start + Len(more[m]) <= ks[n].start
  <2> SUFFICES ASSUME NEW m \in 1..(N + 1), NEW n \in 1..(N + 1), m < n
               PROVE  ks[m].start + Len(more[m]) <= ks[n].start
    OBVIOUS
  <2>1. m \in 1..N
    BY <1>2
  <2>2. ks[m] = js[m] /\ more[m] = code[m]
    BY <1>2, <1>3, <2>1
  <2>3. CASE n = N + 1
    BY <1>2, <1>8, <1>1, <2>1, <2>2, <2>3
  <2>4. CASE n \in 1..N
    <3>1. js[m].start + Len(code[m]) <= js[n].start
      BY <2>1, <2>4 DEF Stay
    <3> QED BY <1>2, <2>2, <2>4, <3>1
  <2> QED BY <1>4, <2>3, <2>4
<1>12. \A a \in 0..(Len(d) - 1) : \E n \in 1..(N + 1) : \E k \in 0..(Len(more[n]) - 1) :
         a = ks[n].start + k
  <2> TAKE a \in 0..(Len(d) - 1)
  <2>1. CASE a < Len(c)
    <3>1. a \in 0..(Len(c) - 1)
      BY <1>5, <1>6, <2>1
    <3>2. PICK n \in 1..N : \E k \in 0..(Len(code[n]) - 1) : a = js[n].start + k
      BY <3>1 DEF Stay
    <3>3. n \in 1..(N + 1) /\ ks[n] = js[n] /\ more[n] = code[n]
      BY <1>2, <1>3
    <3> QED BY <3>2, <3>3
  <2>2. CASE ~(a < Len(c))
    <3>1. a - Len(c) \in 0..(Len(p) - 1) /\ a = Len(c) + (a - Len(c))
      BY <1>5, <1>6, <2>2
    <3>2. N + 1 \in 1..(N + 1) /\ ks[N + 1].start = Len(c) /\ more[N + 1] = p
      BY <1>2, <1>3, <1>1
    <3> QED BY <3>1, <3>2
  <2> QED BY <2>1, <2>2
<1>13. Stay(core, d, more, ks, P, R)
  <2> HIDE DEF N
  <2>1. \A n \in 1..Len(ks) : Laid(core, d, more[n], ks[n])
    BY <1>2, <1>9
  <2>2. \A n \in 1..Len(ks) : \A k \in 0..(Len(more[n]) - 1) :
          P = ks[n].start + k => Where(R, core, more[n], ks[n].cmd, k)
    BY <1>2, <1>10
  <2>3. \A m, n \in 1..Len(ks) : m < n => ks[m].start + Len(more[m]) <= ks[n].start
    BY <1>2, <1>11
  <2>4. \A a \in 0..(Len(d) - 1) : \E n \in 1..Len(ks) : \E k \in 0..(Len(more[n]) - 1) :
          a = ks[n].start + k
    <3>1. 1..Len(ks) = 1..(N + 1)
      BY <1>2
    <3> TAKE a \in 0..(Len(d) - 1)
    <3>2. PICK n \in 1..(N + 1) : \E k \in 0..(Len(more[n]) - 1) : a = ks[n].start + k
      BY <1>12
    <3> QED BY <3>1, <3>2
  <2> QED BY <2>1, <2>2, <2>3, <2>4 DEF Stay
<1> QED BY <1>13, <1>1 DEF j

\* A step inside the programs: pc stays in one of them or gets to its end,
\* where the next one starts.
LEMMA StayMoves ==
  ASSUME NEW core, NEW c, NEW code, NEW js, NEW P, NEW R, Stay(core, c, code, js, P, R),
         NEW n \in 1..Len(js), Len(js) \in Nat, NEW t \in 0..Len(code[n]), NEW Q, NEW S,
         Q = js[n].start + t,
         t < Len(code[n]) => Where(S, core, code[n], js[n].cmd, t)
  PROVE  Stay(core, c, code, js, Q, S)
<1>1. \A m \in 1..Len(js) : /\ Shaped(core, code[m], js[m].cmd)
                            /\ Len(code[m]) \in Nat /\ js[m].start \in Nat
  BY DEF Stay, Laid
<1>2. \A l, m \in 1..Len(js) : l < m => js[l].start + Len(code[l]) <= js[m].start
  BY DEF Stay
<1>3. ASSUME NEW m \in 1..Len(js), NEW k \in 0..(Len(code[m]) - 1), Q = js[m].start + k
      PROVE  Where(S, core, code[m], js[m].cmd, k)
  <2>1. /\ Len(code[m]) \in Nat /\ js[m].start \in Nat
        /\ Len(code[n]) \in Nat /\ js[n].start \in Nat
    BY <1>1
  <2>2. /\ k < Len(code[m]) /\ k \in Nat /\ t <= Len(code[n]) /\ t \in Nat
        /\ js[m].start + k = js[n].start + t
    <3>1. k < Len(code[m]) /\ k \in Nat
      BY <2>1
    <3>2. t <= Len(code[n]) /\ t \in Nat
      BY <2>1
    <3>3. js[m].start + k = js[n].start + t
      BY <1>3
    <3> QED BY <3>1, <3>2, <3>3
  <2>3. CASE m = n
    <3>1. k = t
      BY <2>1, <2>2, <2>3
    <3> QED BY <2>2, <2>3, <3>1
  <2>4. CASE m < n
    <3>1. js[m].start + Len(code[m]) <= js[n].start
      BY <1>2, <2>4
    <3>2. js[m].start + k < js[m].start + Len(code[m])
      BY <2>1, <2>2
    <3>3. js[n].start <= js[n].start + t
      BY <2>1, <2>2
    <3> DEFINE a == js[m].start + k
               b == js[m].start + Len(code[m])
               d == js[n].start
               e == js[n].start + t
    <3>4. a \in Int /\ b \in Int /\ d \in Int /\ e \in Int
      <4>1. a \in Int /\ e \in Int
        BY <2>1, <2>2
      <4>2. b \in Int /\ d \in Int
        BY <2>1
      <4> QED BY <4>1, <4>2
    <3>5. a < b /\ b <= d /\ d <= e /\ a = e
      BY <2>2, <3>1, <3>2, <3>3
    <3> HIDE DEF a, b, d, e
    <3> QED BY <3>4, <3>5
  <2>5. CASE n < m
    <3>1. js[n].start + Len(code[n]) <= js[m].start
      BY <1>2, <2>5
    <3>2. k = 0
      <4> DEFINE a == js[n].start
                 b == js[m].start
                 l == Len(code[n])
      <4>1. /\ a \in Nat /\ b \in Nat /\ l \in Nat /\ k \in Nat /\ t \in Nat
            /\ a + l <= b /\ b + k = a + t /\ t <= l
        BY <2>1, <2>2, <3>1
      <4> HIDE DEF a, b, l
      <4> QED BY <4>1
    <3>3. Where(S, core, code[m], js[m].cmd, 0)
      BY <1>1, WhereStart
    <3> QED BY <3>2, <3>3
  <2> QED BY <2>3, <2>4, <2>5
<1> QED BY <1>3 DEF Stay

LEMMA StayStep ==
  ASSUME TypeInv, StayInv, Step
  PROVE  StayInv'
<1>1. /\ pc < Len(cache) /\ pc' = Target(cache[pc + 1]) /\ Effect(cache[pc + 1])
      /\ setup' = setup /\ cache' = cache /\ jobs' = jobs
  BY StepFacts
<1>2. /\ RegsOK /\ setup \in Setups /\ pc \in Nat /\ Len(cache) \in Nat /\ Len(jobs) \in Nat
      /\ pc \in 0..(Len(cache) - 1)
  BY <1>1 DEF TypeInv
<1>3. Cached => Len(cache) < CacheSize /\ pc + 1 < CacheSize
  BY <1>1, <1>2, SizeAssumption DEF StayInv
<1>4. PICK code : Stay(setup, cache, code, jobs, pc, sreg)
  BY DEF StayInv
<1>5. PICK n \in 1..Len(jobs) : \E k \in 0..(Len(code[n]) - 1) : pc = jobs[n].start + k
  BY <1>2, <1>4 DEF Stay
<1>6. PICK k \in 0..(Len(code[n]) - 1) : pc = jobs[n].start + k
  BY <1>5
<1> DEFINE p == code[n]
           s == jobs[n].start
           cmd == jobs[n].cmd
           i == cache[pc + 1]
<1>7. /\ Sound(setup, cmd) /\ Shaped(setup, p, cmd) /\ s \in Nat
      /\ \A h \in 0..(Len(p) - 1) : Moved(cache[s + h + 1], p[h + 1], s)
  BY <1>4, <1>5 DEF Stay, Laid
<1>8. Where(sreg, setup, p, cmd, k)
  BY <1>4, <1>5, <1>6 DEF Stay
<1>9. Moved(i, p[k + 1], s)
  BY <1>6, <1>7
<1>10. pc = s + k /\ Effect(i) /\ pc' = Target(i) /\ k \in 0..(Len(p) - 1)
  BY <1>1, <1>6
<1> HIDE DEF p, s, cmd, i
<1>11. GoesOn(p, cmd, s)
  BY <1>2, <1>3, <1>7, <1>8, <1>9, <1>10, ProgramStep
<1>12. PICK t \in 0..Len(p) : /\ pc' = s + t
                              /\ t < Len(p) => Where(sreg', setup, p, cmd, t)
  BY <1>11 DEF GoesOn
<1>13. Stay(setup, cache, code, jobs, pc', sreg')
  BY <1>2, <1>4, <1>5, <1>12, StayMoves DEF p, s, cmd
<1>14. Stay(setup', cache', code, jobs', pc', sreg')
  BY <1>1, <1>13
<1>15. Cached' => Len(cache') < CacheSize
  BY <1>1, <1>3 DEF Cached
<1> QED BY <1>14, <1>15 DEF StayInv

LEMMA StayHandles ==
  ASSUME TypeInv, StayInv, Deviations \subseteq {"min", "ragged"},
         NEW c \in Commands, HandleCommand(c)
  PROVE  StayInv'
<1> DEFINE cmd == ToCommand(c)
           p == ProgramOf(cmd)
           j == [start |-> Len(cache), cmd |-> cmd]
<1>1. /\ Accepted(cmd) /\ Deviates(cmd) \subseteq Deviations
      /\ cache' = cache \o Relocated(p, Len(cache)) /\ jobs' = Append(jobs, j)
      /\ setup' = setup /\ pc' = pc /\ sreg' = sreg
  BY DEF HandleCommand
<1>2. /\ setup \in Setups /\ cache \in Seq(Legal) /\ jobs \in Seq(Job) /\ pc \in 0..Len(cache)
  BY DEF TypeInv
<1>3. Deviates(cmd) \subseteq {"min", "ragged"}
  BY <1>1
<1>4. Sound(setup, cmd)
  BY <1>1, <1>2, <1>3, Soundness
<1>5. Cached => Len(cache) + Len(p) # CacheSize
  BY <1>1, <1>2, <1>3, Soundness
<1>6. Shaped(setup, p, cmd)
  BY <1>1, <1>2, Codes
<1>7. Cached => Len(cache) + Len(p) <= CacheSize
  BY <1>1 DEF Accepted
<1> HIDE DEF p, cmd, j
<1>8. PICK code : Stay(setup, cache, code, jobs, pc, sreg)
  BY DEF StayInv
<1>9. \E more : Stay(setup, cache', more, jobs', pc, sreg)
  <2>1. \E more : Stay(setup, cache \o Relocated(p, Len(cache)), more, Append(jobs, j), pc, sreg)
    BY <1>2, <1>4, <1>6, <1>8, StayLoads DEF j
  <2> QED BY <1>1, <2>1
<1>10. Cached' => Len(cache') < CacheSize
  <2>1. Len(cache') = Len(cache) + Len(p)
    BY <1>1, <1>2, <1>6, LoadedLength
  <2>2. Contained(p)
    BY <1>2, <1>6, ShapedContained
  <2>3. Len(p) \in Nat /\ Len(cache) \in Nat
    BY <1>2, <2>2 DEF Contained
  <2> QED BY <1>1, <1>5, <1>7, <2>1, <2>3, SizeAssumption DEF Cached
<1>11. \E more : Stay(setup', cache', more, jobs', pc', sreg')
  BY <1>1, <1>9
<1> QED BY <1>10, <1>11 DEF StayInv

LEMMA StayNext ==
  ASSUME TypeInv, StayInv, Deviations \subseteq {"min", "ragged"}, [Next]_vars
  PROVE  StayInv'
<1>1. ASSUME setup' = setup, cache' = cache, jobs' = jobs, pc' = pc, sreg' = sreg
      PROVE  StayInv'
  BY <1>1 DEF StayInv, Cached
<1>2. CASE Step
  BY <1>2, StayStep
<1>3. ASSUME NEW c \in Commands, HandleCommand(c) PROVE StayInv'
  BY <1>3, StayHandles
<1>4. ASSUME NEW c \in Commands, RefuseCommand(c) PROVE StayInv'
  BY <1>1, <1>4 DEF RefuseCommand
<1>5. CASE UNCHANGED vars
  BY <1>1, <1>5 DEF vars
<1> QED BY <1>2, <1>3, <1>4, <1>5 DEF Next

\* The job that is running is the last one that starts at pc or before.
LEMMA RunningFacts ==
  ASSUME NEW core, NEW code, Stay(core, cache, code, jobs, pc, sreg), jobs \in Seq(Job),
         NEW n \in 1..Len(jobs), NEW k \in 0..(Len(code[n]) - 1), pc = jobs[n].start + k
  PROVE  Running = jobs[n].cmd
<1> DEFINE started == {m \in DOMAIN jobs : jobs[m].start <= pc}
<1>1. /\ Len(jobs) \in Nat /\ DOMAIN jobs = 1..Len(jobs) /\ n \in DOMAIN jobs
      /\ Len(code[n]) \in Nat /\ jobs[n].start \in Nat
  BY DEF Stay, Laid
<1>2. started \subseteq 0..Len(jobs) /\ n \in started
  BY <1>1
<1>3. Max(started) \in started /\ n <= Max(started)
  <2> HIDE DEF started
  <2> QED BY <1>1, <1>2, Largest
<1>4. ~(n < Max(started))
  <2>1. SUFFICES ASSUME n < Max(started) PROVE FALSE
    OBVIOUS
  <2>2. Max(started) \in 1..Len(jobs) /\ jobs[Max(started)].start <= pc
    BY <1>1, <1>3
  <2> HIDE DEF started
  <2>3. jobs[n].start + Len(code[n]) <= jobs[Max(started)].start
    BY <2>1, <2>2 DEF Stay
  <2>4. jobs[Max(started)].start \in Nat
    BY <2>2 DEF Stay, Laid
  <2> QED BY <1>1, <2>2, <2>3, <2>4
<1>5. Max(started) = n
  <2>1. Max(started) \in Nat
    BY <1>1, <1>3
  <2> HIDE DEF started
  <2> QED BY <1>3, <1>4, <2>1
<1> QED BY <1>5 DEF Running

LEMMA StayInRange == TypeInv /\ StayInv => KernelsStayInRange
<1> SUFFICES ASSUME TypeInv, StayInv, ~Idle, IsMem(cache[pc + 1])
             PROVE  Allowed(cache[pc + 1], Core!At(cache[pc + 1]), Running)
  BY DEF KernelsStayInRange, Allowed
<1>1. /\ setup \in Setups /\ Len(cache) \in Nat /\ jobs \in Seq(Job) /\ pc \in 0..(Len(cache) - 1)
  BY DEF TypeInv, Idle
<1>2. PICK code : Stay(setup, cache, code, jobs, pc, sreg)
  BY DEF StayInv
<1>3. PICK n \in 1..Len(jobs) : \E k \in 0..(Len(code[n]) - 1) : pc = jobs[n].start + k
  BY <1>1, <1>2 DEF Stay
<1>4. PICK k \in 0..(Len(code[n]) - 1) : pc = jobs[n].start + k
  BY <1>3
<1> DEFINE p == code[n]
           s == jobs[n].start
           cmd == jobs[n].cmd
           i == cache[pc + 1]
<1>5. /\ Sound(setup, cmd) /\ Shaped(setup, p, cmd)
      /\ \A h \in 0..(Len(p) - 1) : Moved(cache[s + h + 1], p[h + 1], s)
  BY <1>2, <1>3 DEF Stay, Laid
<1>6. Where(sreg, setup, p, cmd, k)
  BY <1>2, <1>3, <1>4 DEF Stay
<1>7. Moved(i, p[k + 1], s) /\ k \in 0..(Len(p) - 1) /\ IsMem(i)
  BY <1>4, <1>5
<1>8. Running = cmd
  BY <1>1, <1>2, <1>3, <1>4, RunningFacts
<1> HIDE DEF p, s, cmd, i
<1>9. i = p[k + 1]
  <2>1. i.op = p[k + 1].op
    BY <1>7 DEF Moved
  <2>2. ~IsJump(p[k + 1])
    BY <1>7, <2>1 DEF IsMem, MemOps, IsJump, CondJumps
  <2> QED BY <1>7, <2>2 DEF Moved
<1>10. Allowed(i, Core!At(i), cmd)
  BY <1>1, <1>5, <1>6, <1>7, <1>9, AccessAllowed
<1> QED BY <1>8, <1>10 DEF i

\* KernelsStayInRange: for any cores, objects and commands that raise no
\* deviation but an ignored VEC_MIN or differently padded operands, whatever is
\* sent while a kernel runs, every access is to the objects of the command the
\* running kernel is for.
THEOREM InRange ==
  ASSUME Deviations \subseteq {"min", "ragged"}
  PROVE  Spec => []KernelsStayInRange
<1>1. Init => TypeInv /\ StayInv
  BY InitTypes, StayInit
<1>2. (TypeInv /\ StayInv) /\ [Next]_vars => (TypeInv /\ StayInv)'
  BY TypeNext, StayNext
<1>3. TypeInv /\ StayInv => KernelsStayInRange
  BY StayInRange
<1> QED BY <1>1, <1>2, <1>3, PTL DEF Spec
=============================================================================
