----------------------- MODULE InstructionCacheProofs -----------------------
(* For every size, every set of programs and every number of slots: what   *)
(* loads and drops by any address can damage, and that nothing else is:    *)
(* fetches stay inside programs, jumps lead to their own copy, and the     *)
(* cache implements the memory of programs.                                *)
(*                                                                         *)
(* What a fetch finds is computed from the boundary before the address, so *)
(* the invariant speaks of that boundary (Base).  In a table without       *)
(* redundant boundaries it is known from the entries alone: they are equal *)
(* from there on and differ just before.  FloorAfter says what becomes of  *)
(* it when a range is mapped.                                              *)
EXTENDS InstructionCache, IntervalTableProofs

(***************************************************************************)
(* The boundary before an address.                                         *)
(***************************************************************************)

\* From the boundary before an address on, the entries are that of the address.
LEMMA FloorMeans ==
  ASSUME NEW M \in Nat, NEW E, NEW t, Normal(t, M, E), NEW a \in 0..M
  PROVE  /\ Floor(DOMAIN t, a) \in 0..M /\ Floor(DOMAIN t, a) <= a
         /\ \A b \in 0..M : Floor(DOMAIN t, a) <= b /\ b <= a =>
              Floor(DOMAIN t, b) = Floor(DOMAIN t, a) /\ Entry(t, b) = Entry(t, a)
         /\ Floor(DOMAIN t, a) > 0 => Entry(t, Floor(DOMAIN t, a) - 1) # Entry(t, a)
<1> DEFINE f == Floor(DOMAIN t, a)
<1>1. /\ Proper(t, M, E) /\ DOMAIN t \subseteq 0..M
  BY ProperDomain DEF Normal
<1>2. /\ f \in DOMAIN t /\ f \in 0..M /\ f <= a /\ Entry(t, a) = t[f]
      /\ \A c \in DOMAIN t : c <= a => c <= f
  BY <1>1, FloorFacts
<1> HIDE DEF f
<1>3. ASSUME NEW b \in 0..M, f <= b, b <= a
      PROVE  Floor(DOMAIN t, b) = f /\ Entry(t, b) = Entry(t, a)
  <2>1. IsFloor(DOMAIN t, b, f)
    <3>1. ASSUME NEW c \in DOMAIN t, c <= b PROVE c <= f
      <4>1. c \in 0..M
        BY <1>1
      <4>2. c <= a
        BY <1>3, <3>1, <4>1
      <4> QED BY <1>2, <4>2
    <3> QED BY <1>2, <1>3, <3>1 DEF IsFloor
  <2>2. b \in Nat /\ DOMAIN t \subseteq Nat
    BY <1>1
  <2>3. Floor(DOMAIN t, b) = f
    BY <2>1, <2>2, FloorUnique
  <2>4. Entry(t, b) = t[f]
    BY <2>1, <1>1, EntryByFloor
  <2> QED BY <2>3, <2>4, <1>2
<1>4. ASSUME f > 0 PROVE Entry(t, f - 1) # Entry(t, a)
  <2>1. Entry(t, f) # Entry(t, f - 1)
    BY <1>2, <1>4, BoundaryIsChange
  <2>2. Entry(t, f) = Entry(t, a)
    BY <1>2, <1>3
  <2> QED BY <2>1, <2>2
<1> QED BY <1>2, <1>3, <1>4 DEF f

\* Table u is t after s..(e - 1) was mapped to x.
Remapped(t, u, M, s, e, x) ==
  \A b \in 0..M : Entry(u, b) = IF s <= b /\ b < e THEN x ELSE Entry(t, b)

\* When s..(e - 1) is mapped to x, an address outside it that has another entry
\* keeps its boundary, unless that was before e: then e becomes the boundary.
LEMMA FloorAfter ==
  ASSUME NEW M \in Nat, NEW E, NEW F, NEW t, NEW u, Normal(t, M, E), Normal(u, M, F), NEW x,
         NEW s \in 0..M, NEW e \in 0..M, s < e, Remapped(t, u, M, s, e, x),
         NEW a \in 0..M, ~(s <= a /\ a < e), Entry(t, a) # x
  PROVE  Floor(DOMAIN u, a) = IF a < s \/ e <= Floor(DOMAIN t, a) THEN Floor(DOMAIN t, a)
                                                                ELSE e
<1> USE DEF Remapped
<1> PICK f : f = Floor(DOMAIN t, a)
  OBVIOUS
<1> PICK y : y = Entry(t, a)
  OBVIOUS
<1>1. /\ f \in 0..M /\ f <= a
      /\ \A b \in 0..M : f <= b /\ b <= a => Entry(t, b) = y
      /\ f > 0 => Entry(t, f - 1) # y
  BY FloorMeans
<1>0. ASSUME NEW g \in 0..M, g <= a,
             \A b \in 0..M : g <= b /\ b <= a => Entry(u, b) = y,
             g > 0 => Entry(u, g - 1) # y
      PROVE  Floor(DOMAIN u, a) = g
  <2> DEFINE h == a + 1
  <2>1. h \in Nat /\ h - 1 <= M /\ g \in Nat /\ a \in g..(h - 1)
    BY <1>0
  <2>2. \A b \in g..(h - 1) : Entry(u, b) = y
    BY <1>0
  <2> HIDE DEF h
  <2>3. RunFrom(u, y, g, h)
    BY <1>0, <2>2 DEF RunFrom
  <2> QED BY <2>1, <2>3, RunFloor
<1>2. CASE a < s
  <2>1. \A b \in 0..M : f <= b /\ b <= a => Entry(u, b) = y
    BY <1>1, <1>2
  <2>2. f > 0 => Entry(u, f - 1) # y
    <3> SUFFICES ASSUME f > 0 PROVE Entry(u, f - 1) # y
      OBVIOUS
    <3>1. f - 1 \in 0..M /\ ~(s <= f - 1)
      BY <1>1, <1>2
    <3> QED BY <1>1, <3>1
  <2> QED BY <1>1, <1>2, <2>1, <2>2, <1>0
<1>3. CASE ~(a < s) /\ e <= f
  <2>1. \A b \in 0..M : f <= b /\ b <= a => Entry(u, b) = y
    BY <1>1, <1>3
  <2>2. f > 0 => Entry(u, f - 1) # y
    <3> SUFFICES ASSUME f > 0 PROVE Entry(u, f - 1) # y
      OBVIOUS
    <3>1. f - 1 \in 0..M
      BY <1>1
    <3>2. Entry(u, f - 1) = IF s <= f - 1 /\ f - 1 < e THEN x ELSE Entry(t, f - 1)
      BY <3>1
    <3> QED BY <1>1, <3>2
  <2> QED BY <1>1, <1>3, <2>1, <2>2, <1>0
<1>4. CASE ~(a < s) /\ ~(e <= f)
  <2>1. e <= a /\ f < e
    BY <1>1, <1>4
  <2>2. \A b \in 0..M : e <= b /\ b <= a => Entry(u, b) = y
    BY <1>1, <2>1
  <2>3. e > 0 => Entry(u, e - 1) # y
    <3>1. e - 1 \in 0..M /\ s <= e - 1 /\ e - 1 < e
      OBVIOUS
    <3>2. Entry(u, e - 1) = x
      BY <3>1
    <3> QED BY <3>2
  <2>4. Floor(DOMAIN u, a) = e
    BY <2>1, <2>2, <2>3, <1>0
  <2> QED BY <1>4, <2>4
<1> QED BY <1>2, <1>3, <1>4

(***************************************************************************)
(* The inductive invariant.                                                *)
(***************************************************************************)

Slots == 0..(Len(slots) - 1)
Entries == [index : {Unmapped} \cup Slots, offset : {0}]
Base(a) == Floor(DOMAIN table, a)

InvTypes ==
  /\ slots \in Seq(Progs \cup {Free}) /\ Len(slots) <= MaxSlots
  /\ last \in 0..Size
  /\ target \in [Progs -> Nat] /\ loads \in [Progs -> Nat]
  /\ overwritten \in BOOLEAN
  /\ shifted \subseteq Addr /\ dangling \subseteq Addr

\* Nothing is mapped at the address behind the cache.
InvTable == Normal(table, Size, Entries) /\ IndexAt(table, Size) = Unmapped

\* What is damaged is mapped, and what is before something intact in its
\* interval is intact.
InvDamaged ==
  /\ \A a \in Damaged : IsMapped(a)
  /\ \A a \in Addr \ Damaged, b \in Addr :
       IsMapped(a) /\ Base(a) <= b /\ b <= a => b \notin Damaged

\* A fetch is inside a program where no drop has freed the slot.
InvSound == \A a \in Addr \ dangling : IsMapped(a) =>
              ProgAt(a) \in Progs /\ a - Base(a) < Length[ProgAt(a)]

\* What is intact in a slot is one interval.
InvOnce == \A a \in Addr \ Damaged, b \in Addr \ Damaged :
             IsMapped(a) /\ IndexAt(table, a) = IndexAt(table, b) => Base(a) = Base(b)

\* A list nobody has loaded is in no slot something is mapped to, and its jump
\* is the one it was generated with; once loaded it is where it was loaded to.
InvLoads ==
  /\ \A p \in Progs : /\ loads[p] = 0 => ~Live(p) /\ target[p] = Target[p]
                      /\ loads[p] = 1 => target[p] \in Addr
  /\ \A a \in Addr \ Damaged : IsMapped(a) /\ loads[ProgAt(a)] = 1 =>
       target[ProgAt(a)] = Base(a) + Target[ProgAt(a)]

Inv == InvTypes /\ InvTable /\ InvDamaged /\ InvSound /\ InvOnce /\ InvLoads

\* The constants.
LEMMA Sizes ==
  /\ Size \in Nat /\ Size > 0 /\ MaxSlots \in Nat
  /\ Unmapped \in Int /\ Unmapped < 0 /\ Free \notin Progs
  /\ \A p \in Progs : /\ Length[p] \in Nat /\ Length[p] > 0
                      /\ Target[p] \in Nat /\ Target[p] < Length[p]
BY SizeAssumption, LengthAssumption, FreeAssumption DEF Unmapped

\* Nothing else than a slot is ever mapped, and its entry is known.
LEMMA EntryForm ==
  ASSUME InvTable, NEW a \in 0..Size
  PROVE  /\ IndexAt(table, a) \in {Unmapped} \cup Slots
         /\ Entry(table, a) = [index |-> IndexAt(table, a), offset |-> 0]
<1>1. Entry(table, a) \in Entries
  BY Sizes, EntryOfFloor DEF InvTable, Normal
<1> QED BY <1>1 DEF Entries, IndexAt

\* An address and those between it and the boundary before it are in one slot,
\* and that boundary is where the positions count from.
LEMMA Interval ==
  ASSUME InvTable, NEW a \in 0..Size
  PROVE  /\ Base(a) \in 0..Size /\ Base(a) <= a
         /\ OffsetAt(table, a) = a - Base(a)
         /\ \A b \in 0..Size : Base(a) <= b /\ b <= a =>
              Base(b) = Base(a) /\ IndexAt(table, b) = IndexAt(table, a)
         /\ \A b \in 0..Size : Base(b) = Base(a) => IndexAt(table, b) = IndexAt(table, a)
<1>1. /\ Base(a) \in 0..Size /\ Base(a) <= a
      /\ \A b \in 0..Size : Base(a) <= b /\ b <= a =>
              Base(b) = Base(a) /\ Entry(table, b) = Entry(table, a)
  BY FloorMeans, Sizes DEF InvTable, Base
<1>2. Entry(table, a).offset = 0
  BY EntryForm
<1>3. OffsetAt(table, a) = a - Base(a)
  BY <1>1, <1>2 DEF OffsetAt, Base
<1>4. \A b \in 0..Size : Base(b) = Base(a) => Entry(table, b) = Entry(table, a)
  BY DEF Entry, Base
<1> QED BY <1>1, <1>3, <1>4 DEF IndexAt

\* The same after a step.
LEMMA IntervalNext ==
  ASSUME InvTable', NEW a \in 0..Size
  PROVE  /\ Base(a)' \in 0..Size /\ Base(a)' <= a
         /\ OffsetAt(table', a) = a - Base(a)'
         /\ \A b \in 0..Size : Base(a)' <= b /\ b <= a =>
              Base(b)' = Base(a)' /\ IndexAt(table', b) = IndexAt(table', a)
<1>1. /\ Base(a)' \in 0..Size /\ Base(a)' <= a
      /\ \A b \in 0..Size : Base(a)' <= b /\ b <= a =>
              Base(b)' = Base(a)' /\ Entry(table', b) = Entry(table', a)
  BY FloorMeans, Sizes DEF InvTable, Base
<1>2. Entry(table', a).offset = 0
  <2>1. Entry(table', a) \in Entries'
    BY Sizes, EntryOfFloor DEF InvTable, Normal
  <2> QED BY <2>1 DEF Entries
<1>3. OffsetAt(table', a) = a - Base(a)'
  BY <1>1, <1>2 DEF OffsetAt, Base
<1> QED BY <1>1, <1>3 DEF IndexAt

\* What is mapped is below the size and in a slot.
LEMMA MappedIsSlot ==
  ASSUME InvTable, NEW a \in 0..Size, IsMapped(a)
  PROVE  a \in Addr /\ IndexAt(table, a) \in Slots
<1>1. IndexAt(table, a) \in Slots
  BY EntryForm DEF IsMapped
<1>2. a # Size
  BY DEF InvTable, IsMapped
<1> QED BY <1>1, <1>2, Sizes DEF Addr

\* An empty cache.
LEMMA InitInv ==
  ASSUME Init
  PROVE  Inv
<1> USE DEF Init
<1>1. Slots = {} /\ Len(slots) = 0
  BY DEF Slots
<1>2. InvTypes
  <2>1. Len(slots) <= MaxSlots /\ last \in 0..Size
    BY <1>1, Sizes
  <2>2. slots \in Seq(Progs \cup {Free})
    <3>1. slots = <<>>
      OBVIOUS
    <3>2. \A S : <<>> \in Seq(S)
      OBVIOUS
    <3> QED BY <3>1, <3>2
  <2>3. overwritten \in BOOLEAN /\ shifted \subseteq Addr /\ dangling \subseteq Addr
    OBVIOUS
  <2>4. target \in [Progs -> Nat] /\ loads \in [Progs -> Nat]
    BY LengthAssumption
  <2> QED BY <2>1, <2>2, <2>3, <2>4 DEF InvTypes
<1>3. /\ DOMAIN table = {0} /\ table[0] = Blank
      /\ table = [b \in DOMAIN table |-> table[b]]
  BY DEF EmptyTable
<1>4. Blank \in Entries
  BY DEF Entries, Blank
<1>5. Proper(table, Size, Entries)
  BY <1>3, <1>4, Sizes DEF Proper
<1>6. \A b \in DOMAIN table : ~Redundant(table, b)
  BY <1>3 DEF Redundant
<1>7. ASSUME NEW a \in 0..Size PROVE IndexAt(table, a) = Unmapped
  <2>1. IsFloor(DOMAIN table, a, 0)
    BY <1>3 DEF IsFloor
  <2>2. Entry(table, a) = Blank
    BY <2>1, <1>3, <1>5, Sizes, EntryByFloor
  <2> QED BY <2>2 DEF IndexAt, Blank
<1>8. InvTable
  BY <1>5, <1>6, <1>7, Sizes DEF InvTable, Normal
<1>9. \A a \in Addr : ~IsMapped(a)
  BY <1>7, Sizes DEF IsMapped, Addr
<1>10. \A p \in Progs : ~Live(p) /\ target[p] = Target[p] /\ loads[p] = 0
  BY <1>9 DEF Live
<1>11. Damaged = {}
  BY DEF Damaged
<1>12. InvDamaged /\ InvSound /\ InvOnce /\ InvLoads
  BY <1>9, <1>10, <1>11 DEF InvDamaged, InvSound, InvOnce, InvLoads
<1> QED BY <1>2, <1>8, <1>12 DEF Inv

(***************************************************************************)
(* load_prog.                                                              *)
(***************************************************************************)

\* The scan finds a free slot if there is one.
LEMMA LastFreeIsFree ==
  ASSUME InvTypes, HasFree
  PROVE  LastFree \in 1..Len(slots) /\ slots[LastFree] = Free
<1> DEFINE T == {k \in DOMAIN slots : slots[k] = Free}
<1>1. Len(slots) \in Nat /\ DOMAIN slots = 1..Len(slots)
  BY DEF InvTypes
<1>2. T \subseteq 0..Len(slots) /\ T # {}
  BY <1>1 DEF HasFree
<1>3. PICK k \in T : \A j \in T : j <= k
  <2> HIDE DEF T
  <2> QED BY <1>1, <1>2, NatMax
<1>4. /\ k \in DOMAIN slots /\ slots[k] = Free
      /\ \A j \in DOMAIN slots : slots[j] = Free => j <= k
  BY <1>3
<1>5. LastFree \in DOMAIN slots /\ slots[LastFree] = Free
  BY <1>4 DEF LastFree
<1> QED BY <1>1, <1>5

\* The slot a program gets: what is mapped to it dangles, and the others stay.
LEMMA SlotFacts ==
  ASSUME Inv, NEW p \in Progs, NEW start, LoadProg(p, start)
  PROVE  /\ Slot - 1 \in Slots'
         /\ \A a \in Addr : IndexAt(table, a) = Slot - 1 => a \in dangling
         /\ slots' \in Seq(Progs \cup {Free}) /\ Len(slots') <= MaxSlots
         /\ slots'[Slot] = p /\ Slot \in Nat
         /\ Slots \subseteq Slots'
         /\ \A j \in Slots' : j # Slot - 1 => j \in Slots /\ slots'[j + 1] = slots[j + 1]
<1>0. /\ slots \in Seq(Progs \cup {Free}) /\ Len(slots) \in Nat /\ Len(slots) <= MaxSlots
      /\ DOMAIN slots = 1..Len(slots)
  BY DEF Inv, InvTypes
<1>1. /\ slots' = IF HasFree THEN [slots EXCEPT ![Slot] = p]
                  ELSE [k \in 1..Slot |-> IF k = Slot THEN p ELSE slots[k]]
      /\ Slot <= MaxSlots
  BY DEF LoadProg
<1>2. CASE HasFree
  <2>1. Slot \in 1..Len(slots) /\ slots[Slot] = Free
    BY <1>2, LastFreeIsFree DEF Slot, Inv
  <2>2. slots' = [slots EXCEPT ![Slot] = p]
    BY <1>1, <1>2
  <2>3. /\ slots' \in Seq(Progs \cup {Free}) /\ Len(slots') = Len(slots)
        /\ slots'[Slot] = p
        /\ \A j \in 1..Len(slots) : j # Slot => slots'[j] = slots[j]
    BY <2>1, <2>2, <1>0
  <2>4. Slots' = Slots /\ Slot - 1 \in Slots
    BY <2>1, <2>3, <1>0 DEF Slots
  <2>5. ASSUME NEW a \in Addr, IndexAt(table, a) = Slot - 1 PROVE a \in dangling
    <3>1. IsMapped(a) /\ ProgAt(a) = Free
      BY <2>1, <2>4, <2>5, Sizes DEF IsMapped, ProgAt, Slots
    <3> QED BY <3>1, Sizes DEF Inv, InvSound
  <2>6. ASSUME NEW j \in Slots', j # Slot - 1
        PROVE  j \in Slots /\ slots'[j + 1] = slots[j + 1]
    <3>1. j + 1 \in 1..Len(slots) /\ j + 1 # Slot /\ j \in Slots
      BY <1>0, <2>1, <2>4, <2>6 DEF Slots
    <3> QED BY <3>1, <2>3
  <2> QED BY <1>0, <2>1, <2>3, <2>4, <2>5, <2>6
<1>3. CASE ~HasFree
  <2>1. Slot = Len(slots) + 1
    BY <1>3 DEF Slot
  <2>2. slots' = [k \in 1..Slot |-> IF k = Slot THEN p ELSE slots[k]]
    BY <1>1, <1>3
  <2>3. /\ slots' \in Seq(Progs \cup {Free}) /\ Len(slots') = Slot
        /\ slots'[Slot] = p
        /\ \A j \in 1..Len(slots) : slots'[j] = slots[j]
    BY <2>1, <2>2, <1>0
  <2>4. Slots' = 0..Len(slots) /\ Slot - 1 = Len(slots)
    BY <2>1, <2>3, <1>0 DEF Slots
  <2>5. \A a \in Addr : IndexAt(table, a) # Slot - 1
    <3>1. Slot - 1 \notin {Unmapped} \cup Slots
      BY <2>4, <1>0, Sizes DEF Slots
    <3>2. \A a \in Addr : a \in 0..Size
      BY Sizes DEF Addr
    <3> QED BY <3>1, <3>2, EntryForm DEF Inv
  <2>6. ASSUME NEW j \in Slots', j # Slot - 1
        PROVE  j \in Slots /\ slots'[j + 1] = slots[j + 1]
    <3>1. j + 1 \in 1..Len(slots) /\ j \in Slots
      BY <1>0, <2>4, <2>6 DEF Slots
    <3> QED BY <3>1, <2>3
  <2>7. Slots \subseteq Slots' /\ Slot - 1 \in Slots'
    BY <1>0, <2>4 DEF Slots
  <2> QED BY <1>0, <1>1, <2>1, <2>3, <2>5, <2>6, <2>7
<1> QED BY <1>2, <1>3

\* The range a load maps, and the table after it.
LEMMA LoadTable ==
  ASSUME Inv, NEW p \in Progs, NEW start \in 0..Size, LoadProg(p, start)
  PROVE  /\ start \in Addr /\ start + Length[p] \in 1..Size
         /\ start < start + Length[p]
         /\ InvTable' /\ Normal(table', Size, Entries')
         /\ \A a \in 0..Size : Entry(table', a)
              = IF start <= a /\ a < start + Length[p]
                THEN [index |-> Slot - 1, offset |-> 0] ELSE Entry(table, a)
         /\ \A a \in 0..Size : IndexAt(table', a)
              = IF start <= a /\ a < start + Length[p] THEN Slot - 1 ELSE IndexAt(table, a)
<1>1. /\ start + Length[p] <= Size
      /\ table' = Mapped(table, start, start + Length[p], Slot - 1, 0)
  BY DEF LoadProg
<1>2. Length[p] \in Nat /\ Length[p] > 0 /\ Size \in Nat
  BY Sizes
<1> DEFINE end == start + Length[p]
<1>3. start \in Addr /\ end \in 1..Size /\ end \in 0..Size /\ start < end
  BY <1>1, <1>2 DEF Addr
<1> HIDE DEF end
<1>4. Slot - 1 \in Slots' /\ Slots \subseteq Slots'
  BY SlotFacts
<1>5. Proper(table, Size, Entries')
  <2>1. Entries \subseteq Entries'
    BY <1>4 DEF Entries
  <2> QED BY <2>1 DEF Inv, InvTable, Normal, Proper
<1>6. [index |-> Slot - 1, offset |-> 0] \in Entries'
  BY <1>4 DEF Entries
<1>7. table' = Mapped(table, start, end, Slot - 1, 0)
  BY <1>1 DEF end
<1> DEFINE E == Entries'
<1> DEFINE k == Slot - 1
<1>8. /\ Proper(table', Size, Entries')
      /\ \A b \in DOMAIN table' : ~Redundant(table', b)
      /\ \A a \in 0..Size : Entry(table', a)
           = IF start <= a /\ a < end THEN [index |-> Slot - 1, offset |-> 0]
                                      ELSE Entry(table, a)
  <2>1. Proper(table, Size, E) /\ [index |-> k, offset |-> 0] \in E
    BY <1>5, <1>6
  <2>2. table' = Mapped(table, start, end, k, 0)
    BY <1>7
  <2> HIDE DEF E, k
  <2>3. /\ Proper(table', Size, E)
        /\ \A b \in DOMAIN table' : ~Redundant(table', b)
        /\ \A a \in 0..Size : Entry(table', a)
             = IF start <= a /\ a < end THEN [index |-> k, offset |-> 0] ELSE Entry(table, a)
    BY <1>2, <1>3, <2>1, <2>2, MappedEntry
  <2> QED BY <2>3 DEF E, k
<1>9. \A a \in 0..Size : IndexAt(table', a)
        = IF start <= a /\ a < end THEN Slot - 1 ELSE IndexAt(table, a)
  BY <1>8 DEF IndexAt
<1>10. IndexAt(table', Size) = Unmapped
  <2>1. Size \in 0..Size /\ ~(Size < end)
    BY <1>2, <1>3
  <2> QED BY <1>9, <2>1 DEF Inv, InvTable
<1> QED BY <1>3, <1>8, <1>9, <1>10 DEF InvTable, Normal, end

\* Where the positions count from after a load.
LEMMA LoadBases ==
  ASSUME Inv, NEW p \in Progs, NEW start \in 0..Size, LoadProg(p, start),
         NEW end, end = start + Length[p]
  PROVE  /\ \A a \in Addr :
              IndexAt(table, a) # Slot - 1 /\ ~(start <= a /\ a < end) =>
              Base(a)' = IF a < start \/ end <= Base(a) THEN Base(a) ELSE end
         /\ ~RunsOn(start) =>
              \A a \in Addr : start <= a /\ a < end => Base(a)' = start
         /\ RunsOn(start) => start > 0 /\ start - 1 \in dangling
<1> PICK x : x = [index |-> Slot - 1, offset |-> 0]
  OBVIOUS
<1>1. /\ start \in Addr /\ end \in 1..Size /\ end \in 0..Size /\ start < end
      /\ Normal(table', Size, Entries') /\ InvTable'
      /\ \A a \in 0..Size : Entry(table', a)
           = IF start <= a /\ a < end THEN x ELSE Entry(table, a)
  BY LoadTable, Sizes
<1>2. Normal(table, Size, Entries) /\ Size \in Nat /\ \A a \in Addr : a \in 0..Size /\ a \in Nat
  BY Sizes DEF Inv, InvTable, Addr
<1>3. ASSUME NEW a \in Addr, IndexAt(table, a) # Slot - 1, ~(start <= a /\ a < end)
      PROVE  Base(a)' = IF a < start \/ end <= Base(a) THEN Base(a) ELSE end
  <2>1. Entry(table, a) # x
    BY <1>3 DEF IndexAt
  <2>2. PICK F : F = Entries'
    OBVIOUS
  <2>3. PICK u : u = table'
    OBVIOUS
  <2>4. Floor(DOMAIN u, a) = IF a < start \/ end <= Floor(DOMAIN table, a)
                             THEN Floor(DOMAIN table, a) ELSE end
    <3>1. /\ Normal(table, Size, Entries) /\ Normal(u, Size, F) /\ a \in 0..Size
          /\ Size \in Nat /\ end \in 0..Size /\ start < end /\ Entry(table, a) # x
          /\ ~(start <= a /\ a < end)
          /\ Remapped(table, u, Size, start, end, x)
      BY <1>1, <1>2, <1>3, <2>1, <2>2, <2>3 DEF Remapped
    <3> QED BY <3>1, FloorAfter
  <2> QED BY <2>3, <2>4 DEF Base
<1>4. \A b \in 0..Size : start <= b /\ b < end => Entry(table', b) = x
  BY <1>1
<1>5. ASSUME ~RunsOn(start), NEW a \in Addr, start <= a, a < end
      PROVE  Base(a)' = start
  <2>1. PICK f : f = Base(a)'
    OBVIOUS
  <2>2. /\ f \in 0..Size /\ f <= a
        /\ \A b \in 0..Size : f <= b /\ b <= a => Base(b)' = f
        /\ f > 0 => Entry(table', f - 1) # Entry(table', a)
    BY <1>1, <1>2, <2>1, FloorMeans DEF Base
  <2>3. ~(f > start)
    <3> SUFFICES ASSUME f > start PROVE FALSE
      OBVIOUS
    <3>1. f - 1 \in 0..Size /\ start <= f - 1 /\ f - 1 < end /\ f > 0
      BY <1>1, <1>2, <1>5, <2>2
    <3>2. Entry(table', f - 1) = x /\ Entry(table', a) = x
      BY <1>2, <1>4, <1>5, <3>1
    <3> QED BY <2>2, <3>1, <3>2
  <2>4. Base(start)' = f
    BY <1>1, <1>2, <1>5, <2>2, <2>3
  <2>5. Base(start)' = start
    BY <1>5 DEF RunsOn, Base
  <2> QED BY <2>1, <2>4, <2>5
<1>6. ASSUME RunsOn(start) PROVE start > 0 /\ start - 1 \in dangling
  <2>1. PICK f : f = Base(start)'
    OBVIOUS
  <2>2. /\ f \in 0..Size /\ f <= start /\ f # start
        /\ \A b \in 0..Size : f <= b /\ b <= start => Entry(table', b) = Entry(table', start)
    BY <1>1, <1>2, <1>6, <2>1, FloorMeans DEF Base, RunsOn
  <2>3. start - 1 \in Addr /\ start - 1 \in 0..Size /\ f <= start - 1 /\ start > 0
    BY <1>1, <1>2, <2>2 DEF Addr
  <2>4. Entry(table', start - 1) = x
    BY <1>1, <1>2, <1>4, <2>2, <2>3
  <2>5. Entry(table, start - 1) = x
    BY <1>1, <1>2, <2>3, <2>4
  <2>6. IndexAt(table, start - 1) = Slot - 1
    BY <2>5 DEF IndexAt
  <2> QED BY <2>3, <2>6, SlotFacts
<1> QED BY <1>3, <1>5, <1>6

\* The history variables and the range, without the abbreviations of load_prog.
LEMMA LoadHistory ==
  ASSUME Inv, NEW p \in Progs, NEW start \in 0..Size, LoadProg(p, start),
         NEW end, end = start + Length[p]
  PROVE  /\ \A a \in Addr : a \in Stretch(start, end) <=> start <= a /\ a < end
         /\ \A a \in Addr : a \in shifted'
              <=> \/ a \in shifted /\ ~(start <= a /\ a < end)
                  \/ end <= a /\ IsMapped(a) /\ Base(a) < end
         /\ \A a \in Addr : a \in dangling'
              <=> \/ a \in dangling /\ ~(start <= a /\ a < end)
                  \/ start <= a /\ a < end /\ RunsOn(start)
         /\ shifted' \subseteq Addr /\ dangling' \subseteq Addr
         /\ loads' = [loads EXCEPT ![p] = @ + 1]
         /\ target' = [target EXCEPT ![p] = @ + start]
<1>1. /\ shifted' = (shifted \ Stretch(start, end)) \cup Rest(end)
      /\ dangling' = (dangling \ Stretch(start, end))
                       \cup {a \in Stretch(start, end) : RunsOn(start)}
      /\ loads' = [loads EXCEPT ![p] = @ + 1]
      /\ target' = [target EXCEPT ![p] = @ + start]
  BY DEF LoadProg, Moved
<1>2. start \in Addr /\ end \in 1..Size /\ Size \in Nat
  BY LoadTable, Sizes
<1>3. \A a \in Addr : a \in Stretch(start, end) <=> start <= a /\ a < end
  BY <1>2 DEF Stretch, Addr
<1>4. Stretch(start, end) \subseteq Addr
  BY <1>2 DEF Stretch, Addr
<1>5. shifted \subseteq Addr /\ dangling \subseteq Addr
  BY DEF Inv, InvTypes
<1>6. \A a \in Addr : a \in Rest(end) <=> end <= a /\ IsMapped(a) /\ Base(a) < end
  BY <1>2 DEF Rest, Base, Addr
<1>7. Rest(end) \subseteq Addr
  BY DEF Rest
<1> QED BY <1>1, <1>3, <1>4, <1>5, <1>6, <1>7

\* What was intact outside the range, and not behind it in its interval, is
\* found as before ...
LEMMA LoadOutside ==
  ASSUME Inv, NEW p \in Progs, NEW start \in 0..Size, LoadProg(p, start),
         NEW end, end = start + Length[p],
         NEW a \in Addr, ~(start <= a /\ a < end)
  PROVE  /\ IndexAt(table', a) = IndexAt(table, a)
         /\ IsMapped(a) /\ a \notin dangling =>
              /\ IndexAt(table, a) # Slot - 1 /\ IndexAt(table, a) \in Slots
              /\ ProgAt(a)' = ProgAt(a)
              /\ Base(a)' = IF a < start \/ end <= Base(a) THEN Base(a) ELSE end
         /\ a \notin Damaged' <=> a \notin Damaged /\ (end <= a /\ IsMapped(a) => end <= Base(a))
         /\ IsMapped(a) /\ a \notin Damaged' => Base(a)' = Base(a)
<1>0. a \in 0..Size /\ a \in Nat /\ end \in 0..Size /\ start \in Nat /\ Base(a) \in 0..Size
  BY Sizes, LoadTable, Interval DEF Addr, Inv
<1>1. IndexAt(table', a) = IndexAt(table, a)
  BY <1>0, LoadTable
<1>2. ASSUME IsMapped(a), a \notin dangling
      PROVE  /\ IndexAt(table, a) # Slot - 1 /\ IndexAt(table, a) \in Slots
             /\ ProgAt(a)' = ProgAt(a)
             /\ Base(a)' = IF a < start \/ end <= Base(a) THEN Base(a) ELSE end
  <2>1. IndexAt(table, a) # Slot - 1
    BY <1>2, SlotFacts
  <2>2. IndexAt(table, a) \in Slots /\ IndexAt(table, a) \in Slots'
    BY <1>0, <1>2, MappedIsSlot, SlotFacts DEF Inv
  <2>3. slots'[IndexAt(table, a) + 1] = slots[IndexAt(table, a) + 1]
    BY <2>1, <2>2, SlotFacts
  <2> QED BY <1>1, <2>1, <2>2, <2>3, LoadBases DEF ProgAt
<1>3. a \notin Damaged' <=> a \notin Damaged /\ (end <= a /\ IsMapped(a) => end <= Base(a))
  BY <1>0, LoadHistory DEF Damaged
<1>4. ASSUME IsMapped(a), a \notin Damaged' PROVE Base(a)' = Base(a)
  <2>1. a \notin dangling /\ (a < start \/ end <= Base(a))
    BY <1>0, <1>3, <1>4 DEF Damaged
  <2> QED BY <1>2, <1>4, <2>1
<1> QED BY <1>1, <1>2, <1>3, <1>4

\* ... and what is loaded from the start of the range, if the range is intact.
LEMMA LoadInside ==
  ASSUME Inv, NEW p \in Progs, NEW start \in 0..Size, LoadProg(p, start),
         NEW end, end = start + Length[p],
         NEW a \in Addr, start <= a, a < end
  PROVE  /\ IndexAt(table', a) = Slot - 1 /\ IsMapped(a)' /\ ProgAt(a)' = p
         /\ a \notin Damaged' <=> ~RunsOn(start)
         /\ a \notin dangling' <=> ~RunsOn(start)
         /\ ~RunsOn(start) => Base(a)' = start
<1>0. a \in 0..Size /\ a \in Nat /\ end \in 0..Size /\ start \in Nat
  BY Sizes, LoadTable DEF Addr
<1>1. IndexAt(table', a) = Slot - 1
  BY <1>0, LoadTable
<1>2. Slot - 1 \in Slots' /\ slots'[Slot] = p /\ (Slot - 1) + 1 = Slot /\ Slot - 1 # Unmapped
  BY SlotFacts, Sizes DEF Slots
<1>3. a \notin Damaged' <=> ~RunsOn(start)
  BY <1>0, LoadHistory DEF Damaged
<1>4. a \notin dangling' <=> ~RunsOn(start)
  BY <1>0, LoadHistory
<1>5. ~RunsOn(start) => Base(a)' = start
  BY LoadBases
<1> QED BY <1>1, <1>2, <1>3, <1>4, <1>5 DEF IsMapped, ProgAt

\* A load keeps the types.
LEMMA LoadTypes ==
  ASSUME Inv, NEW p \in Progs, NEW start \in 0..Size, LoadProg(p, start)
  PROVE  InvTypes'
<1>1. start \in Addr /\ start + Length[p] \in 1..Size /\ start \in Nat
  BY LoadTable, Sizes DEF Addr
<1>2. slots' \in Seq(Progs \cup {Free}) /\ Len(slots') <= MaxSlots
  BY SlotFacts
<1>3. last' \in 0..Size
  BY <1>1, Sizes DEF LoadProg
<1>4. overwritten' \in BOOLEAN
  BY DEF LoadProg, ContainsMapping
<1>5. /\ loads' = [loads EXCEPT ![p] = @ + 1] /\ target' = [target EXCEPT ![p] = @ + start]
      /\ shifted' \subseteq Addr /\ dangling' \subseteq Addr
  BY LoadHistory
<1>6. target \in [Progs -> Nat] /\ loads \in [Progs -> Nat]
  BY DEF Inv, InvTypes
<1>7. target[p] + start \in Nat /\ loads[p] + 1 \in Nat
  BY <1>1, <1>6
<1>8. target' \in [Progs -> Nat] /\ loads' \in [Progs -> Nat]
  BY <1>5, <1>6, <1>7
<1> QED BY <1>2, <1>3, <1>4, <1>5, <1>8 DEF InvTypes, Addr

\* A load keeps what is said of damage.
LEMMA LoadDamaged ==
  ASSUME Inv, NEW p \in Progs, NEW start \in 0..Size, LoadProg(p, start)
  PROVE  InvDamaged'
<1> PICK end : end = start + Length[p]
  OBVIOUS
<1> DEFINE In(a) == start <= a /\ a < end
<1>0. /\ end \in 0..Size /\ start \in Nat /\ \A a \in Addr : a \in Nat /\ a \in 0..Size
      /\ InvTable /\ InvTable' /\ InvDamaged
  BY Sizes, LoadTable DEF Addr, Inv
<1>1. ASSUME NEW a \in Addr, a \in Damaged' PROVE IsMapped(a)'
  <2>1. CASE In(a)
    BY <2>1, LoadInside
  <2>2. CASE ~In(a)
    <3>1. a \in Damaged \/ IsMapped(a)
      BY <1>1, <2>2, LoadOutside
    <3>2. IsMapped(a)
      BY <3>1, <1>0 DEF InvDamaged
    <3> QED BY <2>2, <3>2, LoadOutside DEF IsMapped
  <2> QED BY <2>1, <2>2
<1>2. ASSUME NEW a \in Addr, NEW b \in Addr, a \notin Damaged', IsMapped(a)', Base(a)' <= b, b <= a
      PROVE  b \notin Damaged'
  <2>1. CASE In(a)
    <3>1. ~RunsOn(start) /\ Base(a)' = start
      BY <1>2, <2>1, LoadInside
    <3>2. In(b)
      BY <1>0, <1>2, <2>1, <3>1
    <3> QED BY <3>1, <3>2, LoadInside
  <2>2. CASE ~In(a)
    <3>1. IsMapped(a) /\ Base(a)' = Base(a) /\ a \notin Damaged
      BY <1>2, <2>2, LoadOutside DEF IsMapped
    <3>2. end <= a => end <= Base(a)
      BY <1>2, <2>2, <3>1, LoadOutside
    <3>3. Base(a) \in 0..Size /\ b \in 0..Size /\ Base(b) = Base(a)
      BY <1>0, <1>2, <3>1, Interval
    <3>4. ~In(b) /\ (end <= b => end <= Base(b))
      BY <1>0, <1>2, <2>2, <3>1, <3>2, <3>3
    <3>5. b \notin Damaged
      BY <1>0, <1>2, <3>1 DEF InvDamaged
    <3> QED BY <3>4, <3>5, LoadOutside
  <2> QED BY <2>1, <2>2
<1>3. \A a \in Damaged' : a \in Addr
  BY LoadHistory DEF Damaged
<1> QED BY <1>1, <1>2, <1>3 DEF InvDamaged, Addr

\* A load keeps fetches inside programs.
LEMMA LoadSound ==
  ASSUME Inv, NEW p \in Progs, NEW start \in 0..Size, LoadProg(p, start)
  PROVE  InvSound'
<1> PICK end : end = start + Length[p]
  OBVIOUS
<1>0. end \in 0..Size /\ start \in Nat /\ \A a \in Addr : a \in Nat /\ a \in 0..Size
  BY Sizes, LoadTable DEF Addr
<1> SUFFICES ASSUME NEW a \in Addr, a \notin dangling', IsMapped(a)'
             PROVE  ProgAt(a)' \in Progs /\ a - Base(a)' < Length[ProgAt(a)']
  BY DEF InvSound, Addr
<1>1. CASE start <= a /\ a < end
  <2>1. ProgAt(a)' = p /\ Base(a)' = start
    BY <1>1, LoadInside
  <2> QED BY <1>0, <1>1, <2>1, Sizes
<1>2. CASE ~(start <= a /\ a < end)
  <2>1. IsMapped(a) /\ a \notin dangling
    BY <1>2, <1>0, LoadOutside, LoadHistory DEF IsMapped
  <2>2. ProgAt(a) \in Progs /\ a - Base(a) < Length[ProgAt(a)]
    BY <2>1 DEF Inv, InvSound
  <2>3. /\ ProgAt(a)' = ProgAt(a)
        /\ Base(a)' = IF a < start \/ end <= Base(a) THEN Base(a) ELSE end
    BY <1>2, <2>1, LoadOutside
  <2>4. Base(a) \in 0..Size
    BY <1>0, Interval DEF Inv
  <2>5. Base(a)' >= Base(a) /\ Base(a)' \in Int
    BY <1>0, <2>3, <2>4
  <2> QED BY <1>0, <2>2, <2>3, <2>4, <2>5, Sizes
<1> QED BY <1>1, <1>2

\* A load keeps what is intact in a slot in one interval.
LEMMA LoadOnce ==
  ASSUME Inv, NEW p \in Progs, NEW start \in 0..Size, LoadProg(p, start)
  PROVE  InvOnce'
<1> PICK end : end = start + Length[p]
  OBVIOUS
<1> DEFINE In(a) == start <= a /\ a < end
<1>1. ASSUME NEW a \in Addr, a \notin Damaged', IsMapped(a)'
      PROVE  IF In(a) THEN Base(a)' = start /\ IndexAt(table', a) = Slot - 1
             ELSE /\ Base(a)' = Base(a) /\ IndexAt(table', a) = IndexAt(table, a)
                  /\ IndexAt(table, a) # Slot - 1 /\ a \notin Damaged /\ IsMapped(a)
  <2>1. CASE In(a)
    BY <1>1, <2>1, LoadInside
  <2>2. CASE ~In(a)
    <3>1. IsMapped(a) /\ IndexAt(table', a) = IndexAt(table, a) /\ a \notin Damaged
      BY <1>1, <2>2, LoadOutside DEF IsMapped
    <3> QED BY <1>1, <2>2, <3>1, LoadOutside DEF Damaged
  <2> QED BY <2>1, <2>2
<1>2. ASSUME NEW a \in Addr, NEW b \in Addr, a \notin Damaged', b \notin Damaged',
             IsMapped(a)', IndexAt(table', a) = IndexAt(table', b)
      PROVE  Base(a)' = Base(b)'
  <2>1. IsMapped(b)'
    BY <1>2 DEF IsMapped
  <2> HIDE DEF In
  <2>2. CASE In(a) \/ In(b)
    BY <1>1, <1>2, <2>1, <2>2
  <2>3. CASE ~In(a) /\ ~In(b)
    BY <1>1, <1>2, <2>1, <2>3 DEF Inv, InvOnce
  <2> QED BY <2>2, <2>3
<1> QED BY <1>2 DEF InvOnce, Addr

\* A load keeps the jumps.
LEMMA LoadLoads ==
  ASSUME Inv, NEW p \in Progs, NEW start \in 0..Size, LoadProg(p, start)
  PROVE  InvLoads'
<1> PICK end : end = start + Length[p]
  OBVIOUS
<1>0. /\ end \in 0..Size /\ start \in Nat /\ start + Length[p] <= Size
      /\ \A a \in Addr : a \in Nat /\ a \in 0..Size
  BY Sizes, LoadTable DEF Addr
<1>1. /\ loads' = [loads EXCEPT ![p] = @ + 1] /\ target' = [target EXCEPT ![p] = @ + start]
      /\ loads \in [Progs -> Nat] /\ target \in [Progs -> Nat] /\ InvLoads
  BY LoadHistory DEF Inv, InvTypes
<1>2. /\ loads'[p] = loads[p] + 1 /\ loads[p] \in Nat
      /\ target'[p] = target[p] + start
      /\ \A q \in Progs : q # p => loads'[q] = loads[q] /\ target'[q] = target[q]
  BY <1>1
<1>3. loads'[p] = 1 => target'[p] = start + Target[p] /\ target'[p] \in Addr /\ ~Live(p)
  <2> SUFFICES ASSUME loads'[p] = 1
               PROVE  target'[p] = start + Target[p] /\ target'[p] \in Addr /\ ~Live(p)
    OBVIOUS
  <2>1. loads[p] = 0
    BY <1>2
  <2>2. target[p] = Target[p] /\ ~Live(p)
    BY <1>1, <2>1 DEF InvLoads
  <2> QED BY <1>0, <1>2, <2>2, Sizes DEF Addr
<1>4. ASSUME NEW a \in Addr, IsMapped(a)', ProgAt(a)' # p
      PROVE  ProgAt(a)' \in Progs => Live(ProgAt(a)')
  <2>1. ~(start <= a /\ a < end) /\ IsMapped(a)
    BY <1>4, LoadInside, LoadOutside DEF IsMapped
  <2>2. CASE IndexAt(table, a) = Slot - 1
    <3>1. ProgAt(a)' = p
      BY <2>1, <2>2, LoadOutside, SlotFacts DEF ProgAt
    <3> QED BY <1>4, <3>1
  <2>3. CASE IndexAt(table, a) # Slot - 1
    <3>1. IndexAt(table, a) \in Slots
      BY <1>0, <2>1, MappedIsSlot DEF Inv
    <3>2. ProgAt(a)' = ProgAt(a)
      BY <2>1, <2>3, <3>1, LoadOutside, SlotFacts DEF ProgAt
    <3> QED BY <2>1, <3>2 DEF Live
  <2> QED BY <2>2, <2>3
<1>5. ASSUME NEW q \in Progs
      PROVE  /\ loads'[q] = 0 => ~Live(q)' /\ target'[q] = Target[q]
             /\ loads'[q] = 1 => target'[q] \in Addr
  <2>1. CASE q = p
    BY <2>1, <1>2, <1>3
  <2>2. CASE q # p
    <3>1. loads'[q] = loads[q] /\ target'[q] = target[q]
      BY <2>2, <1>2
    <3>2. Live(q)' => Live(q)
      BY <2>2, <1>4 DEF Live, Addr
    <3> QED BY <3>1, <3>2, <1>1 DEF InvLoads
  <2> QED BY <2>1, <2>2
<1>6. ASSUME NEW a \in Addr, a \notin Damaged', IsMapped(a)', loads'[ProgAt(a)'] = 1
      PROVE  target'[ProgAt(a)'] = Base(a)' + Target[ProgAt(a)']
  <2>1. CASE start <= a /\ a < end
    <3>1. ProgAt(a)' = p /\ Base(a)' = start
      BY <1>6, <2>1, LoadInside
    <3> QED BY <3>1, <1>3, <1>6
  <2>2. CASE ~(start <= a /\ a < end)
    <3>1. IsMapped(a) /\ a \notin Damaged /\ Base(a)' = Base(a) /\ a \notin dangling
      BY <1>6, <2>2, LoadOutside DEF IsMapped, Damaged
    <3>2. ProgAt(a)' = ProgAt(a) /\ ProgAt(a) \in Progs
      BY <2>2, <3>1, LoadOutside DEF Inv, InvSound
    <3>3. ProgAt(a) # p
      <4> SUFFICES ASSUME ProgAt(a) = p PROVE FALSE
        OBVIOUS
      <4>1. Live(p)
        BY <3>1 DEF Live
      <4> QED BY <4>1, <3>2, <1>3, <1>6
    <3>4. loads[ProgAt(a)] = 1 /\ target'[ProgAt(a)] = target[ProgAt(a)]
      BY <3>2, <3>3, <1>2, <1>6
    <3> QED BY <3>1, <3>2, <3>4, <1>1 DEF InvLoads
  <2> QED BY <2>1, <2>2
<1> QED BY <1>5, <1>6 DEF InvLoads, Addr

\* A load keeps the invariant.
LEMMA LoadStep ==
  ASSUME Inv, NEW p \in Progs, NEW start \in 0..Size, LoadProg(p, start)
  PROVE  Inv'
<1>1. InvTable'
  BY LoadTable
<1> QED
  BY <1>1, LoadTypes, LoadDamaged, LoadSound, LoadOnce, LoadLoads DEF Inv

(***************************************************************************)
(* drop_prog_starting_at, and a list that is generated anew.               *)
(***************************************************************************)

\* The next boundary after a mapped address: there is one, and up to it there
\* is nothing but the interval of that address.
LEMMA DropEnd ==
  ASSUME InvTable, NEW a \in Addr, IsMapped(a), NEW end, end = EndOfRange(table, a)
  PROVE  /\ end \in 1..Size /\ a < end
         /\ \A b \in 0..Size : a <= b /\ b < end => Base(b) = Base(a)
         /\ \A b \in 0..Size : end <= b => end <= Base(b)
<1>1. /\ Normal(table, Size, Entries) /\ Proper(table, Size, Entries) /\ Size \in Nat
      /\ a \in 0..Size /\ Size \in 0..Size /\ DOMAIN table \subseteq 0..Size
  BY Sizes, ProperDomain DEF InvTable, Normal, Addr
<1>2. HasEnd(table, a)
  <2> SUFFICES ASSUME ~HasEnd(table, a) PROVE FALSE
    OBVIOUS
  <2>1. Base(Size) \in DOMAIN table /\ Base(Size) \in 0..Size
    BY <1>1, FloorFacts DEF Base
  <2>2. Base(Size) <= a
    BY <1>1, <2>1 DEF HasEnd
  <2>3. IndexAt(table, a) = IndexAt(table, Size)
    BY <1>1, <2>2, Interval
  <2> QED BY <2>3 DEF InvTable, IsMapped
<1>3. /\ end \in DOMAIN table /\ end \in 0..Size /\ a < end
      /\ \A c \in DOMAIN table : a < c => end <= c
  BY <1>1, <1>2, EndFacts
<1>4. ASSUME NEW b \in 0..Size, a <= b, b < end PROVE Base(b) = Base(a)
  <2>1. Base(b) \in DOMAIN table /\ Base(b) \in 0..Size /\ Base(b) <= b
    BY <1>1, FloorFacts DEF Base
  <2>2. Base(b) <= a
    BY <1>1, <1>3, <1>4, <2>1
  <2> QED BY <1>1, <1>4, <2>2, Interval
<1>5. ASSUME NEW b \in 0..Size, end <= b PROVE end <= Base(b)
  BY <1>1, <1>3, <1>5, FloorFacts DEF Base
<1> QED BY <1>1, <1>3, <1>4, <1>5

\* The slot is emptied and what follows the address is unmapped.
LEMMA DropTable ==
  ASSUME Inv, NEW a \in Addr, DropProg(a),
         NEW k, k = IndexAt(table, a), NEW end, end = EndOfRange(table, a)
  PROVE  /\ k \in Slots /\ Slots' = Slots /\ InvTable' /\ InvTypes'
         /\ end \in 1..Size /\ a < end
         /\ \A b \in Slots : slots'[b + 1] = IF b = k THEN Free ELSE slots[b + 1]
         /\ \A b \in 0..Size : IndexAt(table', b)
              = IF a <= b /\ b < end THEN Unmapped ELSE IndexAt(table, b)
         /\ \A b \in Addr : IsMapped(b) /\ ~(a <= b /\ b < end) => Base(b)' = Base(b)
         /\ \A b \in Addr : b \in shifted' <=> b \in shifted /\ ~(a <= b /\ b < end)
         /\ \A b \in Addr : b \in dangling' <=> /\ ~(a <= b /\ b < end)
                                                /\ b \in dangling \/ IndexAt(table, b) = k
<1>1. /\ IsMapped(a)
      /\ slots' = [slots EXCEPT ![k + 1] = Free]
      /\ table' = Mapped(table, a, end, Unmapped, 0)
      /\ shifted' = shifted \ Stretch(a, end)
      /\ dangling' = {b \in Addr \ Stretch(a, end) : b \in dangling \/ IndexAt(table, b) = k}
      /\ UNCHANGED <<last, target, overwritten, loads>>
  BY DEF DropProg
<1>2. a \in 0..Size /\ a \in Nat /\ a < Size /\ Size \in Nat
  BY Sizes DEF Addr
<1>3. k \in Slots
  BY <1>1, <1>2, MappedIsSlot DEF Inv
<1>4. /\ end \in 1..Size /\ end \in 0..Size /\ a < end
      /\ \A b \in 0..Size : end <= b => end <= Base(b)
  BY <1>1, <1>2, DropEnd DEF Inv
<1>5. slots \in Seq(Progs \cup {Free}) /\ k + 1 \in 1..Len(slots) /\ Len(slots) \in Nat
  BY <1>3 DEF Inv, InvTypes, Slots
<1>6. /\ slots' \in Seq(Progs \cup {Free}) /\ Len(slots') = Len(slots)
      /\ \A j \in 1..Len(slots) : slots'[j] = IF j = k + 1 THEN Free ELSE slots[j]
  BY <1>1, <1>5
<1>7. Slots' = Slots /\ Entries' = Entries
  BY <1>6 DEF Slots, Entries
<1>8. \A b \in Slots : slots'[b + 1] = IF b = k THEN Free ELSE slots[b + 1]
  BY <1>3, <1>5, <1>6 DEF Slots
<1>9. \A b \in Addr : b \in Stretch(a, end) <=> a <= b /\ b < end
  BY <1>2, <1>4 DEF Stretch, Addr
<1>10. InvTypes'
  <2>1. shifted' \subseteq Addr /\ dangling' \subseteq Addr
    BY <1>1 DEF Inv, InvTypes
  <2> QED BY <1>1, <1>6, <2>1 DEF Inv, InvTypes, Addr
<1> PICK x : x = [index |-> Unmapped, offset |-> 0]
  OBVIOUS
<1>11. Proper(table, Size, Entries) /\ x \in Entries
  BY DEF Inv, InvTable, Normal, Entries
<1>12. /\ Proper(table', Size, Entries)
       /\ \A b \in DOMAIN table' : ~Redundant(table', b)
       /\ \A b \in 0..Size : Entry(table', b) = IF a <= b /\ b < end THEN x ELSE Entry(table, b)
  BY <1>1, <1>2, <1>4, <1>11, MappedEntry
<1>13. \A b \in 0..Size : IndexAt(table', b)
         = IF a <= b /\ b < end THEN Unmapped ELSE IndexAt(table, b)
  BY <1>12 DEF IndexAt
<1>14. InvTable'
  <2>1. IndexAt(table', Size) = Unmapped
    BY <1>2, <1>13 DEF Inv, InvTable
  <2> QED BY <1>7, <1>12, <2>1 DEF InvTable, Normal
<1>15. ASSUME NEW b \in Addr, IsMapped(b), ~(a <= b /\ b < end)
       PROVE  Base(b)' = Base(b)
  <2> PICK u : u = table'
    OBVIOUS
  <2>0. b \in 0..Size
    BY <1>2 DEF Addr
  <2>1. /\ Normal(table, Size, Entries) /\ Normal(u, Size, Entries)
        /\ Remapped(table, u, Size, a, end, x)
    BY <1>12 DEF Inv, InvTable, Normal, Remapped
  <2>2. Entry(table, b) # x
    BY <1>15 DEF IsMapped, IndexAt
  <2>3. Floor(DOMAIN u, b) = IF b < a \/ end <= Floor(DOMAIN table, b)
                             THEN Floor(DOMAIN table, b) ELSE end
    BY <1>2, <1>4, <1>15, <2>0, <2>1, <2>2, FloorAfter
  <2>4. b < a \/ end <= Base(b)
    BY <1>2, <1>4, <1>15, <2>0
  <2> QED BY <2>3, <2>4 DEF Base
<1> QED BY <1>1, <1>3, <1>4, <1>7, <1>8, <1>9, <1>10, <1>13, <1>14, <1>15

\* What is still mapped after a drop is found as before, or dangles.
LEMMA DropOutside ==
  ASSUME Inv, NEW a \in Addr, DropProg(a), NEW b \in Addr, IsMapped(b)'
  PROVE  /\ IsMapped(b) /\ IndexAt(table', b) = IndexAt(table, b) /\ Base(b)' = Base(b)
         /\ ~(a <= b /\ b < EndOfRange(table, a))
         /\ b \notin dangling' => /\ b \notin dangling /\ ProgAt(b)' = ProgAt(b)
                                  /\ IndexAt(table, b) # IndexAt(table, a)
         /\ b \notin Damaged' => b \notin Damaged /\ b \notin dangling'
<1>0. b \in 0..Size
  BY Sizes DEF Addr
<1>1. ~(a <= b /\ b < EndOfRange(table, a)) /\ IsMapped(b)
      /\ IndexAt(table', b) = IndexAt(table, b)
  BY <1>0, DropTable DEF IsMapped
<1>2. Base(b)' = Base(b)
  BY <1>1, DropTable
<1>3. ASSUME b \notin dangling'
      PROVE  /\ b \notin dangling /\ IndexAt(table, b) # IndexAt(table, a)
             /\ ProgAt(b)' = ProgAt(b)
  <2>1. b \notin dangling /\ IndexAt(table, b) # IndexAt(table, a)
    BY <1>1, <1>3, DropTable
  <2>2. IndexAt(table, b) \in Slots
    BY <1>0, <1>1, MappedIsSlot DEF Inv
  <2> QED BY <1>1, <2>1, <2>2, DropTable DEF ProgAt
<1>4. b \notin Damaged' => b \notin Damaged /\ b \notin dangling'
  BY <1>1, DropTable DEF Damaged
<1> QED BY <1>1, <1>2, <1>3, <1>4

\* A drop keeps the invariant.
LEMMA DropStep ==
  ASSUME Inv, NEW a \in Addr, DropProg(a)
  PROVE  Inv'
<1> PICK end : end = EndOfRange(table, a)
  OBVIOUS
<1>0. /\ \A b \in Addr : b \in Nat /\ b \in 0..Size
      /\ InvTable /\ UNCHANGED <<target, loads>>
  BY Sizes DEF Addr, Inv, DropProg
<1>1. InvTable' /\ InvTypes'
  BY DropTable
<1>2. InvDamaged'
  <2>1. ASSUME NEW b \in Addr, b \in Damaged' PROVE IsMapped(b)'
    <3>1. IsMapped(a)
      BY DEF DropProg
    <3>2. ~(a <= b /\ b < end) /\ IsMapped(b)
      BY <2>1, <3>1, DropTable DEF Damaged, Inv, InvDamaged, IsMapped
    <3> QED BY <1>0, <3>2, DropTable DEF IsMapped
  <2>2. ASSUME NEW b \in Addr, NEW c \in Addr, b \notin Damaged', IsMapped(b)',
               Base(b)' <= c, c <= b
        PROVE  c \notin Damaged'
    <3>1. /\ IsMapped(b) /\ Base(b)' = Base(b) /\ b \notin Damaged
          /\ IndexAt(table, b) # IndexAt(table, a)
      BY <2>2, DropOutside
    <3>2. c \notin Damaged
      BY <2>2, <3>1 DEF Inv, InvDamaged
    <3>3. IndexAt(table, c) = IndexAt(table, b)
      BY <1>0, <2>2, <3>1, Interval
    <3> QED BY <3>1, <3>2, <3>3, DropTable DEF Damaged
  <2>3. \A b \in Damaged' : b \in Addr
    BY <1>1 DEF InvTypes, Damaged, Addr
  <2> QED BY <2>1, <2>2, <2>3 DEF InvDamaged, Addr
<1>3. InvSound'
  <2> SUFFICES ASSUME NEW b \in Addr, b \notin dangling', IsMapped(b)'
               PROVE  ProgAt(b)' \in Progs /\ b - Base(b)' < Length[ProgAt(b)']
    BY DEF InvSound, Addr
  <2> QED BY DropOutside DEF Inv, InvSound
<1>4. InvOnce'
  <2> SUFFICES ASSUME NEW b \in Addr, NEW c \in Addr, b \notin Damaged', c \notin Damaged',
                      IsMapped(b)', IndexAt(table', b) = IndexAt(table', c)
               PROVE  Base(b)' = Base(c)'
    BY DEF InvOnce, Addr
  <2>1. IsMapped(c)'
    BY DEF IsMapped
  <2>2. /\ IsMapped(b) /\ IndexAt(table', b) = IndexAt(table, b) /\ Base(b)' = Base(b)
        /\ b \notin Damaged
    BY DropOutside
  <2>3. /\ IndexAt(table', c) = IndexAt(table, c) /\ Base(c)' = Base(c) /\ c \notin Damaged
    BY <2>1, DropOutside
  <2> QED BY <2>2, <2>3 DEF Inv, InvOnce
<1>5. InvLoads'
  <2>1. ASSUME NEW q \in Progs, Live(q)' PROVE Live(q)
    <3>1. PICK b \in Addr : IsMapped(b)' /\ ProgAt(b)' = q
      BY <2>1 DEF Live, Addr
    <3>2. IsMapped(b) /\ IndexAt(table', b) = IndexAt(table, b) /\ IndexAt(table, b) \in Slots
      BY <1>0, <3>1, DropOutside, MappedIsSlot
    <3>3. IndexAt(table, b) # IndexAt(table, a)
      BY <3>1, <3>2, DropTable, Sizes DEF ProgAt
    <3>4. ProgAt(b)' = ProgAt(b)
      BY <3>2, <3>3, DropTable DEF ProgAt
    <3> QED BY <3>1, <3>2, <3>4 DEF Live
  <2>2. ASSUME NEW b \in Addr, b \notin Damaged', IsMapped(b)', loads'[ProgAt(b)'] = 1
        PROVE  target'[ProgAt(b)'] = Base(b)' + Target[ProgAt(b)']
    <3>1. IsMapped(b) /\ Base(b)' = Base(b) /\ b \notin Damaged /\ ProgAt(b)' = ProgAt(b)
      BY <2>2, DropOutside
    <3> QED BY <1>0, <2>2, <3>1 DEF Inv, InvLoads
  <2> QED BY <1>0, <2>1, <2>2 DEF Inv, InvLoads, Addr
<1> QED BY <1>1, <1>2, <1>3, <1>4, <1>5 DEF Inv

\* Nothing that is mapped leads to a list that is generated anew.
LEMMA GenerateStep ==
  ASSUME Inv, NEW p \in Progs, Generate(p)
  PROVE  Inv'
<1>1. /\ ~Live(p)
      /\ target' = [target EXCEPT ![p] = Target[p]] /\ loads' = [loads EXCEPT ![p] = 0]
      /\ UNCHANGED <<table, slots, last, overwritten, shifted, dangling>>
  BY DEF Generate
<1>2. target \in [Progs -> Nat] /\ loads \in [Progs -> Nat] /\ Target[p] \in Nat
  BY Sizes DEF Inv, InvTypes
<1>3. InvTypes'
  <2>1. target' \in [Progs -> Nat] /\ loads' \in [Progs -> Nat]
    BY <1>1, <1>2
  <2> QED BY <1>1, <2>1 DEF Inv, InvTypes, Addr
<1>4. InvTable' /\ InvDamaged' /\ InvSound' /\ InvOnce'
  BY <1>1 DEF Inv, InvTable, Normal, Redundant, InvDamaged, InvSound, InvOnce, Damaged, IsMapped,
       ProgAt, Base, Addr, Slots, Entries
<1>5. InvLoads'
  <2>1. \A q \in Progs : (Live(q)' <=> Live(q))
    BY <1>1 DEF Live, IsMapped, ProgAt, Addr
  <2>2. \A q \in Progs : /\ q # p => loads'[q] = loads[q] /\ target'[q] = target[q]
                         /\ q = p => loads'[q] = 0 /\ target'[q] = Target[q]
    BY <1>1, <1>2
  <2>3. ASSUME NEW a \in Addr, a \notin Damaged, IsMapped(a), loads'[ProgAt(a)] = 1
        PROVE  target'[ProgAt(a)] = Base(a) + Target[ProgAt(a)]
    <3>1. ProgAt(a) \in Progs /\ ProgAt(a) # p
      BY <1>1, <2>3 DEF Live, Inv, InvSound, Damaged
    <3> QED BY <2>2, <2>3, <3>1 DEF Inv, InvLoads
  <2>4. \A a \in Addr \ Damaged : IsMapped(a) /\ loads'[ProgAt(a)] = 1 =>
          target'[ProgAt(a)] = Base(a) + Target[ProgAt(a)]
    BY <2>3
  <2>5. \A q \in Progs : /\ loads'[q] = 0 => ~Live(q)' /\ target'[q] = Target[q]
                         /\ loads'[q] = 1 => target'[q] \in Addr
    BY <1>1, <2>1, <2>2 DEF Inv, InvLoads
  <2>6. /\ Damaged' = Damaged /\ Addr' = Addr
        /\ \A a \in Addr : /\ IsMapped(a)' <=> IsMapped(a)
                           /\ ProgAt(a)' = ProgAt(a) /\ Base(a)' = Base(a)
    BY <1>1 DEF Damaged, Addr, IsMapped, ProgAt, Base
  <2> QED BY <2>4, <2>5, <2>6 DEF InvLoads
<1> QED BY <1>3, <1>4, <1>5 DEF Inv

\* Every step keeps the invariant.
LEMMA StepInv ==
  ASSUME Inv, [Next]_vars
  PROVE  Inv'
<1>1. CASE UNCHANGED vars
  BY <1>1
  DEF vars, Inv, InvTypes, InvTable, Normal, Redundant, InvDamaged, InvSound, InvOnce, InvLoads,
      Live, Damaged, IsMapped, ProgAt, Base, Addr, Slots, Entries
<1>2. ASSUME NEW p \in Progs, LoadProg(p, last) PROVE Inv'
  BY <1>2, LoadStep DEF Inv, InvTypes
<1>3. ASSUME NEW p \in Progs, NEW start \in Addr, LoadProg(p, start) PROVE Inv'
  BY <1>3, LoadStep, Sizes DEF Addr
<1>4. ASSUME NEW p \in Progs, Generate(p) PROVE Inv'
  BY <1>4, GenerateStep
<1>5. ASSUME NEW a \in Addr, DropProg(a) PROVE Inv'
  BY <1>5, DropStep
<1> QED BY <1>1, <1>2, <1>3, <1>4, <1>5 DEF Next

(***************************************************************************)
(* What the invariant implies.                                             *)
(***************************************************************************)

\* Where no drop has freed the slot, a fetch is inside the program.
LEMMA InvFetchDefined ==
  ASSUME Inv
  PROVE  FetchDefined
<1> SUFFICES ASSUME NEW pc \in 0..Size, pc \notin dangling PROVE Fetchable(pc)
  BY DEF FetchDefined
<1>1. pc <= Size
  BY Sizes
<1>2. ASSUME IsMapped(pc)
      PROVE  ProgAt(pc) # Free /\ OffsetAt(table, pc) < Length[ProgAt(pc)]
  <2>1. pc \in Addr
    BY <1>2, MappedIsSlot DEF Inv
  <2>2. ProgAt(pc) \in Progs /\ pc - Base(pc) < Length[ProgAt(pc)]
    BY <1>2, <2>1 DEF Inv, InvSound
  <2>3. OffsetAt(table, pc) = pc - Base(pc)
    BY Interval DEF Inv
  <2> QED BY <2>2, <2>3, Sizes
<1> QED BY <1>1, <1>2 DEF Fetchable

\* The boundary before an intact address is what load_prog added to the jump.
LEMMA InvJumpsStayInside ==
  ASSUME Inv
  PROVE  JumpsStayInside
<1> SUFFICES ASSUME NEW a \in Addr, a \notin Damaged, IsMapped(a), loads[ProgAt(a)] = 1
             PROVE  target[ProgAt(a)] = (a - OffsetAt(table, a)) + Target[ProgAt(a)]
  BY DEF JumpsStayInside
<1>1. a \in 0..Size /\ a \in Nat
  BY Sizes DEF Addr
<1>2. OffsetAt(table, a) = a - Base(a) /\ Base(a) \in 0..Size
  BY <1>1, Interval DEF Inv
<1>3. target[ProgAt(a)] = Base(a) + Target[ProgAt(a)]
  BY DEF Inv, InvLoads
<1> QED BY <1>1, <1>2, <1>3

\* The invariant contains the types.
LEMMA InvTypeOK ==
  ASSUME Inv
  PROVE  TypeOK
<1>1. DOMAIN table \subseteq 0..Size /\ \A b \in DOMAIN table : table[b] \in Entries
  BY DEF Inv, InvTable, Normal, Proper
<1>2. \A b \in DOMAIN table : table[b].index \in {Unmapped} \cup 0..(Len(slots) - 1)
  BY <1>1 DEF Entries, Slots
<1> QED BY <1>1, <1>2 DEF TypeOK, Inv, InvTypes, InvLoads

\* A load that covers whole programs leaves no rest, and runs on from nothing.
LEMMA LoadCare ==
  ASSUME Inv, Damaged = {}, NEW p \in Progs, NEW start \in 0..Size, LoadProg(p, start),
         Covers(start, start + Length[p])
  PROVE  Damaged' = {}
<1> PICK end : end = start + Length[p]
  OBVIOUS
<1>0. /\ end \in 1..Size /\ start \in Nat /\ start < end
      /\ \A a \in Addr : a \in Nat /\ a \in 0..Size
  BY Sizes, LoadTable DEF Addr
<1> SUFFICES ASSUME NEW a \in Addr, a \in Damaged' PROVE FALSE
  BY LoadTypes DEF InvTypes, Damaged, Addr
<1>1. ~RunsOn(start)
  BY LoadBases DEF Damaged
<1>2. ~(start <= a /\ a < end)
  BY <1>1, LoadInside
<1>3. end <= a /\ IsMapped(a) /\ Base(a) < end
  BY <1>0, <1>2, LoadOutside, Interval DEF Inv
<1>4. end - 1 \in Addr /\ end - 1 \in 0..Size /\ Base(a) <= end - 1 /\ end - 1 <= a
  BY <1>0, <1>3, Interval, Sizes DEF Addr, Inv
<1>5. IndexAt(table, end - 1) = IndexAt(table, a)
  BY <1>0, <1>4, Interval DEF Inv
<1> PICK k : k = IndexAt(table, a)
  OBVIOUS
<1>6. k \in 0..(Len(slots) - 1)
  BY <1>0, <1>3, MappedIsSlot DEF Inv, Slots
<1> DEFINE range == {b \in Addr : IndexAt(table, b) = k}
<1>7. range \cap Stretch(start, end) \in {{}, range}
  BY <1>6 DEF Covers
<1>8. a \in range /\ a \notin Stretch(start, end)
  BY <1>2, LoadHistory
<1>9. end - 1 \in range /\ end - 1 \in Stretch(start, end)
  BY <1>0, <1>4, <1>5 DEF Stretch
<1> QED BY <1>7, <1>8, <1>9

\* A drop by the first address unmaps all that is in the slot.
LEMMA DropCare ==
  ASSUME Inv, Damaged = {}, NEW a \in Addr, DropProg(a), OffsetAt(table, a) = 0
  PROVE  Damaged' = {}
<1> SUFFICES ASSUME NEW b \in Addr, b \in Damaged' PROVE FALSE
  BY DropTable DEF InvTypes, Damaged, Addr
<1>0. a \in 0..Size /\ b \in 0..Size /\ a \in Nat /\ b \in Nat
  BY Sizes DEF Addr
<1>1. ~(a <= b /\ b < EndOfRange(table, a)) /\ IndexAt(table, b) = IndexAt(table, a)
  BY DropTable DEF Damaged
<1>2. IsMapped(a)
  BY DEF DropProg
<1>3. Base(b) = Base(a)
  BY <1>1, <1>2 DEF Inv, InvOnce
<1>4. Base(a) = a /\ Base(b) <= b /\ Base(b) \in 0..Size /\ EndOfRange(table, a) \in 1..Size
  BY <1>0, <1>2, Interval, DropEnd DEF Inv
<1>5. EndOfRange(table, a) <= b
  BY <1>0, <1>1, <1>3, <1>4
<1>6. EndOfRange(table, a) <= Base(b) /\ a < EndOfRange(table, a)
  BY <1>0, <1>2, <1>5, DropEnd DEF Inv
<1> QED BY <1>0, <1>3, <1>4, <1>6

(***************************************************************************)
(* The theorems.                                                           *)
(***************************************************************************)

\* Loads of any list at any address, drops by any address and lists generated
\* anew keep the invariant.
THEOREM Invariance == Spec => []Inv
<1>1. Init => Inv
  BY InitInv
<1>2. Inv /\ [Next]_vars => Inv'
  BY StepInv
<1> QED BY <1>1, <1>2, PTL DEF Spec

\* The address mapper and the list of slots stay well formed, and a list that
\* was loaded once has its jump inside the cache.
THEOREM TypeCorrect == Spec => []TypeOK
<1>1. Inv => TypeOK
  BY InvTypeOK
<1> QED BY <1>1, Invariance, PTL

\* Except where a drop has freed the slot of an address and left it mapped,
\* fetch answers for every pc up to the size, whatever was loaded and dropped
\* before (instruction_cache.py:83).
THEOREM FetchAlwaysDefined == Spec => []FetchDefined
<1>1. Inv => FetchDefined
  BY InvFetchDefined
<1> QED BY <1>1, Invariance, PTL

\* Where nothing is damaged, the jumps load_prog moved lead to their own copy
\* (instruction_cache.py:44), unless their list was loaded again.
THEOREM JumpsAlwaysInside == Spec => []JumpsStayInside
<1>1. Inv => JumpsStayInside
  BY InvJumpsStayInside
<1> QED BY <1>1, Invariance, PTL

\* Loads that cover programs entirely or not at all, and drops by the address a
\* program was loaded at, damage nothing.
THEOREM CareSuffices == Spec => CareIsEnough
<1>1. Inv /\ [Next]_vars =>
        [/\ Damaged = {}
         /\ \/ \E p \in Progs, start \in Addr :
                 LoadProg(p, start) /\ Covers(start, start + Length[p])
            \/ \E a \in Addr : DropProg(a) /\ OffsetAt(table, a) = 0
         => Damaged' = {}]_vars
  <2> SUFFICES ASSUME Inv, Damaged = {},
                      \/ \E p \in Progs, start \in Addr :
                           LoadProg(p, start) /\ Covers(start, start + Length[p])
                      \/ \E a \in Addr : DropProg(a) /\ OffsetAt(table, a) = 0
               PROVE  Damaged' = {}
    OBVIOUS
  <2>1. ASSUME NEW p \in Progs, NEW start \in Addr,
               LoadProg(p, start), Covers(start, start + Length[p])
        PROVE  Damaged' = {}
    <3>1. start \in 0..Size
      BY Sizes DEF Addr
    <3> QED BY <2>1, <3>1, LoadCare
  <2>2. ASSUME NEW a \in Addr, DropProg(a), OffsetAt(table, a) = 0 PROVE Damaged' = {}
    BY <2>2, DropCare
  <2> QED BY <2>1, <2>2
<1> QED BY <1>1, Invariance, PTL DEF Spec, CareIsEnough

(***************************************************************************)
(* The refinement.                                                         *)
(***************************************************************************)

\* The address-by-address memory of programs, as the refinement reads it.
content == [a \in Addr |-> IF a \in Damaged THEN <<"damaged">> ELSE Fetched(a)]

\* What the abstract memory says of an address, in terms of the cache.
LEMMA Contents ==
  Inv => \A a \in Addr :
           /\ content[a] = PMem!Nothing <=> ~IsMapped(a)
           /\ content[a] = PMem!Damaged <=> a \in Damaged
           /\ PMem!Intact(a) <=> IsMapped(a) /\ a \notin Damaged
           /\ PMem!Intact(a) => content[a] = <<ProgAt(a), a - Base(a)>>
<1> SUFFICES ASSUME Inv, NEW a \in Addr
             PROVE  /\ content[a] = PMem!Nothing <=> ~IsMapped(a)
                    /\ content[a] = PMem!Damaged <=> a \in Damaged
                    /\ PMem!Intact(a) <=> IsMapped(a) /\ a \notin Damaged
                    /\ PMem!Intact(a) => content[a] = <<ProgAt(a), a - Base(a)>>
  OBVIOUS
<1>1. a \in 0..Size
  BY Sizes DEF Addr
<1>2. OffsetAt(table, a) = a - Base(a)
  BY <1>1, Interval DEF Inv
<1>3. a \in Damaged => IsMapped(a)
  BY DEF Inv, InvDamaged
<1>4. content[a] = IF a \in Damaged THEN PMem!Damaged
                   ELSE IF IsMapped(a) THEN <<ProgAt(a), a - Base(a)>> ELSE PMem!Nothing
  BY <1>2 DEF content, Fetched, PMem!Damaged, PMem!Nothing
<1>5. /\ PMem!Damaged # PMem!Nothing
      /\ \A x, y : <<x, y>> # PMem!Damaged /\ <<x, y>> # PMem!Nothing
  BY DEF PMem!Damaged, PMem!Nothing
<1>6. PMem!Intact(a) <=> content[a] \notin {PMem!Nothing, PMem!Damaged}
  BY DEF PMem!Intact, content
<1> QED BY <1>3, <1>4, <1>5, <1>6

\* ... and after a step.
LEMMA ContentsNext ==
  Inv' => \A a \in Addr :
           /\ content'[a] = PMem!Nothing <=> ~IsMapped(a)'
           /\ content'[a] = PMem!Damaged <=> a \in Damaged'
           /\ IsMapped(a)' /\ a \notin Damaged' => content'[a] = <<ProgAt(a)', a - Base(a)'>>
<1>1. Inv => \A a \in Addr :
           /\ content[a] = PMem!Nothing <=> ~IsMapped(a)
           /\ content[a] = PMem!Damaged <=> a \in Damaged
           /\ IsMapped(a) /\ a \notin Damaged => content[a] = <<ProgAt(a), a - Base(a)>>
  BY Contents
<1>2. Inv' => (\A a \in Addr :
           /\ content[a] = PMem!Nothing <=> ~IsMapped(a)
           /\ content[a] = PMem!Damaged <=> a \in Damaged
           /\ IsMapped(a) /\ a \notin Damaged => content[a] = <<ProgAt(a), a - Base(a)>>)'
  BY <1>1, PTL
<1> QED BY <1>2 DEF Addr, PMem!Nothing, PMem!Damaged

\* The same copy of a program is the same interval.
LEMMA SameCopyMeans ==
  ASSUME Inv, NEW a \in Addr, NEW b \in Addr
  PROVE  PMem!SameCopy(a, b) <=> /\ IsMapped(a) /\ a \notin Damaged /\ b \notin Damaged
                                 /\ Base(a) = Base(b)
<1>0. a \in 0..Size /\ b \in 0..Size /\ Base(a) \in 0..Size /\ Base(b) \in 0..Size
  BY Sizes, Interval DEF Addr, Inv
<1>1. PMem!SameCopy(a, b) <=> /\ PMem!Intact(a) /\ PMem!Intact(b)
                              /\ content[a][1] = content[b][1]
                              /\ a - content[a][2] = b - content[b][2]
  BY DEF PMem!SameCopy, content
<1>2. /\ PMem!Intact(a) => content[a][1] = ProgAt(a) /\ a - content[a][2] = Base(a)
      /\ PMem!Intact(b) => content[b][1] = ProgAt(b) /\ b - content[b][2] = Base(b)
  BY <1>0, Contents
<1>3. Base(a) = Base(b) => /\ IndexAt(table, a) = IndexAt(table, b)
                           /\ IsMapped(a) <=> IsMapped(b)
  BY <1>0, Interval DEF Inv, IsMapped
<1>4. Base(a) = Base(b) => ProgAt(a) = ProgAt(b)
  BY <1>3 DEF ProgAt
<1>5. /\ PMem!Intact(a) <=> IsMapped(a) /\ a \notin Damaged
      /\ PMem!Intact(b) <=> IsMapped(b) /\ b \notin Damaged
  BY Contents
<1> QED BY <1>1, <1>2, <1>3, <1>4, <1>5

\* load_prog is the abstract load.
LEMMA LoadRefines ==
  ASSUME Inv, NEW p \in Progs, NEW start \in 0..Size, LoadProg(p, start)
  PROVE  start \in PMem!Addr /\ PMem!Load(p, start)
<1> PICK end : end = start + Length[p]
  OBVIOUS
<1> DEFINE In(a) == start <= a /\ a < end
<1>0. /\ start \in Addr /\ start \in Nat /\ end \in 1..Size /\ start < end /\ Size \in Nat
      /\ \A a \in Addr : a \in Nat /\ a \in 0..Size
  BY Sizes, LoadTable DEF Addr
<1>1. Inv'
  BY LoadStep
<1>2. ASSUME NEW a \in Addr, In(a)
      PROVE  content'[a] = IF RunsOn(start) THEN PMem!Damaged ELSE <<p, a - start>>
  <2>1. CASE RunsOn(start)
    BY <1>1, <1>2, <2>1, LoadInside, ContentsNext
  <2>2. CASE ~RunsOn(start)
    BY <1>1, <1>2, <2>2, LoadInside, ContentsNext
  <2> QED BY <2>1, <2>2
<1>3. ASSUME NEW a \in Addr, ~In(a)
      PROVE  content'[a] = IF end <= a /\ PMem!Intact(a) /\ Base(a) < end THEN PMem!Damaged
                           ELSE content[a]
  <2>0. Base(a) \in 0..Size
    BY <1>0, Interval DEF Inv
  <2>1. /\ IsMapped(a)' <=> IsMapped(a)
        /\ a \notin Damaged' <=> a \notin Damaged /\ (end <= a /\ IsMapped(a) => end <= Base(a))
    BY <1>3, LoadOutside DEF IsMapped
  <2>2. CASE a \in Damaged
    BY <1>1, <2>1, <2>2, Contents, ContentsNext
  <2>3. CASE ~IsMapped(a)
    BY <1>1, <2>1, <2>3, Contents, ContentsNext
  <2>4. CASE IsMapped(a) /\ a \notin Damaged /\ end <= a /\ Base(a) < end
    BY <1>0, <1>1, <2>0, <2>1, <2>4, Contents, ContentsNext
  <2>5. CASE IsMapped(a) /\ a \notin Damaged /\ ~(end <= a /\ Base(a) < end)
    <3>1. a \notin Damaged'
      BY <1>0, <2>0, <2>1, <2>5
    <3>2. Base(a)' = Base(a) /\ ProgAt(a)' = ProgAt(a)
      BY <1>3, <2>5, <3>1, LoadOutside DEF Damaged
    <3>3. content'[a] = <<ProgAt(a), a - Base(a)>>
      BY <1>1, <2>1, <2>5, <3>1, <3>2, ContentsNext
    <3> QED BY <2>5, <3>3, Contents
  <2> QED BY <2>2, <2>3, <2>4, <2>5
<1>4. ASSUME NEW a \in Addr, ~In(a)
      PROVE  end <= a /\ PMem!Intact(a) /\ Base(a) < end
               <=> end <= a /\ \E b \in Addr : In(b) /\ PMem!SameCopy(a, b)
  <2>1. ASSUME end <= a, PMem!Intact(a), Base(a) < end
        PROVE  \E b \in Addr : In(b) /\ PMem!SameCopy(a, b)
    <3>1. IsMapped(a) /\ a \notin Damaged
      BY <2>1, Contents
    <3>2. Base(a) \in 0..Size /\ Base(a) <= end - 1 /\ end - 1 <= a /\ end - 1 \in Addr
      BY <1>0, <2>1, Interval DEF Inv, Addr
    <3>3. Base(end - 1) = Base(a)
      BY <1>0, <3>2, Interval DEF Inv
    <3>4. end - 1 \notin Damaged
      BY <3>1, <3>2 DEF Inv, InvDamaged
    <3>5. PMem!SameCopy(a, end - 1)
      BY <3>1, <3>2, <3>3, <3>4, SameCopyMeans
    <3>6. In(end - 1)
      BY <1>0
    <3> QED BY <3>2, <3>5, <3>6
  <2>2. ASSUME NEW b \in Addr, In(b), PMem!SameCopy(a, b)
        PROVE  PMem!Intact(a) /\ Base(a) < end
    <3>1. IsMapped(a) /\ a \notin Damaged /\ Base(a) = Base(b)
      BY <2>2, SameCopyMeans
    <3>2. Base(b) <= b /\ Base(b) \in 0..Size
      BY <1>0, Interval DEF Inv
    <3> QED BY <1>0, <2>2, <3>1, <3>2, Contents
  <2> QED BY <2>1, <2>2
<1> DEFINE own == IF RunsOn(start) THEN [a \in Addr |-> PMem!Damaged]
                  ELSE [a \in Addr |-> <<p, a - start>>]
<1>5. \A a \in Addr : content'[a] = IF In(a) THEN own[a]
                        ELSE IF end <= a /\ \E b \in Addr : In(b) /\ PMem!SameCopy(a, b)
                               THEN PMem!Damaged
                        ELSE content[a]
  <2> TAKE a \in Addr
  <2>1. CASE In(a)
    BY <1>2, <2>1
  <2>2. CASE ~In(a)
    <3> HIDE DEF In, own
    <3> QED BY <2>2, <1>3, <1>4
  <2> QED BY <2>1, <2>2
<1>6. own[start] = PMem!Damaged => start > 0 /\ content[start - 1] = PMem!Damaged
  <2>1. \A x, y : <<x, y>> # PMem!Damaged
    BY DEF PMem!Damaged
  <2>2. own[start] = PMem!Damaged => RunsOn(start)
    BY <1>0, <2>1
  <2>3. ASSUME RunsOn(start) PROVE start > 0 /\ content[start - 1] = PMem!Damaged
    <3>1. start > 0 /\ start - 1 \in dangling
      BY <2>3, LoadBases
    <3>2. start - 1 \in Addr
      BY <1>0, <3>1 DEF Addr
    <3> QED BY <3>1, <3>2, Contents DEF Damaged
  <2> QED BY <2>2, <2>3
<1>7. overwritten' = \E a \in Addr : In(a) /\ content[a] # PMem!Nothing
  <2>1. overwritten' = ContainsMapping(table, start, end)
    BY DEF LoadProg
  <2>2. ContainsMapping(table, start, end)
          <=> \E a \in start..(end - 1) : IndexAt(table, a) # Unmapped
    <3>1. start \in 0..Size /\ end \in 0..Size
      BY <1>0
    <3> QED BY <1>0, <3>1, ContainsMeans DEF Inv, InvTable, Normal
  <2>3. \A a : a \in start..(end - 1) <=> a \in Addr /\ In(a)
    BY <1>0 DEF Addr
  <2>4. \A a \in Addr : content[a] # PMem!Nothing <=> IndexAt(table, a) # Unmapped
    BY Contents DEF IsMapped
  <2>5. ContainsMapping(table, start, end)
          <=> \E a \in Addr : In(a) /\ content[a] # PMem!Nothing
    <3> HIDE DEF In
    <3> QED BY <2>2, <2>3, <2>4
  <2>6. ContainsMapping(table, start, end) \in BOOLEAN
    BY DEF ContainsMapping
  <2> QED BY <2>1, <2>5, <2>6
<1>8. content' = [a \in Addr |-> IF In(a) THEN own[a]
                   ELSE IF end <= a /\ \E b \in Addr : In(b) /\ PMem!SameCopy(a, b)
                          THEN PMem!Damaged
                   ELSE content[a]]
  <2>1. content' = [a \in Addr |-> content'[a]]
    BY DEF content, Addr
  <2> HIDE DEF In, own
  <2> QED BY <1>5, <2>1
<1>9. own \in {[a \in Addr |-> <<p, a - start>>], [a \in Addr |-> PMem!Damaged]}
  OBVIOUS
<1>10. start + Length[p] <= Size /\ PMem!Addr = Addr
  BY <1>0 DEF PMem!Addr, Addr
<1> HIDE DEF own
<1> QED BY <1>0, <1>6, <1>7, <1>8, <1>9, <1>10 DEF PMem!Load, content

\* What becomes of each address at a drop: those from the given one to the next
\* boundary go, the others of the slot are lost, and the rest stays.
LEMMA DropContent ==
  ASSUME Inv, NEW a \in Addr, DropProg(a), NEW b \in Addr,
         NEW end, end = EndOfRange(table, a)
  PROVE  /\ a <= b /\ b < end => content'[b] = PMem!Nothing
         /\ ~(a <= b /\ b < end) /\ IsMapped(b) /\ IndexAt(table, b) = IndexAt(table, a) =>
              content'[b] = PMem!Damaged
         /\ ~(a <= b /\ b < end) /\ b \in Damaged => content'[b] = PMem!Damaged
         /\ ~(a <= b /\ b < end) /\ IndexAt(table, b) # IndexAt(table, a) =>
              content'[b] = content[b]
<1>0. Inv' /\ b \in 0..Size /\ IsMapped(a)
  <2>1. b \in 0..Size
    BY Sizes DEF Addr
  <2>2. Inv'
    BY DropStep
  <2> QED BY <2>1, <2>2 DEF DropProg
<1>1. /\ IndexAt(table', b) = IF a <= b /\ b < end THEN Unmapped ELSE IndexAt(table, b)
      /\ b \in shifted' <=> b \in shifted /\ ~(a <= b /\ b < end)
      /\ b \in dangling' <=> /\ ~(a <= b /\ b < end)
                             /\ b \in dangling \/ IndexAt(table, b) = IndexAt(table, a)
  BY <1>0, DropTable
<1>2. ASSUME a <= b, b < end PROVE content'[b] = PMem!Nothing
  BY <1>0, <1>1, <1>2, ContentsNext DEF IsMapped
<1>3. ASSUME ~(a <= b /\ b < end), b \in Damaged \/ IndexAt(table, b) = IndexAt(table, a)
      PROVE  content'[b] = PMem!Damaged
  <2>1. b \in Damaged'
    BY <1>1, <1>3 DEF Damaged
  <2> QED BY <1>0, <2>1, ContentsNext
<1>4. ASSUME ~(a <= b /\ b < end), IndexAt(table, b) # IndexAt(table, a)
      PROVE  content'[b] = content[b]
  <2>1. CASE b \in Damaged
    BY <1>3, <1>4, <2>1, Contents
  <2>2. CASE ~IsMapped(b)
    <3>1. ~IsMapped(b)'
      BY <1>1, <2>2 DEF IsMapped
    <3> QED BY <1>0, <2>2, <3>1, Contents, ContentsNext
  <2>3. CASE IsMapped(b) /\ b \notin Damaged
    <3>1. b \notin Damaged' /\ IsMapped(b)'
      BY <1>1, <1>4, <2>3 DEF Damaged, IsMapped
    <3>2. ProgAt(b)' = ProgAt(b) /\ Base(b)' = Base(b)
      BY <3>1, DropOutside
    <3>3. content'[b] = <<ProgAt(b), b - Base(b)>>
      BY <1>0, <3>1, <3>2, ContentsNext
    <3> QED BY <2>3, <3>3, Contents
  <2> QED BY <2>1, <2>2, <2>3
<1> QED BY <1>2, <1>3, <1>4

\* drop_prog_starting_at by an intact address is the abstract drop.
LEMMA DropRefines ==
  ASSUME Inv, NEW a \in Addr, DropProg(a), a \notin Damaged
  PROVE  a \in PMem!Addr /\ PMem!Drop(a)
<1> PICK end : end = EndOfRange(table, a)
  OBVIOUS
<1>0. /\ IsMapped(a) /\ overwritten' = overwritten /\ InvTable /\ Size \in Nat
      /\ \A b \in Addr : b \in Nat /\ b \in 0..Size
  BY Sizes DEF DropProg, Addr, Inv
<1>1. PMem!Intact(a)
  BY <1>0, Contents
<1>2. ASSUME NEW b \in Addr
      PROVE  IF PMem!SameCopy(a, b)
               THEN content'[b] = IF b < a THEN PMem!Damaged ELSE PMem!Nothing
             ELSE IF content[b] = PMem!Damaged
               THEN content'[b] \in {PMem!Nothing, PMem!Damaged}
             ELSE content'[b] = content[b]
  <2>0. /\ end \in 1..Size /\ (a <= b /\ b < end => Base(b) = Base(a))
        /\ (end <= b => end <= Base(b)) /\ a < end /\ a \in Nat /\ b \in Nat
        /\ Base(a) \in 0..Size /\ Base(a) <= a
    BY <1>0, DropEnd, Interval
  <2>1. CASE PMem!SameCopy(a, b)
    <3>1. b \notin Damaged /\ Base(a) = Base(b)
      BY <2>1, SameCopyMeans
    <3>2. IndexAt(table, b) = IndexAt(table, a) /\ IsMapped(b)
      BY <1>0, <3>1, Interval DEF IsMapped
    <3>3. CASE b < a
      BY <2>0, <2>1, <3>2, <3>3, DropContent
    <3>4. CASE ~(b < a)
      <4>1. a <= b /\ b < end
        BY <2>0, <3>1, <3>4
      <4> QED BY <2>1, <3>4, <4>1, DropContent
    <3> QED BY <3>3, <3>4
  <2>2. CASE ~PMem!SameCopy(a, b) /\ b \in Damaged
    <3>1. content[b] = PMem!Damaged
      BY <2>2, Contents
    <3>2. content'[b] \in {PMem!Nothing, PMem!Damaged}
      BY <2>2, DropContent
    <3> QED BY <2>2, <3>1, <3>2
  <2>3. CASE ~PMem!SameCopy(a, b) /\ b \notin Damaged
    <3>1. Base(a) # Base(b)
      BY <1>0, <2>3, SameCopyMeans
    <3>2. IndexAt(table, b) # IndexAt(table, a)
      BY <1>0, <2>3, <3>1 DEF Inv, InvOnce
    <3>3. ~(a <= b /\ b < end)
      BY <2>0, <3>1
    <3>4. content[b] # PMem!Damaged /\ content'[b] = content[b]
      BY <2>3, <3>2, <3>3, Contents, DropContent
    <3> QED BY <2>3, <3>4
  <2> QED BY <2>1, <2>2, <2>3
<1>3. content' = [b \in PMem!Addr |-> content'[b]] /\ PMem!Addr = Addr
  BY DEF content, PMem!Addr, Addr
<1> QED BY <1>0, <1>1, <1>2, <1>3 DEF PMem!Drop, PMem!Lost, content

\* ... and by a damaged one, the other: at most one intact interval is in the
\* slot of a damaged address.
LEMMA DropDamagedRefines ==
  ASSUME Inv, NEW a \in Addr, DropProg(a), a \in Damaged
  PROVE  a \in PMem!Addr /\ PMem!DropDamaged(a)
<1> PICK end : end = EndOfRange(table, a)
  OBVIOUS
<1>0. /\ IsMapped(a) /\ overwritten' = overwritten /\ InvTable /\ Size \in Nat
      /\ a < end /\ end \in 1..Size
      /\ \A b \in Addr : b \in Nat /\ b \in 0..Size
  <2>1. a < end /\ end \in 1..Size
    BY DropTable
  <2> QED BY <2>1, Sizes DEF DropProg, Addr, Inv
<1>1. content[a] = PMem!Damaged
  BY Contents
<1>2. content'[a] = PMem!Nothing
  BY <1>0, DropContent
<1>3. PICK c \in Addr :
        /\ c \notin Damaged => IndexAt(table, c) = IndexAt(table, a)
        /\ (\E d \in Addr \ Damaged : IndexAt(table, d) = IndexAt(table, a)) => c \notin Damaged
  <2>1. CASE \E d \in Addr \ Damaged : IndexAt(table, d) = IndexAt(table, a)
    BY <2>1
  <2>2. CASE ~ \E d \in Addr \ Damaged : IndexAt(table, d) = IndexAt(table, a)
    BY <2>2
  <2> QED BY <2>1, <2>2
<1>4. ASSUME NEW b \in Addr
      PROVE  IF content[b] = PMem!Damaged \/ PMem!SameCopy(b, c)
               THEN content'[b] \in {PMem!Nothing, PMem!Damaged}
             ELSE content'[b] = content[b]
  <2>1. CASE b \in Damaged
    <3>1. content[b] = PMem!Damaged /\ content'[b] \in {PMem!Nothing, PMem!Damaged}
      BY <2>1, Contents, DropContent
    <3> QED BY <3>1
  <2>2. CASE b \notin Damaged /\ IndexAt(table, b) = IndexAt(table, a)
    <3>1. IsMapped(b) /\ c \notin Damaged /\ IndexAt(table, c) = IndexAt(table, b)
      BY <1>0, <1>3, <2>2 DEF IsMapped
    <3>2. Base(b) = Base(c)
      BY <2>2, <3>1 DEF Inv, InvOnce
    <3>3. PMem!SameCopy(b, c)
      BY <2>2, <3>1, <3>2, SameCopyMeans
    <3>4. content'[b] \in {PMem!Nothing, PMem!Damaged}
      BY <2>2, <3>1, DropContent
    <3> QED BY <3>3, <3>4
  <2>3. CASE b \notin Damaged /\ IndexAt(table, b) # IndexAt(table, a)
    <3>1. content[b] # PMem!Damaged
      BY <2>3, Contents
    <3>2. ~PMem!SameCopy(b, c)
      <4> SUFFICES ASSUME PMem!SameCopy(b, c) PROVE FALSE
        OBVIOUS
      <4>1. IsMapped(b) /\ c \notin Damaged /\ Base(b) = Base(c)
        BY SameCopyMeans
      <4>2. IndexAt(table, b) = IndexAt(table, c)
        BY <1>0, <4>1, Interval
      <4> QED BY <1>3, <2>3, <4>1, <4>2
    <3>3. ~(a <= b /\ b < end)
      BY <1>0, <2>3, DropEnd, Interval
    <3> QED BY <2>3, <3>1, <3>2, <3>3, DropContent
  <2> QED BY <2>1, <2>2, <2>3
<1>5. content' = [b \in PMem!Addr |-> content'[b]] /\ PMem!Addr = Addr
  BY DEF content, PMem!Addr, Addr
<1> QED BY <1>0, <1>1, <1>2, <1>4, <1>5 DEF PMem!DropDamaged, PMem!Lost, content

\* Slots and interval lists implement the memory of programs: a fetch reads
\* what the last load that covered the address put there, and what loads into
\* programs and drops by inner addresses damage is what that memory says.
THEOREM Refinement == Spec => ImplementsProgramMemory
<1>1. Init => PMem!Init
  <2> SUFFICES ASSUME Init PROVE PMem!Init
    OBVIOUS
  <2>1. Inv /\ Slots = {}
    <3>1. slots = <<>>
      BY DEF Init
    <3>2. Slots = {}
      BY <3>1 DEF Slots
    <3> QED BY <3>2, InitInv
  <2>2. ASSUME NEW a \in Addr PROVE content[a] = PMem!Nothing
    <3>1. a \in 0..Size
      BY Sizes DEF Addr
    <3>2. ~IsMapped(a)
      BY <2>1, <3>1, MappedIsSlot DEF Inv
    <3> QED BY <2>1, <3>2, Contents
  <2>3. content = [a \in PMem!Addr |-> PMem!Nothing]
    <3>1. content = [a \in Addr |-> content[a]] /\ PMem!Addr = Addr
      BY DEF content, PMem!Addr, Addr
    <3> QED BY <2>2, <3>1
  <2>4. overwritten = FALSE
    BY DEF Init
  <2> QED BY <2>3, <2>4 DEF PMem!Init, content
<1>2. Inv /\ [Next]_vars => [PMem!Next]_(PMem!vars)
  <2> SUFFICES ASSUME Inv, [Next]_vars PROVE [PMem!Next]_(PMem!vars)
    OBVIOUS
  <2>1. ASSUME NEW p \in Progs, NEW start \in 0..Size, LoadProg(p, start)
        PROVE  PMem!Next
    BY <2>1, LoadRefines DEF PMem!Next
  <2>2. ASSUME NEW p \in Progs, LoadProg(p, last) PROVE PMem!Next
    BY <2>1, <2>2 DEF Inv, InvTypes
  <2>3. ASSUME NEW p \in Progs, NEW start \in Addr, LoadProg(p, start) PROVE PMem!Next
    <3>1. start \in 0..Size
      BY Sizes DEF Addr
    <3> QED BY <2>1, <2>3, <3>1
  <2>4. ASSUME NEW p \in Progs, Generate(p) PROVE UNCHANGED PMem!vars
    BY <2>4 DEF Generate, PMem!vars, Fetched, IsMapped, ProgAt, Damaged, Addr
  <2>5. ASSUME NEW a \in Addr, DropProg(a) PROVE PMem!Next
    <3>1. CASE a \notin Damaged
      BY <2>5, <3>1, DropRefines DEF PMem!Next
    <3>2. CASE a \in Damaged
      BY <2>5, <3>2, DropDamagedRefines DEF PMem!Next
    <3> QED BY <3>1, <3>2
  <2>6. CASE UNCHANGED vars
    BY <2>6 DEF vars, PMem!vars, Fetched, IsMapped, ProgAt, Damaged, Addr
  <2> QED BY <2>2, <2>3, <2>4, <2>5, <2>6 DEF Next
<1> QED BY <1>1, <1>2, Invariance, PTL DEF Spec, ImplementsProgramMemory, PMem!Spec
=============================================================================
