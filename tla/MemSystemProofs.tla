--------------------------- MODULE MemSystemProofs ---------------------------
(* For every number of banks and every object store: types are kept; and   *)
(* if callers keep at most one Box waiting on a bank, which is what the    *)
(* pipeline does, Boxes turn READY on their own completion and deliver     *)
(* what their address holds; what a set leaves there differs from the copy *)
(* in its Box only if the caller worked on the item in between.            *)
EXTENDS MemSystem, IntervalTableProofs, FiniteSetTheorems

Last == NumBanks * BankSize
EntryType == [index : ObjectIds \cup {Placeholder, Unmapped}, offset : Nat]

(***************************************************************************)
(* Addresses.                                                              *)
(***************************************************************************)

\* A bank's addresses, and the end of its last one, lie in the device.
LEMMA CanonicalInside ==
  ASSUME NEW k \in Bank, NEW a \in 0..BankSize
  PROVE  /\ Last \in Nat
         /\ Canonical(k, a) \in 0..Last
         /\ a < BankSize => Canonical(k, a) \in 0..(Last - 1)
<1>1. /\ NumBanks \in Nat /\ BankSize \in Nat /\ k \in Nat /\ k < NumBanks
      /\ a \in Nat /\ a <= BankSize
  BY GeometryAssumption DEF Bank
<1> DEFINE d == NumBanks - k - 1
<1>2. d \in Nat
  BY <1>1
<1>3. d * BankSize \in Nat /\ k * BankSize \in Nat
  <2> HIDE DEF d
  <2> QED BY <1>1, <1>2
<1>4. NumBanks * BankSize = k * BankSize + BankSize + d * BankSize
  BY <1>1
<1> HIDE DEF d
<1> QED BY <1>1, <1>3, <1>4 DEF Canonical, Last

\* The device is a finite stretch of addresses even when it has no banks.
LEMMA LastNat == Last \in Nat
BY GeometryAssumption DEF Last

\* Addresses of different banks are different.
LEMMA CanonicalApart ==
  ASSUME NEW j \in Bank, NEW k \in Bank, j < k, NEW a \in LAddr, NEW b \in LAddr
  PROVE  Canonical(j, a) < Canonical(k, b)
<1>1. /\ BankSize \in Nat /\ j \in Nat /\ k \in Nat
      /\ a \in Nat /\ a < BankSize /\ b \in Nat
  BY GeometryAssumption DEF Bank, LAddr
<1> DEFINE d == k - j - 1
<1>2. d \in Nat
  BY <1>1
<1>3. d * BankSize \in Nat /\ j * BankSize \in Nat
  <2> HIDE DEF d
  <2> QED BY <1>1, <1>2
<1>4. k * BankSize = j * BankSize + BankSize + d * BankSize
  BY <1>1
<1> HIDE DEF d
<1> QED BY <1>1, <1>3, <1>4 DEF Canonical

(***************************************************************************)
(* Types.                                                                  *)
(***************************************************************************)

\* The inductive invariant of the types: the table is proper (so every address
\* has an entry).
IInv == /\ TypeOK
        /\ Proper(table, Last, EntryType)

\* What lookups in a proper table answer.
LEMMA LookupTypes ==
  ASSUME Proper(table, Last, EntryType), NEW k \in Bank, NEW a \in LAddr
  PROVE  /\ Object(k, a) \in ObjectIds \cup {Placeholder, Unmapped}
         /\ Position(k, a) \in Nat
<1> DEFINE c == Canonical(k, a)
<1>1. c \in 0..Last /\ Last \in Nat
  BY GeometryAssumption, CanonicalInside DEF LAddr
<1>2. /\ IsFloor(DOMAIN table, c, Floor(DOMAIN table, c))
      /\ Entry(table, c) \in EntryType
  <2> HIDE DEF c
  <2> QED BY <1>1, EntryOfFloor
<1>3. c - Floor(DOMAIN table, c) \in Nat
  <2>1. DOMAIN table \subseteq 0..Last
    BY DEF Proper
  <2> HIDE DEF c
  <2> QED BY <1>1, <1>2, <2>1 DEF IsFloor
<1>4. Entry(table, c).index \in ObjectIds \cup {Placeholder, Unmapped}
      /\ Entry(table, c).offset \in Nat
  BY <1>2 DEF EntryType
<1> HIDE DEF c
<1> QED BY <1>3, <1>4 DEF Object, Position, IndexAt, OffsetAt, c

\* An address inside an object names one of the chunks of the store.
LEMMA InObjectTypes ==
  ASSUME Proper(table, Last, EntryType), NEW k \in Bank, NEW a \in LAddr,
         InObject(k, a)
  PROVE  Object(k, a) \in ObjectIds /\ Position(k, a) \in 0..(ObjectLen - 1)
BY LookupTypes, ObjectAssumption DEF InObject

\* Remapping a range of a bank keeps the table proper.
LEMMA MappedProper ==
  ASSUME Proper(table, Last, EntryType), NEW k \in Bank, NEW a \in LAddr,
         NEW len \in 1..BankSize, a + len <= BankSize,
         NEW obj \in ObjectIds \cup {Placeholder, Unmapped}, NEW o \in Nat
  PROVE  Proper(Mapped(table, Canonical(k, a), Canonical(k, a) + len, obj, o),
                Last, EntryType)
<1>1. /\ Canonical(k, a) \in 0..Last /\ Last \in Nat
      /\ Canonical(k, a + len) \in 0..Last
  <2>1. a \in 0..BankSize /\ a + len \in 0..BankSize
    BY GeometryAssumption DEF LAddr
  <2> QED BY <2>1, CanonicalInside
<1>2. Canonical(k, a + len) = Canonical(k, a) + len
  <2>1. k \in Int /\ BankSize \in Int /\ k * BankSize \in Int /\ a \in Int /\ len \in Int
    BY GeometryAssumption DEF Bank, LAddr
  <2> QED BY <2>1 DEF Canonical
<1>3. [index |-> obj, offset |-> o] \in EntryType
  BY DEF EntryType
<1>4. Canonical(k, a) <= Canonical(k, a) + len
  BY <1>1
<1> QED BY <1>1, <1>2, <1>3, <1>4, MappedEntry

\* A proper table is of the type TypeOK asks for.
LEMMA ProperTyped ==
  ASSUME NEW t, Proper(t, Last, EntryType)
  PROVE  /\ DOMAIN t \subseteq 0..(NumBanks * BankSize)
         /\ \A b \in DOMAIN t : t[b].index \in ObjectIds \cup {Placeholder, Unmapped}
BY DEF Proper, EntryType, Last

\* The table of a new memory system.
LEMMA EmptyProper ==
  /\ Proper(EmptyTable, Last, EntryType)
  /\ \A x \in 0..Last : IndexAt(EmptyTable, x) = Unmapped
<1>1. Proper(EmptyTable, Last, EntryType)
  BY LastNat DEF Proper, EmptyTable, Blank, EntryType
<1>2. ASSUME NEW x \in 0..Last PROVE IndexAt(EmptyTable, x) = Unmapped
  <2>1. IsFloor(DOMAIN EmptyTable, x, 0)
    BY LastNat DEF IsFloor, EmptyTable
  <2>2. Entry(EmptyTable, x) = EmptyTable[0]
    BY <1>1, <2>1, LastNat, EntryByFloor
  <2> QED BY <2>2 DEF IndexAt, EmptyTable, Blank
<1> QED BY <1>1, <1>2

\* A read gives a chunk of the store, or nothing.
LEMMA ContentType ==
  ASSUME IInv, NEW k \in Bank, NEW a \in LAddr
  PROVE  Content(k, a) \in Values \cup {Empty}
BY InObjectTypes DEF Content, IInv, TypeOK

\* A write of a chunk keeps the store a store.
LEMMA StoredType ==
  ASSUME IInv, NEW k \in Bank, NEW a \in LAddr, NEW v \in Values
  PROVE  Stored(k, a, v) \in [ObjectIds -> [0..(ObjectLen - 1) -> Values]]
<1>1. CASE ~InObject(k, a)
  BY <1>1 DEF Stored, IInv, TypeOK
<1>2. CASE InObject(k, a)
  <2> DEFINE o == Object(k, a)
  <2> DEFINE p == Position(k, a)
  <2>1. o \in ObjectIds /\ p \in 0..(ObjectLen - 1)
    BY <1>2, InObjectTypes DEF IInv
  <2>2. store \in [ObjectIds -> [0..(ObjectLen - 1) -> Values]]
    BY DEF IInv, TypeOK
  <2>3. Stored(k, a, v) = [store EXCEPT ![o][p] = v]
    BY <1>2 DEF Stored
  <2> HIDE DEF o, p
  <2> QED BY <2>1, <2>2, <2>3
<1> QED BY <1>1, <1>2

\* What Submit leaves in flight.
LEMMA SubmitType ==
  ASSUME IInv, NEW k \in Bank, NEW a \in LAddr, NEW id \in BoxIds \cup {NoId},
         Submit(k, a, id)
  PROVE  inflight' \in [Bank -> Seq(Txn)]
<1>1. [addr |-> a, id |-> id] \in Txn
  BY DEF Txn
<1>2. inflight \in [Bank -> Seq(Txn)]
  BY DEF IInv, TypeOK
<1> QED BY <1>1, <1>2 DEF Submit

\* Init establishes the invariant.
LEMMA InitIInv == Init => IInv
<1> SUFFICES ASSUME Init PROVE IInv
  OBVIOUS
<1>1. Proper(table, Last, EntryType)
  BY EmptyProper DEF Init
<1>2. TypeOK
  <2>1. /\ DOMAIN table \subseteq 0..(NumBanks * BankSize)
        /\ \A b \in DOMAIN table : table[b].index \in ObjectIds \cup {Placeholder, Unmapped}
    BY <1>1, ProperTyped
  <2>2. /\ inflight \in [Bank -> Seq(Txn)] /\ log \in [Bank -> Seq(LAddr)]
        /\ box \in [BoxIds -> BoxType \cup {NoBox}] /\ event \in BOOLEAN
        /\ item \in [Items -> Values] /\ edited \subseteq BoxIds
    <3>1. <<>> \in Seq(Txn) /\ <<>> \in Seq(LAddr)
      OBVIOUS
    <3>2. inflight \in [Bank -> Seq(Txn)]
      BY <3>1 DEF Init
    <3>3. log \in [Bank -> Seq(LAddr)]
      BY <3>1 DEF Init
    <3> QED BY <3>2, <3>3 DEF Init
  <2> QED BY <2>1, <2>2 DEF Init, TypeOK
<1> QED BY <1>1, <1>2 DEF IInv, Init

\* get() and set() add a typed transaction and a typed Box.
LEMMA IssueStep ==
  ASSUME IInv, NEW i \in BoxIds, NEW k \in Bank, NEW a \in LAddr,
         \/ Get(i, k, a)
         \/ \E x \in Items : Set(i, k, a, x)
  PROVE  IInv'
<1>1. UNCHANGED <<table, store, log, item, event, edited>> /\ foreign' \in BOOLEAN
  BY DEF Get, Set, IInv, TypeOK
<1>2. inflight' \in [Bank -> Seq(Txn)]
  BY SubmitType DEF Get, Set, IInv, TypeOK
<1>3. \E b \in BoxType : /\ box' = [box EXCEPT ![i] = b]
                         /\ b.kind = "set" => b.src \in Items
  <2>1. CASE Get(i, k, a)
    <3> DEFINE b == [kind |-> "get", bank |-> k, addr |-> a, ready |-> FALSE,
                     data |-> Content(k, a), src |-> NoItem, served |-> FALSE]
    <3>1. b \in BoxType
      BY ContentType DEF BoxType
    <3>2. box' = [box EXCEPT ![i] = b] /\ b.kind # "set"
      BY <2>1 DEF Get
    <3> QED BY <3>1, <3>2
  <2>2. ASSUME NEW x \in Items, Set(i, k, a, x)
        PROVE  \E b \in BoxType : /\ box' = [box EXCEPT ![i] = b]
                                  /\ b.kind = "set" => b.src \in Items
    <3> DEFINE b == [kind |-> "set", bank |-> k, addr |-> a, ready |-> FALSE,
                     data |-> item[x], src |-> x, served |-> FALSE]
    <3>1. b \in BoxType
      BY DEF BoxType, IInv, TypeOK
    <3>2. box' = [box EXCEPT ![i] = b] /\ b.src = x
      BY <2>2 DEF Set
    <3> QED BY <3>1, <3>2
  <2> QED BY <2>1, <2>2
<1>4. PICK b \in BoxType : /\ box' = [box EXCEPT ![i] = b]
                           /\ b.kind = "set" => b.src \in Items
  BY <1>3
<1>5. box' \in [BoxIds -> BoxType \cup {NoBox}]
  BY <1>4 DEF IInv, TypeOK
<1>6. \A j \in BoxIds : box'[j] # NoBox /\ box'[j].kind = "set" => box'[j].src \in Items
  BY <1>4 DEF IInv, TypeOK
<1> QED BY <1>1, <1>2, <1>5, <1>6 DEF IInv, TypeOK

\* Transactions without a Box.
LEMMA NoiseStep ==
  ASSUME IInv, NEW k \in Bank, NEW a \in LAddr, GetFails(k, a) \/ HostAccess(k, a)
  PROVE  IInv'
<1>1. inflight' \in [Bank -> Seq(Txn)]
  BY SubmitType DEF GetFails, HostAccess
<1> QED BY <1>1 DEF GetFails, HostAccess, IInv, TypeOK

\* A poll takes one entry off a log that is not empty.
LEMMA PollStep ==
  ASSUME IInv, NEW i \in BoxIds, Poll(i)
  PROVE  IInv'
<1> DEFINE k == box[i].bank
<1> DEFINE a == box[i].addr
<1>1. box[i] # NoBox /\ box[i] \in BoxType
  BY DEF Poll, Cold, IInv, TypeOK
<1>2. k \in Bank /\ a \in LAddr /\ log[k] # <<>>
  BY <1>1 DEF Poll, BoxType
<1>3. log' \in [Bank -> Seq(LAddr)]
  <2>1. log[k] \in Seq(LAddr)
    BY <1>2 DEF IInv, TypeOK
  <2>2. Len(log[k]) - 1 \in 0..Len(log[k])
    BY <1>2, <2>1
  <2>3. SubSeq(log[k], 1, Len(log[k]) - 1) \in Seq(LAddr)
    BY <2>1, <2>2
  <2>4. log' = [log EXCEPT ![k] = SubSeq(log[k], 1, Len(log[k]) - 1)]
    BY DEF Poll, Popped
  <2> HIDE DEF k
  <2> QED BY <1>2, <2>3, <2>4 DEF IInv, TypeOK
<1>4. store' \in [ObjectIds -> [0..(ObjectLen - 1) -> Values]]
  <2>1. CASE box[i].kind = "get"
    BY <2>1 DEF Poll, IInv, TypeOK
  <2>2. CASE box[i].kind = "set"
    <3>1. item[box[i].src] \in Values
      BY <1>1, <2>2 DEF IInv, TypeOK
    <3>2. Stored(k, a, item[box[i].src]) \in [ObjectIds -> [0..(ObjectLen - 1) -> Values]]
      <4> HIDE DEF k, a
      <4> QED BY <1>2, <3>1, StoredType
    <3> QED BY <2>2, <3>2 DEF Poll, IInv, TypeOK
  <2> QED BY <1>1, <2>1, <2>2 DEF BoxType
<1>5. \E r \in BOOLEAN : box' = [box EXCEPT ![i].ready = r]
  <2>1. box' = [box EXCEPT ![i].ready = box[i].ready \/ box[i].kind = "get"
                                          \/ Accessible(k, a)]
    BY DEF Poll
  <2>2. (box[i].ready \/ box[i].kind = "get" \/ Accessible(k, a)) \in BOOLEAN
    OBVIOUS
  <2> QED BY <2>1, <2>2
<1>6. PICK r \in BOOLEAN : box' = [box EXCEPT ![i].ready = r]
  BY <1>5
<1>7. /\ [box[i] EXCEPT !.ready = r] \in BoxType
      /\ [box[i] EXCEPT !.ready = r].kind = box[i].kind
      /\ [box[i] EXCEPT !.ready = r].src = box[i].src
  BY <1>1, <1>6 DEF BoxType
<1>8. /\ box' \in [BoxIds -> BoxType \cup {NoBox}]
      /\ \A j \in BoxIds :
           box'[j] # NoBox /\ box'[j].kind = "set" => box'[j].src \in Items
  BY <1>1, <1>6, <1>7 DEF IInv, TypeOK
<1>9. edited' \subseteq BoxIds /\ UNCHANGED <<table, inflight, item, event, foreign>>
  BY DEF Poll, IInv, TypeOK
<1> QED BY <1>3, <1>4, <1>8, <1>9 DEF IInv, TypeOK

\* A cycle of DRAMsim3 moves the heads of some queues to their logs and marks
\* Boxes as served; nothing else of a Box changes.
LEMMA ServeFacts ==
  ASSUME IInv, NEW K \in SUBSET Bank, Serve(K)
  PROVE  /\ inflight' \in [Bank -> Seq(Txn)]
         /\ log' \in [Bank -> Seq(LAddr)]
         /\ box' \in [BoxIds -> BoxType \cup {NoBox}]
         /\ \A i \in BoxIds :
              /\ box'[i] = NoBox <=> box[i] = NoBox
              /\ box[i] # NoBox =>
                   /\ box'[i].kind = box[i].kind /\ box'[i].bank = box[i].bank
                   /\ box'[i].addr = box[i].addr /\ box'[i].ready = box[i].ready
                   /\ box'[i].data = box[i].data /\ box'[i].src = box[i].src
                   /\ box[i].served => box'[i].served
<1>1. /\ inflight \in [Bank -> Seq(Txn)] /\ log \in [Bank -> Seq(LAddr)]
      /\ box \in [BoxIds -> BoxType \cup {NoBox}]
  BY DEF IInv, TypeOK
<1>2. ASSUME NEW k \in K
      PROVE  /\ inflight[k] \in Seq(Txn) /\ inflight[k] # <<>>
             /\ Tail(inflight[k]) \in Seq(Txn)
             /\ Append(log[k], Head(inflight[k]).addr) \in Seq(LAddr)
  <2>1. inflight[k] \in Seq(Txn) /\ inflight[k] # <<>> /\ log[k] \in Seq(LAddr)
    BY <1>1 DEF Serve
  <2>2. Head(inflight[k]) \in Txn
    BY <2>1
  <2>3. Head(inflight[k]).addr \in LAddr
    BY <2>2 DEF Txn
  <2> QED BY <2>1, <2>3
<1>3. inflight' \in [Bank -> Seq(Txn)]
  BY <1>1, <1>2 DEF Serve
<1>4. log' \in [Bank -> Seq(LAddr)]
  BY <1>1, <1>2 DEF Serve
<1>5. ASSUME NEW i \in BoxIds
      PROVE  /\ box'[i] \in BoxType \cup {NoBox}
             /\ box'[i] = NoBox <=> box[i] = NoBox
             /\ box[i] # NoBox =>
                  /\ box'[i].kind = box[i].kind /\ box'[i].bank = box[i].bank
                  /\ box'[i].addr = box[i].addr /\ box'[i].ready = box[i].ready
                  /\ box'[i].data = box[i].data /\ box'[i].src = box[i].src
                  /\ box[i].served => box'[i].served
  <2>1. box'[i] = box[i] \/ box'[i] = [box[i] EXCEPT !.served = TRUE]
    BY DEF Serve
  <2>2. CASE box[i] = NoBox
    <3>1. [NoBox EXCEPT !.served = TRUE] = NoBox
      BY DEF NoBox
    <3> QED BY <2>1, <2>2, <3>1
  <2>3. CASE box[i] # NoBox
    <3>1. box[i] \in BoxType
      BY <1>1, <2>3
    <3>2. [box[i] EXCEPT !.served = TRUE] \in BoxType
      BY <3>1 DEF BoxType
    <3>3. NoBox \notin BoxType
      BY DEF NoBox, BoxType
    <3> QED BY <2>1, <2>3, <3>1, <3>2, <3>3 DEF BoxType
  <2> QED BY <2>2, <2>3
<1>6. box' \in [BoxIds -> BoxType \cup {NoBox}]
  BY <1>5 DEF Serve
<1> QED BY <1>3, <1>4, <1>5, <1>6

\* Both forms of tick().
LEMMA TickStep ==
  ASSUME IInv, NEW K \in SUBSET Bank, Tick(K) \/ TickUntilEvent(K)
  PROVE  IInv'
<1>1. Serve(K) /\ UNCHANGED <<table, store, item, foreign, edited>> /\ event' \in BOOLEAN
  BY DEF Tick, TickUntilEvent
<1> QED BY <1>1, ServeFacts DEF IInv, TypeOK

\* Remapping.
LEMMA MapStep ==
  ASSUME IInv, NEW k \in Bank, NEW a \in LAddr, NEW len \in 1..BankSize,
         \/ \E obj \in ObjectIds, o \in 0..(ObjectLen - 1) : Mmap(k, a, obj, len, o)
         \/ Mmap(k, a, Placeholder, len, 0)
         \/ Munmap(k, a, len)
  PROVE  IInv'
<1>1. PICK obj \in ObjectIds \cup {Placeholder, Unmapped}, o \in Nat :
        table' = Mapped(table, Canonical(k, a), Canonical(k, a) + len, obj, o)
  BY DEF Mmap, Munmap
<1>2. a + len <= BankSize /\ UNCHANGED <<store, inflight, log, box, item, event, foreign, edited>>
  BY DEF Mmap, Munmap
<1>3. Proper(table', Last, EntryType)
  BY <1>1, <1>2, MappedProper DEF IInv
<1>4. /\ DOMAIN table' \subseteq 0..(NumBanks * BankSize)
      /\ \A b \in DOMAIN table' :
           table'[b].index \in ObjectIds \cup {Placeholder, Unmapped}
  BY <1>3, ProperTyped
<1> QED BY <1>2, <1>3, <1>4 DEF IInv, TypeOK

\* Letting go of a Box.
LEMMA DropStep ==
  ASSUME IInv, NEW i \in BoxIds, Drop(i)
  PROVE  IInv'
BY DEF Drop, IInv, TypeOK

\* A caller's work on its item.
LEMMA ModifyStep ==
  ASSUME IInv, NEW x \in Items, NEW v \in Values, Modify(x, v)
  PROVE  IInv'
BY DEF Modify, IInv, TypeOK

\* Every step keeps the types.
LEMMA NextIInv == IInv /\ [Next]_vars => IInv'
<1> SUFFICES ASSUME IInv, [Next]_vars PROVE IInv'
  OBVIOUS
<1>1. CASE UNCHANGED vars
  BY <1>1 DEF vars, IInv, TypeOK
<1> QED BY <1>1, IssueStep, NoiseStep, PollStep, DropStep, ModifyStep, TickStep, MapStep DEF Next

THEOREM Invariance == Spec => []IInv
BY InitIInv, NextIInv, PTL DEF Spec

\* The data structures of memsys.py keep their types, whatever the callers do.
THEOREM TypeCorrect == Spec => []TypeOK
<1>1. IInv => TypeOK
  BY DEF IInv
<1> QED BY Invariance, <1>1, PTL

(***************************************************************************)
(* Data is current.                                                        *)
(***************************************************************************)

\* A bank has at most one Box waiting.
Sole == \A i, j \in BoxIds :
          Cold(i) /\ Cold(j) /\ box[i].bank = box[j].bank => i = j

\* The data a get copied at issue is still what its address holds.
Latest == \A i \in BoxIds :
  Cold(i) /\ box[i].kind = "get" /\ InObject(box[i].bank, box[i].addr) =>
    store[Object(box[i].bank, box[i].addr)][Position(box[i].bank, box[i].addr)]
      = box[i].data

\* The data in the Box of a waiting set are those of its item, unless the
\* caller has worked on the item since.
Copied == \A i \in BoxIds :
  Cold(i) /\ box[i].kind = "set" /\ i \notin edited => box[i].data = item[box[i].src]

CurrentInv == IInv /\ Exclusive(table) /\ Sole /\ Latest /\ Copied

\* What the step of a Box that turns READY at an address of an object promises.
Delivers(i) ==
  Cold(i) /\ box'[i] # NoBox /\ box'[i].ready
    /\ InObject(box[i].bank, box[i].addr) =>
      LET now == store'[Object(box[i].bank, box[i].addr)]
                       [Position(box[i].bank, box[i].addr)]
      IN  /\ now = box[i].data \/ i \in edited
          /\ box[i].kind = "set" => now = item[box[i].src]

\* Where MaxOutstanding is 1, a bank that may take a request has no Box waiting.
LEMMA NonePending ==
  ASSUME NEW k \in Bank, MaxOutstanding = 1, Cardinality(Pending(k)) < MaxOutstanding
  PROVE  Pending(k) = {}
<1>1. IsFiniteSet(Pending(k))
  <2>1. Pending(k) \subseteq BoxIds
    BY DEF Pending
  <2> QED BY <2>1, BoundAssumption, FS_Subset
<1>2. Cardinality(Pending(k)) \in Nat
  BY <1>1, FS_CardinalityType
<1>3. Cardinality(Pending(k)) = 0
  BY <1>2
<1> QED BY <1>1, <1>3, FS_EmptySet

\* Two waiting Boxes of different banks never stand for the same chunk.
LEMMA ChunksApart ==
  ASSUME IInv, Exclusive(table), NEW j \in Bank, NEW k \in Bank, j # k,
         NEW a \in LAddr, NEW b \in LAddr, InObject(j, a)
  PROVE  <<Object(j, a), Position(j, a)>> # <<Object(k, b), Position(k, b)>>
<1>1. Canonical(j, a) # Canonical(k, b)
  <2>1. j < k \/ k < j
    BY GeometryAssumption DEF Bank
  <2>2. Canonical(j, a) \in Int /\ Canonical(k, b) \in Int
    BY GeometryAssumption, CanonicalInside DEF LAddr
  <2> QED BY <2>1, <2>2, CanonicalApart
<1>2. Canonical(j, a) \in 0..(NumBanks * BankSize - 1)
      /\ Canonical(k, b) \in 0..(NumBanks * BankSize - 1)
  BY GeometryAssumption, CanonicalInside DEF LAddr, Last
<1> QED BY <1>1, <1>2 DEF Exclusive, InObject, Object, Position

\* A write to one chunk leaves the others as they were, and is read back.
LEMMA StoredFacts ==
  ASSUME IInv, NEW k \in Bank, NEW a \in LAddr, NEW v \in Values, InObject(k, a)
  PROVE  /\ Stored(k, a, v)[Object(k, a)][Position(k, a)] = v
         /\ \A o \in ObjectIds, p \in 0..(ObjectLen - 1) :
              <<o, p>> # <<Object(k, a), Position(k, a)>> =>
                Stored(k, a, v)[o][p] = store[o][p]
<1> DEFINE x == Object(k, a)
<1> DEFINE y == Position(k, a)
<1>1. x \in ObjectIds /\ y \in 0..(ObjectLen - 1)
  BY InObjectTypes DEF IInv
<1>2. Stored(k, a, v) = [store EXCEPT ![x][y] = v]
  BY DEF Stored
<1>3. store \in [ObjectIds -> [0..(ObjectLen - 1) -> Values]]
  BY DEF IInv, TypeOK
<1> HIDE DEF x, y
<1>4. /\ Stored(k, a, v)[x][y] = v
      /\ \A o \in ObjectIds, p \in 0..(ObjectLen - 1) :
           <<o, p>> # <<x, y>> => Stored(k, a, v)[o][p] = store[o][p]
  BY <1>1, <1>2, <1>3
<1> QED BY <1>4 DEF x, y

LEMMA InitCurrent == Init => CurrentInv
<1> SUFFICES ASSUME Init PROVE CurrentInv
  OBVIOUS
<1>1. Exclusive(table)
  <2>1. Unmapped \notin ObjectIds
    BY ObjectAssumption DEF Unmapped
  <2>2. 0..(NumBanks * BankSize - 1) \subseteq 0..Last
    BY LastNat DEF Last
  <2> QED BY <2>1, <2>2, EmptyProper DEF Init, Exclusive
<1> QED BY <1>1, InitIInv DEF Init, CurrentInv, Sole, Latest, Copied, Cold

\* get() and set(): the new Box is the only one that waits on its bank, and a
\* get has just copied what is there.
LEMMA IssueCurrent ==
  ASSUME CurrentInv, MaxOutstanding = 1,
         NEW i \in BoxIds, NEW k \in Bank, NEW a \in LAddr,
         \/ Get(i, k, a)
         \/ \E x \in Items : Set(i, k, a, x)
  PROVE  Sole' /\ Latest' /\ Copied'
<1>1. UNCHANGED <<table, store, item, edited>> /\ Pending(k) = {}
  BY NonePending DEF Get, Set
<1>2. \A j \in BoxIds : j # i => box'[j] = box[j]
  BY DEF Get, Set, CurrentInv, IInv, TypeOK
<1>3. \A j \in BoxIds : Cold(j) => box[j].bank # k
  BY <1>1 DEF Pending
<1>4. /\ box'[i].bank = k /\ box'[i].addr = a
      /\ box'[i].kind = "get" => box'[i].data = Content(k, a)
      /\ box'[i].kind = "set" => box'[i].data = item[box'[i].src]
  BY DEF Get, Set, CurrentInv, IInv, TypeOK
<1>5. Sole'
  BY <1>2, <1>3, <1>4 DEF Sole, Cold, CurrentInv
<1>6. ASSUME NEW j \in BoxIds, Cold(j)', box'[j].kind = "get",
             InObject(box[j].bank, box[j].addr)'
      PROVE  (store[Object(box[j].bank, box[j].addr)]
                   [Position(box[j].bank, box[j].addr)] = box[j].data)'
  <2>1. CASE j = i
    BY <1>1, <1>4, <1>6, <2>1 DEF Content, InObject, Object, Position
  <2>2. CASE j # i
    <3>1. box'[j] = box[j] /\ Cold(j)
      BY <1>2, <1>6, <2>2 DEF Cold
    <3> QED BY <1>1, <1>6, <3>1 DEF CurrentInv, Latest, InObject, Object, Position
  <2> QED BY <2>1, <2>2
<1>7. Copied'
  BY <1>1, <1>2, <1>4 DEF Copied, CurrentInv, Cold
<1> QED BY <1>5, <1>6, <1>7 DEF Latest

\* A poll touches the chunk of its own Box only, and what it delivers is there.
LEMMA PollCurrent ==
  ASSUME CurrentInv, NEW i \in BoxIds, Poll(i)
  PROVE  Sole' /\ Latest' /\ Copied' /\ Delivers(i)
<1> DEFINE k == box[i].bank
<1> DEFINE a == box[i].addr
<1>1. /\ box[i] \in BoxType /\ Cold(i) /\ k \in Bank /\ a \in LAddr
      /\ table' = table /\ item' = item
      /\ \A j \in BoxIds : j # i => box'[j] = box[j]
      /\ box'[i].kind = box[i].kind /\ box'[i].bank = k /\ box'[i].addr = a
      /\ box'[i].data = box[i].data /\ box'[i].src = box[i].src
      /\ box[i].kind = "get" => box'[i].ready
      /\ box'[i] # NoBox
      /\ edited' = IF box'[i].ready THEN edited \ {i} ELSE edited
  <2>1. box[i] \in BoxType /\ Cold(i)
    BY DEF Poll, Cold, CurrentInv, IInv, TypeOK
  <2>2. box' = [box EXCEPT ![i].ready = box[i].ready \/ box[i].kind = "get"
                                          \/ Accessible(k, a)]
    BY DEF Poll
  <2>3. box \in [BoxIds -> BoxType \cup {NoBox}]
    BY DEF CurrentInv, IInv, TypeOK
  <2>4. box'[i] = [box[i] EXCEPT !.ready = box[i].ready \/ box[i].kind = "get"
                                          \/ Accessible(k, a)]
    BY <2>2, <2>3
  <2>5. k \in Bank /\ a \in LAddr
    BY <2>1 DEF BoxType
  <2>6. /\ box'[i].kind = box[i].kind /\ box'[i].bank = k /\ box'[i].addr = a
        /\ box'[i].data = box[i].data /\ box'[i].src = box[i].src
        /\ box[i].kind = "get" => box'[i].ready
    BY <2>1, <2>4 DEF BoxType
  <2>7. box'[i] # NoBox
    BY <2>1, <2>6 DEF BoxType, NoBox
  <2>8. /\ table' = table /\ item' = item
        /\ edited' = IF box'[i].ready THEN edited \ {i} ELSE edited
    BY DEF Poll
  <2>9. \A j \in BoxIds : j # i => box'[j] = box[j]
    BY <2>2, <2>3
  <2> QED BY <2>1, <2>5, <2>6, <2>7, <2>8, <2>9
<1>2. Sole'
  <2>1. ASSUME NEW j \in BoxIds, Cold(j)' PROVE Cold(j) /\ box'[j].bank = box[j].bank
    BY <1>1, <2>1 DEF Cold
  <2> QED BY <2>1 DEF Sole, CurrentInv
<1>3. Copied'
  <2>1. ASSUME NEW j \in BoxIds, Cold(j)', box'[j].kind = "set", j \notin edited'
        PROVE  box'[j].data = item'[box'[j].src]
    <3>1. Cold(j) /\ j \notin edited
      BY <1>1, <2>1 DEF Cold
    <3>2. box'[j].kind = box[j].kind /\ box'[j].data = box[j].data /\ box'[j].src = box[j].src
      BY <1>1
    <3> QED BY <1>1, <2>1, <3>1, <3>2 DEF CurrentInv, Copied
  <2> QED BY <2>1 DEF Copied
<1>4. CASE box[i].kind = "get"
  <2>1. store' = store
    BY <1>4 DEF Poll
  <2>2. ASSUME NEW j \in BoxIds, Cold(j)', box'[j].kind = "get"
        PROVE  box'[j] = box[j] /\ Cold(j)
    BY <1>1, <2>2 DEF Cold
  <2>3. Latest'
    BY <1>1, <2>1, <2>2 DEF CurrentInv, Latest, InObject, Object, Position
  <2>4. Delivers(i)
    BY <1>1, <1>4, <2>1 DEF CurrentInv, Latest, Delivers
  <2> QED BY <1>2, <1>3, <2>3, <2>4
<1>5. CASE box[i].kind = "set" /\ ~InObject(k, a)
  <2>1. store' = store
    BY <1>5 DEF Poll, Stored
  <2>2. ASSUME NEW j \in BoxIds, Cold(j)', box'[j].kind = "get"
        PROVE  box'[j] = box[j] /\ Cold(j)
    BY <1>1, <1>5, <2>2 DEF Cold
  <2>3. Latest'
    BY <1>1, <2>1, <2>2 DEF CurrentInv, Latest, InObject, Object, Position
  <2>4. Delivers(i)
    BY <1>5 DEF Delivers
  <2> QED BY <1>2, <1>3, <2>3, <2>4
<1>6. CASE box[i].kind = "set" /\ InObject(k, a)
  <2> DEFINE v == item[box[i].src]
  <2>1. store' = Stored(k, a, v)
    BY <1>6 DEF Poll, Accessible
  <2>2. v \in Values
    BY <1>1, <1>6 DEF CurrentInv, IInv, TypeOK, Cold
  <2>3. ASSUME NEW j \in BoxIds, Cold(j)', box'[j].kind = "get",
               InObject(box[j].bank, box[j].addr)'
        PROVE  (store[Object(box[j].bank, box[j].addr)]
                     [Position(box[j].bank, box[j].addr)] = box[j].data)'
    <3> DEFINE m == box[j].bank
    <3> DEFINE b == box[j].addr
    <3>1. j # i /\ box'[j] = box[j] /\ Cold(j)
      BY <1>1, <1>6, <2>3 DEF Cold
    <3>2. m \in Bank /\ b \in LAddr
      BY <3>1 DEF CurrentInv, IInv, TypeOK, Cold, BoxType
    <3>3. m # k
      BY <1>1, <3>1 DEF CurrentInv, Sole
    <3>4. InObject(m, b)
      BY <1>1, <2>3, <3>1 DEF InObject, Object, Position
    <3>5. store[Object(m, b)][Position(m, b)] = box[j].data
      BY <2>3, <3>1, <3>4 DEF CurrentInv, Latest
    <3>6. Stored(k, a, v)[Object(m, b)][Position(m, b)]
            = store[Object(m, b)][Position(m, b)]
      <4> HIDE DEF k, a, m, b, v
      <4>1. <<Object(m, b), Position(m, b)>> # <<Object(k, a), Position(k, a)>>
        BY <1>1, <3>2, <3>3, <3>4, ChunksApart DEF CurrentInv
      <4>2. Object(m, b) \in ObjectIds /\ Position(m, b) \in 0..(ObjectLen - 1)
        BY <3>2, <3>4, InObjectTypes DEF CurrentInv, IInv
      <4> QED BY <1>1, <1>6, <2>2, <4>1, <4>2, StoredFacts DEF CurrentInv
    <3> QED BY <1>1, <2>1, <3>1, <3>5, <3>6 DEF Object, Position
  <2>4. store'[Object(k, a)][Position(k, a)] = v
    <3> HIDE DEF k, a, v
    <3> QED BY <1>1, <1>6, <2>1, <2>2, StoredFacts DEF CurrentInv
  <2>5. v = box[i].data \/ i \in edited
    BY <1>1, <1>6 DEF CurrentInv, Copied
  <2> QED BY <1>2, <1>3, <2>3, <2>4, <2>5 DEF Latest, Delivers
<1> QED BY <1>1, <1>4, <1>5, <1>6 DEF BoxType

\* The other steps: no Box starts to wait, none becomes READY, and mappings
\* change only while none waits.
LEMMA OtherCurrent ==
  ASSUME CurrentInv, UNCHANGED <<store, item, edited>>, UNCHANGED table \/ Quiet,
         \A i \in BoxIds : box'[i] # NoBox =>
           /\ box[i] # NoBox
           /\ box'[i].kind = box[i].kind /\ box'[i].bank = box[i].bank
           /\ box'[i].addr = box[i].addr /\ box'[i].ready = box[i].ready
           /\ box'[i].data = box[i].data /\ box'[i].src = box[i].src
  PROVE  Sole' /\ Latest' /\ Copied'
<1>1. \A i \in BoxIds : Cold(i)' => Cold(i)
  BY DEF Cold
<1>2. Sole'
  BY <1>1 DEF CurrentInv, Sole, Cold
<1>3. Copied'
  BY <1>1 DEF CurrentInv, Copied, Cold
<1>4. CASE Quiet
  BY <1>1, <1>2, <1>3, <1>4 DEF Quiet, Latest
<1>5. CASE UNCHANGED table
  <2>1. ASSUME NEW i \in BoxIds, Cold(i)', box'[i].kind = "get",
               InObject(box[i].bank, box[i].addr)'
        PROVE  (store[Object(box[i].bank, box[i].addr)]
                     [Position(box[i].bank, box[i].addr)] = box[i].data)'
    <3>1. /\ Cold(i) /\ box'[i].kind = box[i].kind /\ box'[i].bank = box[i].bank
          /\ box'[i].addr = box[i].addr /\ box'[i].data = box[i].data
      BY <1>1, <2>1 DEF Cold
    <3> QED BY <1>5, <2>1, <3>1 DEF CurrentInv, Latest, InObject, Object, Position
  <2> QED BY <1>2, <1>3, <2>1 DEF Latest
<1> QED BY <1>4, <1>5

\* Every step keeps the invariant, and what turns READY in it is current.
LEMMA NextCurrent ==
  ASSUME MaxOutstanding = 1, CurrentInv, [Next]_vars
  PROVE  CurrentInv' /\ \A i \in BoxIds : Delivers(i)
<1> DEFINE Fine == \A i \in BoxIds : Delivers(i)
<1>0. IInv' /\ box \in [BoxIds -> BoxType \cup {NoBox}]
  BY NextIInv DEF CurrentInv, IInv, TypeOK
<1>1. ASSUME NEW i \in BoxIds, NEW k \in Bank, NEW a \in LAddr,
             \/ Get(i, k, a)
             \/ \E x \in Items : Set(i, k, a, x)
      PROVE  CurrentInv' /\ Fine
  <2>1. Sole' /\ Latest' /\ Copied'
    BY <1>1, IssueCurrent
  <2>2. UNCHANGED table /\ box[i] = NoBox /\ \A j \in BoxIds : j # i => box'[j] = box[j]
    BY <1>0, <1>1 DEF Get, Set
  <2> QED BY <1>0, <2>1, <2>2 DEF CurrentInv, Cold, Delivers
<1>2. ASSUME NEW i \in BoxIds, Poll(i) PROVE CurrentInv' /\ Fine
  <2>1. Sole' /\ Latest' /\ Copied' /\ Delivers(i)
    BY <1>2, PollCurrent
  <2>2. UNCHANGED table /\ \A j \in BoxIds : j # i => box'[j] = box[j]
    BY <1>0, <1>2 DEF Poll
  <2>3. \A j \in BoxIds : j # i => Delivers(j)
    BY <2>2 DEF Delivers, Cold
  <2> QED BY <1>0, <2>1, <2>2, <2>3 DEF CurrentInv
<1> DEFINE Still == \A j \in BoxIds : box'[j] # NoBox =>
             /\ box[j] # NoBox
             /\ box'[j].kind = box[j].kind /\ box'[j].bank = box[j].bank
             /\ box'[j].addr = box[j].addr /\ box'[j].ready = box[j].ready
             /\ box'[j].data = box[j].data /\ box'[j].src = box[j].src
<1>3. ASSUME Still, UNCHANGED <<store, item, edited>>, UNCHANGED table \/ Quiet,
             Exclusive(table)'
      PROVE  CurrentInv' /\ Fine
  <2>1. Sole' /\ Latest' /\ Copied'
    BY <1>3, OtherCurrent
  <2>2. Fine
    BY <1>3 DEF Cold, Delivers
  <2> QED BY <1>0, <1>3, <2>1, <2>2 DEF CurrentInv
<1>4. ASSUME NEW i \in BoxIds, Drop(i) PROVE CurrentInv' /\ Fine
  <2>1. Still
    BY <1>0, <1>4 DEF Drop
  <2> QED BY <1>3, <1>4, <2>1 DEF Drop, CurrentInv
<1>5. ASSUME NEW K \in SUBSET Bank, Tick(K) \/ TickUntilEvent(K)
      PROVE  CurrentInv' /\ Fine
  <2>1. Serve(K) /\ UNCHANGED <<table, store, item, edited>>
    BY <1>5 DEF Tick, TickUntilEvent
  <2>2. Still
    BY <2>1, ServeFacts DEF CurrentInv
  <2> QED BY <1>3, <2>1, <2>2 DEF CurrentInv
<1>6. ASSUME NEW k \in Bank, NEW a \in LAddr, GetFails(k, a) \/ HostAccess(k, a)
      PROVE  CurrentInv' /\ Fine
  BY <1>3, <1>6 DEF GetFails, HostAccess, CurrentInv
<1>7. ASSUME NEW k \in Bank, NEW a \in LAddr, NEW len \in 1..BankSize,
             \/ \E obj \in ObjectIds, o \in 0..(ObjectLen - 1) :
                  Mmap(k, a, obj, len, o)
             \/ Mmap(k, a, Placeholder, len, 0)
             \/ Munmap(k, a, len)
      PROVE  CurrentInv' /\ Fine
  <2>1. Quiet /\ Exclusive(table') /\ UNCHANGED <<store, box, item, edited>>
    BY <1>7 DEF Mmap, Munmap
  <2> QED BY <1>3, <2>1
<1>8. CASE UNCHANGED vars
  BY <1>3, <1>8 DEF vars, CurrentInv
<1>9. ASSUME NEW x \in Items, NEW v \in Values, Modify(x, v)
      PROVE  CurrentInv' /\ Fine
  <2>1. /\ UNCHANGED <<table, store, box>> /\ item' = [item EXCEPT ![x] = v]
        /\ edited' = edited \cup {i \in BoxIds : Cold(i) /\ box[i].src = x}
    BY <1>9 DEF Modify
  <2>3. Sole' /\ Latest'
    BY <2>1 DEF CurrentInv, Sole, Latest, Cold, InObject, Object, Position
  <2>4. ASSUME NEW j \in BoxIds, Cold(j)', box'[j].kind = "set", j \notin edited'
        PROVE  box'[j].data = item'[box'[j].src]
    <3>1. Cold(j) /\ box'[j] = box[j] /\ j \notin edited /\ box[j].src # x
      BY <2>1, <2>4 DEF Cold
    <3>2. item'[box[j].src] = item[box[j].src]
      BY <2>1, <3>1, <2>4 DEF CurrentInv, IInv, TypeOK, Cold
    <3> QED BY <2>4, <3>1, <3>2 DEF CurrentInv, Copied
  <2>5. Fine
    BY <2>1 DEF Cold, Delivers
  <2> QED BY <1>0, <2>1, <2>3, <2>4, <2>5 DEF CurrentInv, Copied
<1> QED BY <1>1, <1>2, <1>4, <1>5, <1>6, <1>7, <1>8, <1>9 DEF Next

\* With one waiting Box per bank, data copied at issue is current when its Box
\* turns READY, unless the item of a set was worked on in between, and then the
\* item is what is stored: also among host transactions and failing accesses, which take
\* log entries from Boxes but never data.
THEOREM Current ==
  ASSUME MaxOutstanding = 1
  PROVE  Spec => ReadyIsCurrent
<1>1. CurrentInv /\ [Next]_vars => CurrentInv'
  BY NextCurrent
<1>2. CurrentInv /\ [Next]_vars =>
        [\A i \in BoxIds : Cold(i) /\ box'[i] # NoBox /\ box'[i].ready =>
           LET k == box[i].bank
               a == box[i].addr
               now == store'[Object(k, a)][Position(k, a)]
           IN  InObject(k, a) =>
                 /\ now = box[i].data \/ i \in edited
                 /\ box[i].kind = "set" => now = item[box[i].src]]_vars
  BY NextCurrent DEF Delivers
<1> QED BY InitCurrent, <1>1, <1>2, PTL DEF Spec, ReadyIsCurrent

(***************************************************************************)
(* Completions.                                                            *)
(***************************************************************************)

\* A bank nothing waits on, and a bank on which Box i waits.
Idle(k) == Pending(k) = {} /\ inflight[k] = <<>> /\ log[k] = <<>>
Waits(k, i) ==
  /\ Pending(k) = {i}
  /\ \/ inflight[k] = <<[addr |-> box[i].addr, id |-> i]>> /\ log[k] = <<>>
     \/ inflight[k] = <<>> /\ log[k] = <<box[i].addr>> /\ box[i].served

\* The invariant while every transaction belongs to a Box: what a waiting Box
\* asks for is mapped, so that the poll that takes its log entry does make it
\* READY.
OwnInv == /\ IInv
          /\ \A k \in Bank : Idle(k) \/ \E i \in BoxIds : Waits(k, i)
          /\ \A i \in BoxIds : box[i] # NoBox /\ box[i].ready => box[i].served
          /\ \A i \in BoxIds : Cold(i) => Accessible(box[i].bank, box[i].addr)

LEMMA OwnIsOwn ==
  ASSUME \A k \in Bank : Idle(k) \/ \E i \in BoxIds : Waits(k, i)
  PROVE  OwnCompletion
BY DEF OwnCompletion, Idle, Waits

\* The holder of a waiting Box finds its bank waiting for that Box only.
LEMMA ColdWaits ==
  ASSUME OwnInv, NEW i \in BoxIds, Cold(i)
  PROVE  box[i] \in BoxType /\ box[i].bank \in Bank /\ Waits(box[i].bank, i)
<1>1. box[i] \in BoxType /\ box[i].bank \in Bank
  BY DEF Cold, OwnInv, IInv, TypeOK, BoxType
<1>2. i \in Pending(box[i].bank)
  BY DEF Pending
<1>3. PICK j \in BoxIds : Waits(box[i].bank, j)
  BY <1>1, <1>2 DEF OwnInv, Idle
<1>4. i = j
  BY <1>2, <1>3 DEF Waits
<1> QED BY <1>1, <1>3, <1>4

LEMMA InitOwn == Init => OwnInv
BY InitIInv DEF Init, OwnInv, Idle, Pending, Cold

\* A bank keeps its state when its queue, its log and its Boxes do.
LEMMA BankKept ==
  ASSUME NEW k \in Bank, Idle(k) \/ \E i \in BoxIds : Waits(k, i),
         inflight'[k] = inflight[k], log'[k] = log[k], Pending(k)' = Pending(k),
         \A i \in Pending(k) : /\ box'[i].addr = box[i].addr
                               /\ box[i].served => box'[i].served
  PROVE  Idle(k)' \/ \E i \in BoxIds : Waits(k, i)'
<1>1. CASE Idle(k)
  BY <1>1 DEF Idle
<1>2. ASSUME NEW i \in BoxIds, Waits(k, i) PROVE Waits(k, i)'
  BY <1>2 DEF Waits
<1> QED BY <1>1, <1>2

\* A Box is issued on an idle bank, whose queue has room.
LEMMA IssueOwn ==
  ASSUME OwnInv, MaxOutstanding = 1, ~foreign',
         NEW i \in BoxIds, NEW k \in Bank, NEW a \in LAddr,
         \/ Get(i, k, a)
         \/ \E x \in Items : Set(i, k, a, x)
  PROVE  OwnInv'
<1>1. IInv'
  BY IssueStep DEF OwnInv
<1>2. /\ box[i] = NoBox /\ Accessible(k, a) /\ UNCHANGED <<table, log>>
      /\ Pending(k) = {}
  BY NonePending DEF Get, Set
<1>3. Idle(k)
  BY <1>2 DEF OwnInv, Waits
<1>4. HasRoom(k)
  BY <1>3, QueueAssumption DEF Idle, HasRoom
<1>5. inflight' = [inflight EXCEPT ![k] = Append(inflight[k], [addr |-> a, id |-> i])]
  BY <1>4 DEF Get, Set, Submit
<1>6. /\ inflight'[k] = <<[addr |-> a, id |-> i]>>
      /\ \A j \in Bank : j # k => inflight'[j] = inflight[j]
  BY <1>3, <1>5 DEF Idle, OwnInv, IInv, TypeOK
<1>7. /\ box'[i] # NoBox /\ box'[i].bank = k /\ box'[i].addr = a
      /\ ~box'[i].ready
      /\ \A j \in BoxIds : j # i => box'[j] = box[j]
  BY DEF Get, Set, OwnInv, IInv, TypeOK, NoBox
<1>8. Waits(k, i)'
  <2>1. Pending(k)' = {i}
    BY <1>2, <1>7 DEF Pending, Cold
  <2> QED BY <1>2, <1>3, <1>6, <1>7, <2>1 DEF Waits, Idle
<1>9. ASSUME NEW j \in Bank, j # k
      PROVE  Idle(j)' \/ \E n \in BoxIds : Waits(j, n)'
  <2>1. Pending(j)' = Pending(j) /\ \A n \in Pending(j) : box'[n] = box[n]
    BY <1>2, <1>7, <1>9 DEF Pending, Cold
  <2> QED BY <1>2, <1>6, <1>9, <2>1, BankKept DEF OwnInv
<1>10. (\A j \in BoxIds : box[j] # NoBox /\ box[j].ready => box[j].served)'
  BY <1>7 DEF OwnInv
<1>11. \A j \in BoxIds : Cold(j)' => Accessible(box[j].bank, box[j].addr)'
  BY <1>2, <1>7 DEF OwnInv, Cold, Accessible, InObject, Object, Position
<1> QED BY <1>1, <1>8, <1>9, <1>10, <1>11 DEF OwnInv

\* A poll that finds its address at the head of the log finds its own
\* completion, and nothing else that popping the last entry could take.
LEMMA PollOwn ==
  ASSUME OwnInv, NEW i \in BoxIds, Poll(i)
  PROVE  OwnInv'
<1>0. Cold(i) /\ box[i] \in BoxType
  BY DEF Poll, Cold, OwnInv, IInv, TypeOK
<1> PICK k \in Bank, a \in LAddr : box[i].bank = k /\ box[i].addr = a
  BY <1>0 DEF BoxType
<1>1. log[k] # <<>>
  BY DEF Poll
<1>2. /\ Waits(k, i) /\ Accessible(k, a)
      /\ IInv' /\ box[i] # NoBox
  BY <1>0, ColdWaits, PollStep DEF OwnInv, Cold
<1>3. /\ Pending(k) = {i} /\ inflight[k] = <<>> /\ log[k] = <<a>>
      /\ box[i].served
  BY <1>1, <1>2 DEF Waits
<1>4. /\ log'[k] = <<>> /\ UNCHANGED <<table, inflight>>
      /\ \A j \in Bank : j # k => log'[j] = log[j]
  <2>1. log' = [log EXCEPT ![k] = SubSeq(log[k], 1, Len(log[k]) - 1)]
    BY DEF Poll, Popped
  <2>2. SubSeq(log[k], 1, Len(log[k]) - 1) = <<>>
    <3>1. Len(<<a>>) - 1 = 0 /\ SubSeq(<<a>>, 1, 0) = <<>>
      OBVIOUS
    <3> QED BY <1>3, <3>1
  <2> QED BY <1>2, <2>1, <2>2 DEF Poll, OwnInv, IInv, TypeOK
<1>5. /\ box'[i] # NoBox /\ box'[i].ready /\ box'[i].served
      /\ \A j \in BoxIds : j # i => box'[j] = box[j]
  <2>1. box' = [box EXCEPT ![i].ready = box[i].ready \/ box[i].kind = "get"
                                          \/ Accessible(k, a)]
    BY DEF Poll
  <2>2. (box[i].ready \/ box[i].kind = "get" \/ Accessible(k, a)) = TRUE
    BY <1>2
  <2>3. box' = [box EXCEPT ![i].ready = TRUE]
    BY <2>1, <2>2
  <2> QED BY <1>0, <1>3, <2>3 DEF OwnInv, IInv, TypeOK, BoxType, NoBox
<1>6. Idle(k)'
  <2>1. ASSUME NEW j \in BoxIds, Cold(j)', box'[j].bank = k PROVE FALSE
    <3>1. j # i
      BY <1>5, <2>1 DEF Cold
    <3>2. j \in Pending(k)
      BY <1>5, <2>1, <3>1 DEF Pending, Cold
    <3> QED BY <1>3, <3>1, <3>2
  <2>2. Pending(k)' = {}
    BY <2>1 DEF Pending
  <2> QED BY <1>3, <1>4, <2>2 DEF Idle
<1>7. ASSUME NEW j \in Bank, j # k
      PROVE  Idle(j)' \/ \E n \in BoxIds : Waits(j, n)'
  <2>1. Pending(j)' = Pending(j) /\ \A n \in Pending(j) : box'[n] = box[n]
    BY <1>5, <1>7 DEF Pending, Cold
  <2> QED BY <1>4, <1>7, <2>1, BankKept DEF OwnInv
<1>8. (\A j \in BoxIds : box[j] # NoBox /\ box[j].ready => box[j].served)'
  BY <1>5 DEF OwnInv
<1>9. \A j \in BoxIds : Cold(j)' => Accessible(box[j].bank, box[j].addr)'
  BY <1>4, <1>5 DEF OwnInv, Cold, Accessible, InObject, Object, Position
<1>10. \A j \in Bank : Idle(j)' \/ \E n \in BoxIds : Waits(j, n)'
  BY <1>6, <1>7
<1> QED BY <1>2, <1>8, <1>9, <1>10 DEF OwnInv

\* A bank serves the one transaction it has, the one its Box waits for.
LEMMA ServeOwn ==
  ASSUME OwnInv, NEW K \in SUBSET Bank, Serve(K), UNCHANGED <<table, store>>,
         IInv'
  PROVE  OwnInv'
<1>1. \A i \in BoxIds :
        /\ box'[i] = NoBox <=> box[i] = NoBox
        /\ box[i] # NoBox =>
             /\ box'[i].bank = box[i].bank /\ box'[i].addr = box[i].addr
             /\ box'[i].ready = box[i].ready
             /\ box[i].served => box'[i].served
  BY ServeFacts DEF OwnInv
<1>2. ASSUME NEW k \in Bank PROVE Pending(k)' = Pending(k)
  BY <1>1 DEF Pending, Cold
<1>3. ASSUME NEW k \in Bank, k \notin K
      PROVE  Idle(k)' \/ \E i \in BoxIds : Waits(k, i)'
  <2>1. inflight'[k] = inflight[k] /\ log'[k] = log[k]
    BY <1>3 DEF Serve
  <2>2. \A i \in Pending(k) : /\ box'[i].addr = box[i].addr
                              /\ box[i].served => box'[i].served
    BY <1>1 DEF Pending, Cold
  <2> QED BY <1>2, <2>1, <2>2, BankKept DEF OwnInv
<1>4. ASSUME NEW k \in K
      PROVE  \E i \in BoxIds : Waits(k, i)'
  <2>1. inflight[k] # <<>> /\ k \in Bank
    BY DEF Serve
  <2>2. PICK i \in BoxIds : Waits(k, i)
    BY <2>1 DEF OwnInv, Idle
  <2> DEFINE t == [addr |-> box[i].addr, id |-> i]
  <2>3. /\ Pending(k) = {i} /\ inflight[k] = <<t>> /\ log[k] = <<>>
    BY <2>1, <2>2 DEF Waits
  <2>4. Head(<<t>>) = t /\ Tail(<<t>>) = <<>> /\ t.addr = box[i].addr /\ t.id = i
    OBVIOUS
  <2>5. inflight'[k] = <<>> /\ log'[k] = <<box[i].addr>>
    <3>1. inflight'[k] = Tail(inflight[k])
          /\ log'[k] = Append(log[k], Head(inflight[k]).addr)
      BY <2>1 DEF Serve
    <3>2. Append(<<>>, box[i].addr) = <<box[i].addr>>
      OBVIOUS
    <3> HIDE DEF t
    <3> QED BY <2>3, <2>4, <3>1, <3>2
  <2>6. box'[i].served /\ box'[i].addr = box[i].addr
    <3>1. \E j \in K : Head(inflight[j]).id = i
      BY <2>3, <2>4
    <3>2. box'[i] = [box[i] EXCEPT !.served = TRUE]
      BY <3>1 DEF Serve
    <3>3. box[i] \in BoxType
      BY <2>3 DEF Pending, Cold, OwnInv, IInv, TypeOK
    <3> QED BY <3>2, <3>3 DEF BoxType
  <2> QED BY <1>2, <2>1, <2>3, <2>5, <2>6 DEF Waits
<1>5. (\A i \in BoxIds : box[i] # NoBox /\ box[i].ready => box[i].served)'
  BY <1>1 DEF OwnInv
<1>6. \A i \in BoxIds : Cold(i)' => Accessible(box[i].bank, box[i].addr)'
  BY <1>1 DEF OwnInv, Cold, Accessible, InObject, Object, Position
<1> QED BY <1>3, <1>4, <1>5, <1>6 DEF OwnInv

\* The steps that touch neither queues nor logs: none starts to wait.
LEMMA OtherOwn ==
  ASSUME OwnInv, IInv', inflight' = inflight, log' = log,
         table' = table \/ Quiet,
         \A i \in BoxIds : \/ box'[i] = box[i]
                           \/ box'[i] = NoBox /\ box[i].ready
  PROVE  OwnInv'
<1>1. \A i \in BoxIds : Cold(i)' <=> Cold(i)
  BY DEF Cold
<1>2. \A i \in BoxIds : Cold(i) => box'[i] = box[i]
  BY <1>1 DEF Cold
<1>3. ASSUME NEW k \in Bank
      PROVE  Idle(k)' \/ \E i \in BoxIds : Waits(k, i)'
  <2>1. Pending(k)' = Pending(k) /\ \A i \in Pending(k) : box'[i] = box[i]
    BY <1>1, <1>2 DEF Pending
  <2> QED BY <2>1, BankKept DEF OwnInv
<1>4. (\A i \in BoxIds : box[i] # NoBox /\ box[i].ready => box[i].served)'
  BY DEF OwnInv
<1>5. \A i \in BoxIds : Cold(i)' => Accessible(box[i].bank, box[i].addr)'
  BY <1>1, <1>2 DEF OwnInv, Quiet, Accessible, InObject, Object, Position
<1> QED BY <1>3, <1>4, <1>5 DEF OwnInv

LEMMA NextOwn ==
  ASSUME MaxOutstanding = 1, OwnInv, [Next]_vars, ~foreign'
  PROVE  OwnInv'
<1>0. IInv' /\ box \in [BoxIds -> BoxType \cup {NoBox}]
  BY NextIInv DEF OwnInv, IInv, TypeOK
<1>1. ASSUME NEW i \in BoxIds, NEW k \in Bank, NEW a \in LAddr,
             \/ Get(i, k, a)
             \/ \E x \in Items : Set(i, k, a, x)
      PROVE  OwnInv'
  BY <1>1, IssueOwn
<1>2. ASSUME NEW i \in BoxIds, Poll(i) PROVE OwnInv'
  BY <1>2, PollOwn
<1>3. ASSUME NEW i \in BoxIds, Drop(i) PROVE OwnInv'
  <2>1. /\ inflight' = inflight /\ log' = log /\ table' = table
        /\ \A j \in BoxIds : \/ box'[j] = box[j]
                             \/ box'[j] = NoBox /\ box[j].ready
    BY <1>0, <1>3 DEF Drop
  <2> QED BY <1>0, <2>1, OtherOwn
<1>4. ASSUME NEW K \in SUBSET Bank, Tick(K) \/ TickUntilEvent(K) PROVE OwnInv'
  BY <1>0, <1>4, ServeOwn DEF Tick, TickUntilEvent
<1>5. ASSUME NEW k \in Bank, NEW a \in LAddr, GetFails(k, a) \/ HostAccess(k, a)
      PROVE  OwnInv'
  BY <1>5 DEF GetFails, HostAccess
<1>6. ASSUME NEW k \in Bank, NEW a \in LAddr, NEW len \in 1..BankSize,
             \/ \E obj \in ObjectIds, o \in 0..(ObjectLen - 1) :
                  Mmap(k, a, obj, len, o)
             \/ Mmap(k, a, Placeholder, len, 0)
             \/ Munmap(k, a, len)
      PROVE  OwnInv'
  <2>1. Quiet /\ inflight' = inflight /\ log' = log /\ box' = box
    BY <1>6 DEF Mmap, Munmap
  <2> QED BY <1>0, <2>1, OtherOwn
<1>7. CASE UNCHANGED vars
  <2>1. inflight' = inflight /\ log' = log /\ table' = table /\ box' = box
    BY <1>7 DEF vars
  <2> QED BY <1>0, <2>1, OtherOwn
<1>8. ASSUME NEW x \in Items, NEW v \in Values, Modify(x, v) PROVE OwnInv'
  <2>1. inflight' = inflight /\ log' = log /\ table' = table /\ box' = box
    BY <1>8 DEF Modify
  <2> QED BY <1>0, <2>1, OtherOwn
<1> QED BY <1>1, <1>2, <1>3, <1>4, <1>5, <1>6, <1>7, <1>8 DEF Next

\* Once a transaction is foreign, one stays so.
LEMMA ForeignStays ==
  ASSUME [Next]_vars, foreign
  PROVE  foreign'
BY ZenonT(40) DEF Next, vars, Get, GetFails, Set, HostAccess, Poll, Drop, Modify, Tick,
       TickUntilEvent, Mmap, Munmap

\* The inductive invariant.
OwnUnlessForeign == foreign \/ OwnInv

LEMMA NextOwnUnlessForeign ==
  ASSUME MaxOutstanding = 1, OwnUnlessForeign, [Next]_vars
  PROVE  OwnUnlessForeign'
<1>1. CASE foreign
  BY <1>1, ForeignStays DEF OwnUnlessForeign
<1>2. CASE OwnInv /\ ~foreign'
  BY <1>2, NextOwn DEF OwnUnlessForeign
<1> QED BY <1>1, <1>2 DEF OwnUnlessForeign

\* update() pops the last log entry where it compared the first.  With one Box
\* per bank, and until a transaction comes from elsewhere, they are the same
\* entry, that of the Box which polls: the bank holds nothing else.
THEOREM Completion ==
  ASSUME MaxOutstanding = 1
  PROVE  Spec => []OwnCompletion
<1>1. Init => OwnUnlessForeign
  BY InitOwn DEF OwnUnlessForeign
<1>2. OwnUnlessForeign /\ [Next]_vars => OwnUnlessForeign'
  BY NextOwnUnlessForeign
<1>3. OwnUnlessForeign => OwnCompletion
  BY OwnIsOwn DEF OwnUnlessForeign, OwnInv, OwnCompletion
<1> QED BY <1>1, <1>2, <1>3, PTL DEF Spec

\* So no Box is READY before DRAMsim3 served its own transaction.
THEOREM Served ==
  ASSUME MaxOutstanding = 1
  PROVE  Spec => []ReadyMeansServed
<1>1. Init => OwnUnlessForeign
  BY InitOwn DEF OwnUnlessForeign
<1>2. OwnUnlessForeign /\ [Next]_vars => OwnUnlessForeign'
  BY NextOwnUnlessForeign
<1>3. OwnUnlessForeign => ReadyMeansServed
  BY DEF OwnUnlessForeign, OwnInv, ReadyMeansServed
<1> QED BY <1>1, <1>2, <1>3, PTL DEF Spec
=============================================================================
