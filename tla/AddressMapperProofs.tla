------------------------- MODULE AddressMapperProofs -------------------------
(* For every bound on the addresses, every set of indices and of offsets:  *)
(* the interval lists stay in normal form, lookups never search stale      *)
(* arrays, and the mapper implements the address-by-address map.           *)
EXTENDS AddressMapper, IntervalTableProofs

\* The mapper's own lists, with its own addresses and entries.
Good(t) == Proper(t, MaxAddr, EntryType)

LEMMA GoodTable == \A t : Good(t) <=> IsTable(t) /\ 0 \in DOMAIN t
BY DEF Good, Proper, IsTable, Addr

LEMMA AddrFacts == MaxAddr \in Nat /\ Addr = 0..MaxAddr
BY MaxAddrAssumption DEF Addr

\* The facts about tables, of the mapper's lists.
LEMMA GoodFacts ==
  ASSUME NEW t, Good(t)
  PROVE  /\ DOMAIN t \subseteq Addr /\ DOMAIN t \subseteq Nat /\ 0 \in DOMAIN t
         /\ \A a \in Addr : /\ IsFloor(DOMAIN t, a, Floor(DOMAIN t, a))
                            /\ Entry(t, a) = t[Floor(DOMAIN t, a)]
                            /\ Entry(t, a) \in EntryType
         /\ \A a \in Addr : \A b : IsFloor(DOMAIN t, a, b) => Entry(t, a) = t[b]
<1>1. Proper(t, MaxAddr, EntryType)
  BY DEF Good
<1>2. DOMAIN t \subseteq Addr /\ DOMAIN t \subseteq Nat /\ 0 \in DOMAIN t
  BY <1>1, AddrFacts, ProperDomain
<1>3. ASSUME NEW a \in Addr
      PROVE  /\ IsFloor(DOMAIN t, a, Floor(DOMAIN t, a))
             /\ Entry(t, a) = t[Floor(DOMAIN t, a)]
             /\ Entry(t, a) \in EntryType
  BY <1>1, AddrFacts, EntryOfFloor
<1>4. ASSUME NEW a \in Addr, NEW b, IsFloor(DOMAIN t, a, b) PROVE Entry(t, a) = t[b]
  BY <1>1, <1>4, AddrFacts, EntryByFloor
<1> QED BY <1>2, <1>3, <1>4

LEMMA GoodMapped ==
  ASSUME NEW t, Good(t), NEW s \in Addr, NEW e \in Addr, s <= e,
         NEW i, NEW o, [index |-> i, offset |-> o] \in EntryType
  PROVE  /\ Good(Mapped(t, s, e, i, o))
         /\ \A b \in DOMAIN Mapped(t, s, e, i, o) :
              ~Redundant(Mapped(t, s, e, i, o), b)
         /\ \A a \in Addr : Entry(Mapped(t, s, e, i, o), a)
              = IF s <= a /\ a < e THEN [index |-> i, offset |-> o]
                                   ELSE Entry(t, a)
BY AddrFacts, MappedEntry DEF Good

(***************************************************************************)
(* The state machine.                                                      *)
(***************************************************************************)

\* The inductive invariant.  NormalForm speaks of the last interval through
\* HasEnd; what the steps preserve directly is that the entry of the largest
\* address stays unmapped.  BakedIsCurrent is needed for the type of answer.
IInv == /\ TypeOK
        /\ Good(table)
        /\ BakedIsCurrent
        /\ IndexAt(table, MaxAddr) = Unmapped
        /\ \A b \in DOMAIN table : ~Redundant(table, b)

\* A mapping the mapper accepts is a legal entry.
LEMMA CallTypes ==
  /\ \A i \in Index, o \in Offset : [index |-> i, offset |-> o] \in EntryType
  /\ [index |-> Unmapped, offset |-> 0] \in EntryType
BY DEF EntryType, Blank

\* The index of any address of a good table is one the caller mapped, or none.
LEMMA IndexType ==
  ASSUME NEW t, Good(t), NEW a \in Addr
  PROVE  IndexAt(t, a) \in Index \cup {Unmapped}
<1>1. Entry(t, a) \in EntryType
  BY GoodFacts
<1> QED BY <1>1 DEF IndexAt, EntryType, Blank

\* The mapper nobody has used is in the invariant and unmapped everywhere.
LEMMA InitFacts ==
  /\ Good(EmptyTable)
  /\ \A a \in Addr : Entry(EmptyTable, a) = Blank
  /\ \A b \in DOMAIN EmptyTable : ~Redundant(EmptyTable, b)
<1>1. Good(EmptyTable)
  BY GoodTable, MaxAddrAssumption DEF IsTable, EmptyTable, Addr, EntryType
<1>2. ASSUME NEW a \in Addr PROVE Entry(EmptyTable, a) = Blank
  <2>1. Floor(DOMAIN EmptyTable, a) = 0
    BY <1>1, GoodFacts DEF EmptyTable, IsFloor
  <2> QED BY <2>1 DEF Entry, EmptyTable
<1>3. \A b \in DOMAIN EmptyTable : ~Redundant(EmptyTable, b)
  BY DEF EmptyTable, Redundant
<1> QED BY <1>1, <1>2, <1>3

\* Init establishes the invariant.
LEMMA InitIInv == Init => IInv
<1> SUFFICES ASSUME Init PROVE IInv
  OBVIOUS
<1>1. Good(table) /\ \A b \in DOMAIN table : ~Redundant(table, b)
  BY InitFacts DEF Init
<1>2. MaxAddr \in Addr
  BY MaxAddrAssumption DEF Addr
<1>3. IndexAt(table, MaxAddr) = Unmapped
  BY <1>2, InitFacts DEF Init, IndexAt, Blank
<1>4. TypeOK
  BY <1>1, GoodTable DEF TypeOK, Init, IsTable, Unbaked
<1>5. BakedIsCurrent
  BY DEF Init, BakedIsCurrent
<1> QED BY <1>1, <1>3, <1>4, <1>5 DEF IInv

\* A mapping (or removal) preserves the invariant and changes the owners of
\* exactly the addresses of its range.
LEMMA AddMappingStep ==
  ASSUME IInv, NEW s \in Addr, NEW e \in Addr, NEW i, NEW o,
         [index |-> i, offset |-> o] \in EntryType,
         AddMapping(s, e, i, o)
  PROVE  /\ IInv'
         /\ \A a \in Addr : IndexAt(table', a)
              = IF s <= a /\ a < e THEN i ELSE IndexAt(table, a)
<1>1. s <= e /\ Good(table) /\ table' = Mapped(table, s, e, i, o)
  BY DEF AddMapping, IInv
<1>2. /\ Good(table')
      /\ \A b \in DOMAIN table' : ~Redundant(table', b)
      /\ \A a \in Addr : Entry(table', a)
           = IF s <= a /\ a < e THEN [index |-> i, offset |-> o]
                                ELSE Entry(table, a)
  BY <1>1, GoodMapped
<1>3. \A a \in Addr : IndexAt(table', a)
        = IF s <= a /\ a < e THEN i ELSE IndexAt(table, a)
  BY <1>2 DEF IndexAt
<1>4. IndexAt(table', MaxAddr) = Unmapped
  <2>1. MaxAddr \in Addr /\ ~(MaxAddr < e)
    BY MaxAddrAssumption DEF Addr
  <2> QED BY <1>3, <2>1 DEF IInv
<1>5. TypeOK'
  BY <1>2, GoodTable DEF TypeOK, IInv, AddMapping
<1>6. BakedIsCurrent'
  BY DEF AddMapping, BakedIsCurrent
<1> QED BY <1>2, <1>3, <1>4, <1>5, <1>6 DEF IInv

\* A lookup preserves the invariant and answers with the current index.
LEMMA LookupStep ==
  ASSUME IInv, NEW a \in Addr, Lookup(a)
  PROVE  IInv' /\ answer' = IndexAt(table, a) /\ table' = table
<1>1. baked' = table /\ table' = table /\ dirty' = FALSE
  BY DEF Lookup, IInv, BakedIsCurrent, TypeOK
<1>2. answer' = IndexAt(table, a)
  BY <1>1 DEF Lookup
<1>3. answer' \in Index \cup {Unmapped}
  BY <1>2, IndexType DEF IInv
<1>4. TypeOK' /\ BakedIsCurrent'
  BY <1>1, <1>3 DEF IInv, TypeOK, BakedIsCurrent
<1> QED BY <1>1, <1>2, <1>4 DEF IInv

\* Every step preserves the invariant.
LEMMA NextIInv == IInv /\ [Next]_vars => IInv'
<1> SUFFICES ASSUME IInv, [Next]_vars PROVE IInv'
  OBVIOUS
<1>1. ASSUME NEW s \in Addr, NEW e \in Addr, NEW i \in Index, NEW o \in Offset,
             AddMapping(s, e, i, o)
      PROVE  IInv'
  BY <1>1, CallTypes, AddMappingStep
<1>2. ASSUME NEW s \in Addr, NEW e \in Addr, RemoveMapping(s, e)
      PROVE  IInv'
  BY <1>2, CallTypes, AddMappingStep DEF RemoveMapping
<1>3. ASSUME NEW a \in Addr, Lookup(a) PROVE IInv'
  BY <1>3, LookupStep
<1>4. CASE UNCHANGED vars
  BY <1>4 DEF vars, IInv, TypeOK, BakedIsCurrent
<1> QED BY <1>1, <1>2, <1>3, <1>4 DEF Next

\* NormalForm, of a state.
LEMMA NormalInv ==
  ASSUME IInv
  PROVE  NormalForm
<1>1. Good(table) /\ DOMAIN table \subseteq Nat /\ DOMAIN table \subseteq Addr
  BY GoodFacts DEF IInv
<1>2. ASSUME NEW b \in DOMAIN table, table[b].index # Unmapped
      PROVE  HasEnd(table, b)
  <2> SUFFICES ASSUME ~HasEnd(table, b) PROVE FALSE
    OBVIOUS
  <2>1. MaxAddr \in Addr
    BY MaxAddrAssumption DEF Addr
  <2>2. IsFloor(DOMAIN table, MaxAddr, b)
    BY <1>1, MaxAddrAssumption DEF HasEnd, IsFloor, Addr
  <2>3. Entry(table, MaxAddr) = table[b]
    BY <1>1, <2>1, <2>2, GoodFacts
  <2> QED BY <1>2, <2>3 DEF IInv, IndexAt
<1> QED BY <1>1, <1>2, GoodFacts DEF IInv, NormalForm

\* The inductive invariant holds of every reachable state.
THEOREM Invariance == Spec => []IInv
BY InitIInv, NextIInv, PTL DEF Spec

\* Type correctness of the mapper for every set of indices and offsets.
THEOREM TypeCorrect == Spec => []TypeOK
<1>1. IInv => TypeOK
  BY DEF IInv
<1> QED BY Invariance, <1>1, PTL

\* Lookups never search arrays older than the lists.
THEOREM NeverStale == Spec => []BakedIsCurrent
<1>1. IInv => BakedIsCurrent
  BY DEF IInv
<1> QED BY Invariance, <1>1, PTL

\* The lists stay in normal form: boundary 0, an unmapped last interval, no
\* redundant boundary, whatever sequence of mappings and removals.
THEOREM AlwaysNormal == Spec => []NormalForm
<1>1. IInv => NormalForm
  BY NormalInv
<1> QED BY Invariance, <1>1, PTL

(***************************************************************************)
(* What lookups and queries answer.                                        *)
(***************************************************************************)

\* The mapper's lists are normal, in the sense of IntervalTableProofs, and the
\* lists after any call are.
LEMMA NormalLists ==
  ASSUME IInv
  PROVE  /\ Normal(table, MaxAddr, EntryType)
         /\ \A c \in Calls :
              LET t == Mapped(table, c[1][1], c[1][2], c[2].index, c[2].offset)
              IN  /\ Normal(t, MaxAddr, EntryType)
                  /\ \A a \in Addr : Entry(t, a)
                       = IF c[1][1] <= a /\ a < c[1][2] THEN c[2] ELSE Entry(table, a)
<1>1. Normal(table, MaxAddr, EntryType)
  BY DEF IInv, Good, Normal
<1>2. ASSUME NEW c \in Calls
      PROVE  LET t == Mapped(table, c[1][1], c[1][2], c[2].index, c[2].offset)
             IN  /\ Normal(t, MaxAddr, EntryType)
                 /\ \A a \in Addr : Entry(t, a)
                      = IF c[1][1] <= a /\ a < c[1][2] THEN c[2] ELSE Entry(table, a)
  <2>1. c[1][1] \in Addr /\ c[1][2] \in Addr /\ c[1][1] <= c[1][2] /\ c[2] \in EntryType
    BY DEF Calls
  <2>2. c[2] = [index |-> c[2].index, offset |-> c[2].offset]
    BY <2>1 DEF EntryType, Blank
  <2> DEFINE s == c[1][1]
  <2> DEFINE e == c[1][2]
  <2> DEFINE i == c[2].index
  <2> DEFINE o == c[2].offset
  <2>3. s \in Addr /\ e \in Addr /\ s <= e /\ [index |-> i, offset |-> o] \in EntryType
    BY <2>1, <2>2
  <2>4. [index |-> i, offset |-> o] = c[2] /\ Good(table)
    BY <2>2 DEF IInv
  <2> HIDE DEF s, e, i, o
  <2>5. /\ Good(Mapped(table, s, e, i, o))
        /\ \A b \in DOMAIN Mapped(table, s, e, i, o) : ~Redundant(Mapped(table, s, e, i, o), b)
        /\ \A a \in Addr : Entry(Mapped(table, s, e, i, o), a)
             = IF s <= a /\ a < e THEN [index |-> i, offset |-> o] ELSE Entry(table, a)
    BY <2>3, <2>4, GoodMapped
  <2> QED BY <2>4, <2>5 DEF Good, Normal, s, e, i, o
<1> QED BY <1>1, <1>2

\* The queries mean what their names say.
LEMMA QueriesInv ==
  ASSUME IInv
  PROVE  QueriesAgree
<1>0. /\ Normal(table, MaxAddr, EntryType) /\ Proper(table, MaxAddr, EntryType)
      /\ MaxAddr \in Nat /\ Addr = 0..MaxAddr
  BY NormalLists, AddrFacts DEF Normal
<1>1. ASSUME NEW s \in Addr, NEW e \in Addr, s < e
      PROVE  ContainsMapping(table, s, e)
               <=> \E a \in s..(e - 1) : IndexAt(table, a) # Unmapped
  BY <1>0, <1>1, ContainsMeans
<1>2. ASSUME NEW s \in Addr, IndexAt(table, s) # Unmapped
      PROVE  /\ HasEnd(table, s)
             /\ \A a \in s..(EndOfRange(table, s) - 1) : Entry(table, a) = Entry(table, s)
             /\ Entry(table, EndOfRange(table, s)) # Entry(table, s)
  <2> DEFINE f == Floor(DOMAIN table, s)
  <2>1. /\ f \in DOMAIN table /\ f <= s /\ (\A c \in DOMAIN table : c <= s => c <= f)
        /\ Entry(table, s) = table[f] /\ DOMAIN table \subseteq 0..MaxAddr
    BY <1>0, FloorFacts, ProperDomain
  <2> HIDE DEF f
  <2>2. HasEnd(table, f)
    BY <1>2, <2>1, NormalInv DEF NormalForm, IndexAt
  <2>3. PICK c \in DOMAIN table : f < c
    BY <2>2 DEF HasEnd
  <2>4. s < c
    BY <1>0, <2>1, <2>3
  <2>5. HasEnd(table, s)
    BY <2>4 DEF HasEnd
  <2> QED BY <1>0, <2>5, EndMeans
<1> QED BY <1>1, <1>2 DEF QueriesAgree

\* Below the range no boundary comes or goes.
LEMMA BelowInv ==
  ASSUME IInv
  PROVE  BelowUntouched
<1> SUFFICES ASSUME NEW c \in Calls, NEW a \in 0..(c[1][1] - 1)
             PROVE  LET t == Mapped(table, c[1][1], c[1][2], c[2].index, c[2].offset)
                    IN  /\ IndexAt(t, a) = IndexAt(table, a)
                        /\ OffsetAt(t, a) = OffsetAt(table, a)
  BY DEF BelowUntouched
<1> DEFINE t == Mapped(table, c[1][1], c[1][2], c[2].index, c[2].offset)
<1>1. c[1][1] \in 0..MaxAddr /\ MaxAddr \in Nat /\ Addr = 0..MaxAddr
  BY AddrFacts DEF Calls
<1>2. /\ Normal(table, MaxAddr, EntryType) /\ Normal(t, MaxAddr, EntryType)
      /\ \A b \in Addr : Entry(t, b)
           = IF c[1][1] <= b /\ b < c[1][2] THEN c[2] ELSE Entry(table, b)
  BY NormalLists
<1> HIDE DEF t
<1>3. ASSUME NEW b \in 0..a PROVE Entry(t, b) = Entry(table, b)
  <2>1. b \in Addr /\ ~(c[1][1] <= b)
    BY <1>1
  <2> QED BY <1>2, <2>1
<1>4. a \in 0..MaxAddr /\ a \in 0..a
  BY <1>1
<1>5. Floor(DOMAIN t, a) = Floor(DOMAIN table, a)
  BY <1>1, <1>2, <1>3, <1>4, SameFloor
<1>6. Entry(t, a) = Entry(table, a)
  BY <1>3, <1>4
<1>7. IndexAt(t, a) = IndexAt(table, a) /\ OffsetAt(t, a) = OffsetAt(table, a)
  BY <1>5, <1>6 DEF IndexAt, OffsetAt
<1> QED BY <1>7 DEF t

\* A fresh range is a run that begins at its own start.
LEMMA FreshInv ==
  ASSUME IInv
  PROVE  FreshMappingAddressed
<1> SUFFICES ASSUME NEW c \in Calls,
                    c[1][1] > 0 => Entry(table, c[1][1] - 1) # c[2],
                    NEW a \in c[1][1]..(c[1][2] - 1)
             PROVE  LET t == Mapped(table, c[1][1], c[1][2], c[2].index, c[2].offset)
                    IN  /\ IndexAt(t, a) = c[2].index
                        /\ OffsetAt(t, a) = c[2].offset + (a - c[1][1])
  BY DEF FreshMappingAddressed
<1> DEFINE t == Mapped(table, c[1][1], c[1][2], c[2].index, c[2].offset)
<1> DEFINE s == c[1][1]
<1> DEFINE e == c[1][2]
<1>1. s \in 0..MaxAddr /\ e \in 0..MaxAddr /\ MaxAddr \in Nat /\ Addr = 0..MaxAddr
  BY AddrFacts DEF Calls
<1>2. /\ Normal(t, MaxAddr, EntryType)
      /\ \A b \in Addr : Entry(t, b) = IF s <= b /\ b < e THEN c[2] ELSE Entry(table, b)
  BY NormalLists
<1>3. (s > 0 => Entry(table, s - 1) # c[2]) /\ a \in s..(e - 1)
  OBVIOUS
<1> HIDE DEF t, s, e
<1>4. \A b \in s..(e - 1) : Entry(t, b) = c[2]
  BY <1>1, <1>2
<1>5. s > 0 => Entry(t, s - 1) # c[2]
  <2> SUFFICES ASSUME s > 0 PROVE Entry(t, s - 1) # c[2]
    OBVIOUS
  <2>1. s - 1 \in Addr /\ ~(s <= s - 1)
    BY <1>1
  <2> QED BY <1>2, <1>3, <2>1
<1>6. s \in Nat /\ e \in Nat /\ e - 1 <= MaxAddr
  BY <1>1
<1>7. Floor(DOMAIN t, a) = s
  <2>1. RunFrom(t, c[2], s, e)
    BY <1>4, <1>5 DEF RunFrom
  <2> QED BY <1>1, <1>2, <1>3, <1>6, <2>1, RunFloor
<1>8. Entry(t, a) = c[2]
  BY <1>3, <1>4
<1>9. IndexAt(t, a) = c[2].index /\ OffsetAt(t, a) = c[2].offset + (a - s)
  BY <1>7, <1>8 DEF IndexAt, OffsetAt
<1> QED BY <1>9 DEF t, s

\* contains_mapping and get_end_of_range, which look at boundaries, answer for
\* addresses (address_mapper.py:126-171).
THEOREM QueriesAlwaysAgree == Spec => []QueriesAgree
<1>1. IInv => QueriesAgree
  BY QueriesInv
<1> QED BY Invariance, <1>1, PTL

\* Below the range of add_mapping every address keeps its object and its
\* position, although the cleanup loop runs over the whole list.
THEOREM BelowAlwaysUntouched == Spec => []BelowUntouched
<1>1. IInv => BelowUntouched
  BY BelowInv
<1> QED BY Invariance, <1>1, PTL

\* A range is addressed from its own start unless the interval just below says
\* the same (add_mapping).
THEOREM FreshAlwaysAddressed == Spec => []FreshMappingAddressed
<1>1. IInv => FreshMappingAddressed
  BY FreshInv
<1> QED BY Invariance, <1>1, PTL

(***************************************************************************)
(* Refinement.                                                             *)
(***************************************************************************)

\* The interval lists implement the map with one owner per address: each
\* add_mapping, remove_mapping and lookup is one step of that map.
THEOREM Refinement == Spec => ImplementsIntervalMap
<1> DEFINE own == [a \in Addr |-> IndexAt(table, a)]
<1>1. Init => IMap!Init
  <2> SUFFICES ASSUME Init PROVE IMap!Init
    OBVIOUS
  <2>1. \A a \in Addr : IndexAt(table, a) = Unmapped
    BY InitFacts DEF Init, IndexAt, Blank
  <2> QED BY <2>1 DEF Init, IMap!Init, IMap!Addr, Addr, IMap!Unowned, Unmapped
<1>2. IInv /\ [Next]_vars => [IMap!Next]_(IMap!vars)
  <2> SUFFICES ASSUME IInv, [Next]_vars PROVE [IMap!Next]_(IMap!vars)
    OBVIOUS
  <2>1. ASSUME NEW s \in Addr, NEW e \in Addr, NEW i, NEW o,
               i \in Index \cup {Unmapped},
               [index |-> i, offset |-> o] \in EntryType,
               AddMapping(s, e, i, o)
        PROVE  IMap!Next
    <3>1. \A a \in Addr : IndexAt(table', a)
            = IF s <= a /\ a < e THEN i ELSE IndexAt(table, a)
      BY <2>1, AddMappingStep
    <3>2. own' = [a \in Addr |-> IF s <= a /\ a < e THEN i ELSE own[a]]
      BY <3>1
    <3>3. s <= e /\ UNCHANGED answer
      BY <2>1 DEF AddMapping
    <3>4. IMap!Map(s, e, i)
      BY <3>2, <3>3 DEF IMap!Map, IMap!Addr, Addr
    <3> QED BY <2>1, <3>3, <3>4
            DEF IMap!Next, IMap!Addr, Addr, IMap!Unowned, Unmapped
  <2>2. ASSUME NEW s \in Addr, NEW e \in Addr, NEW i \in Index,
               NEW o \in Offset, AddMapping(s, e, i, o)
        PROVE  IMap!Next
    BY <2>1, <2>2, CallTypes
  <2>3. ASSUME NEW s \in Addr, NEW e \in Addr, RemoveMapping(s, e)
        PROVE  IMap!Next
    BY <2>1, <2>3, CallTypes DEF RemoveMapping
  <2>4. ASSUME NEW a \in Addr, Lookup(a) PROVE IMap!Next
    <3>1. answer' = own[a] /\ own' = own
      BY <2>4, LookupStep
    <3> QED BY <3>1 DEF IMap!Next, IMap!Lookup, IMap!Addr, Addr
  <2>5. CASE UNCHANGED vars
    BY <2>5 DEF vars, IMap!vars, Addr
  <2> QED BY <2>2, <2>3, <2>4, <2>5 DEF Next
<1> QED BY Invariance, <1>1, <1>2, PTL
        DEF Spec, ImplementsIntervalMap, IMap!Spec
=============================================================================
