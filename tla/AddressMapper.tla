---------------------------- MODULE AddressMapper ----------------------------
(* The stateful side of lib/address/address_mapper.py: the interval lists, *)
(* the dirty flag and the copy of the lists that lookups search.           *)
EXTENDS IntervalTable

CONSTANTS MaxAddr,    \* bound: largest boundary or looked-up address
          Index,      \* indices callers map: object ids (>= 0) and -2
          Offset      \* offsets callers pass to add_mapping

ASSUME MaxAddrAssumption == MaxAddr \in Nat
ASSUME IndexAssumption == Index \subseteq Int /\ Unmapped \notin Index
ASSUME OffsetAssumption == Offset \subseteq Nat

Addr == 0..MaxAddr
EntryType == [index : Index, offset : Offset] \cup {Blank}

VARIABLES table,      \* boundaries, indices, offsets
          dirty,      \* the lists changed since the last bake
          baked,      \* np_boundaries, np_indices, np_offsets
          answer      \* the index the last __getitem__ returned

vars == <<table, dirty, baked, answer>>

IsTable(t) == /\ DOMAIN t \subseteq Addr
              /\ t = [b \in DOMAIN t |-> t[b]]
              /\ \A b \in DOMAIN t : t[b] \in EntryType

\* No bake has happened: the numpy arrays are empty.
Unbaked == [b \in {} |-> Blank]

TypeOK == /\ IsTable(table)
          /\ dirty \in BOOLEAN
          /\ IsTable(baked)
          /\ answer \in Index \cup {Unmapped}

Init == /\ table = EmptyTable
        /\ dirty = TRUE
        /\ baked = Unbaked
        /\ answer = Unmapped

\* Mutant of AddMapping: the dirty flag is not raised.
AddMappingQuietly(start, end, index, offset) ==
  /\ start <= end
  /\ table' = Mapped(table, start, end, index, offset)
  /\ UNCHANGED <<dirty, baked, answer>>

\* add_mapping raises when end < start, before it changes anything.
AddMapping(start, end, index, offset) ==
  /\ start <= end
  /\ table' = Mapped(table, start, end, index, offset)
  /\ dirty' = TRUE
  /\ UNCHANGED <<baked, answer>>

RemoveMapping(start, end) == AddMapping(start, end, Unmapped, 0)

\* Mutant of Lookup: the halves of the returned pair swapped.
LookupSwapped(a) ==
  /\ baked' = IF dirty THEN table ELSE baked
  /\ dirty' = FALSE
  /\ answer' = OffsetAt(baked', a)
  /\ UNCHANGED table

\* __getitem__: bakes if the lists are dirty, then searches the baked copy.
Lookup(a) ==
  /\ baked' = IF dirty THEN table ELSE baked
  /\ dirty' = FALSE
  /\ answer' = IndexAt(baked', a)
  /\ UNCHANGED table

Next ==
  \/ \E s, e \in Addr, i \in Index, o \in Offset : AddMapping(s, e, i, o)
  \/ \E s, e \in Addr : RemoveMapping(s, e)
  \/ \E a \in Addr : Lookup(a)

Spec == Init /\ [][Next]_vars

-----------------------------------------------------------------------------
(* Properties *)

\* A mapper keeps a normal form: address 0 is always a boundary (so every
\* lookup finds an interval), the last interval is unmapped (so every mapped
\* one has an end) and no boundary repeats its predecessor: the list cannot
\* grow with the number of calls.  Splice and cleanup loop keep it together.
NormalForm ==
  /\ 0 \in DOMAIN table
  /\ \A b \in DOMAIN table : table[b].index # Unmapped => HasEnd(table, b)
  /\ \A b \in DOMAIN table : ~Redundant(table, b)

\* What lookups search is what was mapped: whenever the dirty flag is down the
\* baked arrays are the lists.
BakedIsCurrent == ~dirty => baked = table

\* The queries the instruction cache relies on agree with the address-by-
\* address view: contains_mapping with "some address of the range is mapped",
\* get_end_of_range with "same entry up to there, another one from there on".
QueriesAgree ==
  /\ \A s, e \in Addr : s < e =>
       (ContainsMapping(table, s, e)
          <=> \E a \in s..(e - 1) : IndexAt(table, a) # Unmapped)
  /\ \A s \in Addr : IndexAt(table, s) # Unmapped =>
       /\ HasEnd(table, s)
       /\ \A a \in s..(EndOfRange(table, s) - 1) :
            Entry(table, a) = Entry(table, s)
       /\ Entry(table, EndOfRange(table, s)) # Entry(table, s)

\* Every call <<<<start, end>>, entry>> that add_mapping or remove_mapping
\* accepts: the properties below say what lookups answer right after it.
Calls == {c \in Addr \X Addr : c[1] <= c[2]} \X EntryType

\* Every address below the range keeps its index AND its position inside the
\* object across a mapping, whatever the cleanup loop deletes.
BelowUntouched ==
  \A c \in Calls :
    LET t == Mapped(table, c[1][1], c[1][2], c[2].index, c[2].offset)
    IN  \A a \in 0..(c[1][1] - 1) : /\ IndexAt(t, a) = IndexAt(table, a)
                                    /\ OffsetAt(t, a) = OffsetAt(table, a)

\* A fresh mapping is addressed from its own start: byte offset o at s, o + 1
\* at s + 1 and so on.  The code guarantees it only when the interval just
\* below does not carry the same (index, offset): then the cleanup loop takes
\* the new boundary for a redundant one and the old interval runs on.
FreshMappingAddressed ==
  \A c \in Calls :
    LET s == c[1][1]
        t == Mapped(table, s, c[1][2], c[2].index, c[2].offset)
    IN  (s > 0 => Entry(table, s - 1) # c[2]) =>
          \A a \in s..(c[1][2] - 1) :
            /\ IndexAt(t, a) = c[2].index
            /\ OffsetAt(t, a) = c[2].offset + (a - s)

\* remove_mapping's docstring: "Removes all mappings between start and end.
\* Functionally equivalent to mapping the passed range to the NULL mapping";
\* an object that stays mapped outside the range is found where it was.
\* The code gives the tail of a split interval the offset of its head.
RemovalIsLocal ==
  \A s, e \in Addr : s <= e =>
    LET t == Mapped(table, s, e, Unmapped, 0)
    IN  \A a \in Addr \ (s..(e - 1)) :
          IndexAt(table, a) >= 0 => OffsetAt(t, a) = OffsetAt(table, a)

\* The abstract map: one owner per address, read off the interval lists.
IMap == INSTANCE IntervalMap
          WITH owner <- [a \in Addr |-> IndexAt(table, a)]

\* Through any sequence of splits, merges, removals and lookups the interval
\* lists answer as the address-by-address map does.
ImplementsIntervalMap == IMap!Spec
=============================================================================
