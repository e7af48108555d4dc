---------------------------- MODULE IntervalTable ----------------------------
(* The interval lists of lib/address/address_mapper.py as pure operators.  *)
(*                                                                         *)
(* The code keeps three parallel lists: ascending boundaries, and for each *)
(* one the index (which object is mapped from there on) and the offset     *)
(* (where inside the object).  The three lists always change together, so  *)
(* a table is ONE function: its domain is the set of boundaries, its value *)
(* at a boundary the pair [index, offset].  bisect_left / bisect_right     *)
(* become comparisons with the set of boundaries.                          *)
EXTENDS Integers

Unmapped == -1                \* the NULL mapping of the code
Blank    == [index |-> Unmapped, offset |-> 0]

\* Table of a mapper nobody has used yet: one boundary, everything unmapped.
EmptyTable == [b \in {0} |-> Blank]

\* bisect_right(boundaries, a) - 1: the last boundary at or before a.
IsFloor(S, a, b) == b \in S /\ b <= a /\ \A c \in S : c <= a => c <= b
Floor(S, a) == CHOOSE b \in S : IsFloor(S, a, b)
Entry(t, a) == t[Floor(DOMAIN t, a)]

\* Mutant of Spliced: the deleted slice starts one boundary too early.
SplicedEarly(t, start, end, entry) ==
  [b \in {c \in DOMAIN t : c = 0 \/ c < start - 1 \/ end < c} \cup {start, end} |->
     IF b = end THEN Entry(t, end) ELSE IF b = start THEN entry ELSE t[b]]

\* Mutant of Spliced: what follows the range is looked up at its start.
SplicedStale(t, start, end, entry) ==
  [b \in {c \in DOMAIN t : c < start \/ end < c} \cup {start, end} |->
     IF b = end THEN Entry(t, start) ELSE IF b = start THEN entry ELSE t[b]]

\* The two insert_boundary calls, after the slice between the bisections of
\* start and end was deleted; start = end leaves only the second one.
Spliced(t, start, end, entry) ==
  [b \in {c \in DOMAIN t : c < start \/ end < c} \cup {start, end} |->
     IF b = end THEN Entry(t, end)
     ELSE IF b = start THEN entry
     ELSE t[b]]

\* The cleanup loop: a boundary that says what its predecessor says goes.
\* Deleting one and comparing the next with the survivor compares it with an
\* equal entry, so every comparison may use the table before the loop.
Redundant(t, b) ==
  \E p \in DOMAIN t : /\ p < b
                      /\ ~ \E c \in DOMAIN t : p < c /\ c < b
                      /\ t[p] = t[b]

\* Mutants of Cleaned: no cleanup; one that compares the indices alone.
CleanedNever(t) == t
CleanedByIndex(t) ==
  [b \in {c \in DOMAIN t : ~ \E p \in DOMAIN t :
             /\ p < c /\ t[p].index = t[c].index
             /\ ~ \E d \in DOMAIN t : p < d /\ d < c} |-> t[b]]

Cleaned(t) == [b \in {c \in DOMAIN t : ~Redundant(t, c)} |-> t[b]]

Mapped(t, start, end, index, offset) ==
  Cleaned(Spliced(t, start, end, [index |-> index, offset |-> offset]))

\* __getitem__: the object at a and the position inside it.
IndexAt(t, a)  == Entry(t, a).index
OffsetAt(t, a) == Entry(t, a).offset + (a - Floor(DOMAIN t, a))

\* Mutant of ContainsMapping: bisect_right for the end.
ContainsMappingThrough(t, start, end) ==
  \E b \in DOMAIN t : /\ b >= Floor(DOMAIN t, start)
                      /\ b <= end
                      /\ t[b].index # Unmapped

\* contains_mapping: some interval from the one that holds start up to the
\* last that begins before end is mapped.
ContainsMapping(t, start, end) ==
  \E b \in DOMAIN t : /\ b >= Floor(DOMAIN t, start)
                      /\ b < end
                      /\ t[b].index # Unmapped

\* get_end_of_range: the next boundary; past the last one the code raises an
\* IndexError, so the operator is only meaningful when HasEnd holds.
HasEnd(t, start) == \E b \in DOMAIN t : start < b
EndOfRange(t, start) ==
  CHOOSE b \in DOMAIN t : start < b /\ \A c \in DOMAIN t : start < c => b <= c
=============================================================================
