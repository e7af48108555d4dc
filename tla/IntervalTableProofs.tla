------------------------- MODULE IntervalTableProofs -------------------------
(* What add_mapping does to an interval table, for every table: the splice *)
(* and the cleanup loop together change the entries of exactly the         *)
(* addresses of the range, and no boundary is left that repeats another.   *)
(* In a table without such boundaries a run of equal entries is what the   *)
(* boundaries around it say: the last part, on which queries rest.         *)
EXTENDS IntervalTable, WellFoundedInduction, TLAPS

(***************************************************************************)
(* Numbers: least and greatest elements, multiples.                        *)
(***************************************************************************)

\* A non-empty set of naturals has a least element.
LEMMA NatMin ==
  ASSUME NEW T, T \subseteq Nat, T # {}
  PROVE  \E x \in T : \A y \in T : x <= y
<1> DEFINE R == {ss \in Nat \X Nat : ss[1] < ss[2]}
<1>1. IsWellFoundedOn(R, Nat)
  BY NatLessThanWellFounded, Zenon DEF OpToRel
<1>2. PICK x \in T : \A y \in T : ~(<<y, x>> \in R)
  <2> HIDE DEF R
  <2> QED BY <1>1, WFMin, Zenon
<1>3. ASSUME NEW y \in T PROVE x <= y
  <2>1. x \in Nat /\ y \in Nat
    OBVIOUS
  <2>2. ~(<<y, x>> \in R)
    BY <1>2
  <2>3. <<y, x>> \in Nat \X Nat
    BY <2>1
  <2>4. ~(y < x)
    BY <2>2, <2>3
  <2> QED BY <2>1, <2>4
<1> QED BY <1>3

\* A non-empty set of naturals with an upper bound has a greatest element.
LEMMA NatMax ==
  ASSUME NEW a \in Nat, NEW T, T \subseteq 0..a, T # {}
  PROVE  \E x \in T : \A y \in T : y <= x
<1> DEFINE D == {d \in Nat : \E x \in T : d = a - x}
<1>1. D \subseteq Nat /\ D # {}
  <2>1. PICK x \in T : TRUE
    OBVIOUS
  <2>2. a - x \in D
    BY <2>1
  <2> QED BY <2>2
<1>2. PICK d \in D : \A e \in D : d <= e
  <2> HIDE DEF D
  <2> QED BY <1>1, NatMin
<1>3. PICK x \in T : d = a - x
  OBVIOUS
<1>4. ASSUME NEW y \in T PROVE y <= x
  <2>1. a - y \in D
    OBVIOUS
  <2>2. d <= a - y
    BY <1>2, <2>1
  <2>3. x \in 0..a /\ y \in 0..a
    OBVIOUS
  <2> QED BY <2>2, <2>3, <1>3
<1> QED BY <1>4

\* Multiples of w are at least w apart.
LEMMA MultiplesApart ==
  ASSUME NEW a \in Nat, NEW b \in Nat, NEW w \in Nat, a < b
  PROVE  a * w \in Nat /\ b * w \in Nat /\ a * w + w <= b * w
<1>1. PICK d \in Nat : b = a + 1 + d
  <2>1. b - a - 1 \in Nat /\ b = a + 1 + (b - a - 1)
    OBVIOUS
  <2> QED BY <2>1
<1>2. d * w \in Nat /\ a * w \in Nat /\ b * w \in Nat
  OBVIOUS
<1>3. b * w = a * w + w + d * w
  BY <1>1
<1> QED BY <1>2, <1>3

(***************************************************************************)
(* bisect_right on a table that has boundary 0.                            *)
(***************************************************************************)

\* Every address has an interval: the floor exists.
LEMMA FloorExists ==
  ASSUME NEW S, S \subseteq Nat, 0 \in S, NEW a \in Nat
  PROVE  IsFloor(S, a, Floor(S, a))
<1> DEFINE T == {b \in S : b <= a}
<1>1. T \subseteq 0..a /\ T # {}
  <2>1. ASSUME NEW b \in T PROVE b \in 0..a
    <3>1. b \in Nat /\ b <= a
      OBVIOUS
    <3> QED BY <3>1
  <2>2. 0 \in T
    OBVIOUS
  <2> QED BY <2>1, <2>2
<1>2. PICK f \in T : \A c \in T : c <= f
  <2> HIDE DEF T
  <2> QED BY <1>1, NatMax
<1>3. IsFloor(S, a, f)
  BY <1>2 DEF IsFloor
<1> QED BY <1>3 DEF Floor, IsFloor

\* ... and is unique, so any boundary that is a floor is the one found.
LEMMA FloorUnique ==
  ASSUME NEW S, S \subseteq Nat, NEW a \in Nat, NEW b, IsFloor(S, a, b)
  PROVE  Floor(S, a) = b
<1>1. \A c : IsFloor(S, a, c) => c = b
  BY DEF IsFloor
<1>2. IsFloor(S, a, Floor(S, a))
  BY DEF Floor, IsFloor
<1> QED BY <1>1, <1>2

\* A table with boundaries up to M and entries in E that has boundary 0: what
\* the lists of a mapper satisfy at the moments the lemmas speak of.
Proper(t, M, E) ==
  /\ DOMAIN t \subseteq 0..M /\ 0 \in DOMAIN t
  /\ t = [b \in DOMAIN t |-> t[b]]
  /\ \A b \in DOMAIN t : t[b] \in E

\* A good table's boundaries are naturals.
LEMMA ProperDomain ==
  ASSUME NEW M \in Nat, NEW E, NEW t, Proper(t, M, E)
  PROVE  DOMAIN t \subseteq Nat /\ DOMAIN t \subseteq 0..M /\ 0 \in DOMAIN t
BY DEF Proper

\* The entry of an address is that of its floor, and is of the right type.
LEMMA EntryOfFloor ==
  ASSUME NEW M \in Nat, NEW E, NEW t, Proper(t, M, E), NEW a \in 0..M
  PROVE  /\ IsFloor(DOMAIN t, a, Floor(DOMAIN t, a))
         /\ Entry(t, a) = t[Floor(DOMAIN t, a)]
         /\ Entry(t, a) \in E
<1>1. a \in Nat
  OBVIOUS
<1>2. IsFloor(DOMAIN t, a, Floor(DOMAIN t, a))
  BY <1>1, ProperDomain, FloorExists
<1>3. Entry(t, a) = t[Floor(DOMAIN t, a)]
  BY DEF Entry
<1>4. Floor(DOMAIN t, a) \in DOMAIN t
  BY <1>2 DEF IsFloor
<1> QED BY <1>2, <1>3, <1>4 DEF Proper

\* To know the entry of an address it is enough to exhibit its floor.
LEMMA EntryByFloor ==
  ASSUME NEW M \in Nat, NEW E, NEW t, Proper(t, M, E), NEW a \in 0..M, NEW b, IsFloor(DOMAIN t, a, b)
  PROVE  Entry(t, a) = t[b]
<1>1. a \in Nat
  OBVIOUS
<1>2. Floor(DOMAIN t, a) = b
  BY <1>1, ProperDomain, FloorUnique
<1> QED BY <1>2 DEF Entry

(***************************************************************************)
(* The splice of add_mapping.                                              *)
(***************************************************************************)

\* The spliced lists form a table again.
LEMMA SplicedProper ==
  ASSUME NEW M \in Nat, NEW E, NEW t, Proper(t, M, E), NEW s \in 0..M, NEW e \in 0..M, s <= e,
         NEW x \in E
  PROVE  Proper(Spliced(t, s, e, x), M, E)
<1> DEFINE u == Spliced(t, s, e, x)
<1> DEFINE D == {c \in DOMAIN t : c < s \/ e < c} \cup {s, e}
<1>1. DOMAIN u = D
  BY DEF Spliced
<1>2. D \subseteq 0..M /\ 0 \in D
  BY ProperDomain
<1>3. \A b \in D : u[b] \in E
  <2>1. Entry(t, e) \in E
    BY EntryOfFloor
  <2>2. \A b \in DOMAIN t : t[b] \in E
    BY DEF Proper
  <2> QED BY <2>1, <2>2 DEF Spliced
<1>4. u = [b \in DOMAIN u |-> u[b]]
  BY DEF Spliced
<1> QED BY <1>1, <1>2, <1>3, <1>4 DEF Proper

\* Splicing changes the entries of exactly the addresses of the range.
LEMMA SplicedEntry ==
  ASSUME NEW M \in Nat, NEW E, NEW t, Proper(t, M, E), NEW s \in 0..M, NEW e \in 0..M, s <= e,
         NEW x \in E, NEW a \in 0..M
  PROVE  Entry(Spliced(t, s, e, x), a)
           = IF s <= a /\ a < e THEN x ELSE Entry(t, a)
<1> DEFINE u == Spliced(t, s, e, x)
<1> DEFINE D == {c \in DOMAIN t : c < s \/ e < c} \cup {s, e}
<1> DEFINE f == Floor(DOMAIN t, a)
<1>0. DOMAIN t \subseteq Nat /\ 0 \in DOMAIN t
  BY ProperDomain
<1>1. DOMAIN u = D /\ Proper(u, M, E)
  BY SplicedProper DEF Spliced
<1>2. IsFloor(DOMAIN t, a, f) /\ Entry(t, a) = t[f]
  BY EntryOfFloor
<1>3. s \in Nat /\ e \in Nat /\ a \in Nat /\ f \in Nat
  BY <1>0, <1>2 DEF IsFloor
<1>4. CASE a < s
  <2>1. IsFloor(D, a, f)
    BY <1>0, <1>2, <1>3, <1>4 DEF IsFloor
  <2>2. u[f] = t[f]
    BY <1>2, <1>3, <1>4 DEF Spliced, IsFloor
  <2>3. Entry(u, a) = u[f]
    BY <1>1, <2>1, EntryByFloor
  <2> QED BY <2>2, <2>3, <1>2, <1>3, <1>4
<1>5. CASE s <= a /\ a < e
  <2>1. IsFloor(D, a, s)
    BY <1>0, <1>3, <1>5 DEF IsFloor
  <2>2. u[s] = x
    BY <1>3, <1>5 DEF Spliced
  <2>3. Entry(u, a) = u[s]
    BY <1>1, <2>1, EntryByFloor
  <2> QED BY <2>2, <2>3, <1>5
<1>6. CASE e <= a /\ e < f
  <2>1. IsFloor(D, a, f)
    BY <1>0, <1>2, <1>3, <1>6 DEF IsFloor
  <2>2. u[f] = t[f]
    BY <1>2, <1>3, <1>6 DEF Spliced, IsFloor
  <2>3. Entry(u, a) = u[f]
    BY <1>1, <2>1, EntryByFloor
  <2> QED BY <2>2, <2>3, <1>2, <1>3, <1>6
<1>7. CASE e <= a /\ f <= e
  <2>1. IsFloor(D, a, e)
    BY <1>0, <1>2, <1>3, <1>7 DEF IsFloor
  <2>2. u[e] = Entry(t, e)
    BY DEF Spliced
  <2>3. IsFloor(DOMAIN t, e, f)
    BY <1>0, <1>2, <1>3, <1>7 DEF IsFloor
  <2>4. Entry(t, e) = t[f]
    BY <2>3, EntryByFloor
  <2>5. Entry(u, a) = u[e]
    BY <1>1, <2>1, EntryByFloor
  <2> QED BY <2>2, <2>4, <2>5, <1>2, <1>3, <1>7
<1> QED BY <1>3, <1>4, <1>5, <1>6, <1>7

(***************************************************************************)
(* The cleanup loop of add_mapping.                                        *)
(***************************************************************************)

\* Boundary 0 has no predecessor, so it survives; the rest stays a table.
LEMMA CleanedProper ==
  ASSUME NEW M \in Nat, NEW E, NEW t, Proper(t, M, E)
  PROVE  /\ Proper(Cleaned(t), M, E)
         /\ DOMAIN Cleaned(t) = {c \in DOMAIN t : ~Redundant(t, c)}
         /\ \A b \in DOMAIN Cleaned(t) : Cleaned(t)[b] = t[b]
<1>1. DOMAIN Cleaned(t) = {c \in DOMAIN t : ~Redundant(t, c)}
  BY DEF Cleaned
<1>2. \A b \in DOMAIN Cleaned(t) : Cleaned(t)[b] = t[b]
  BY DEF Cleaned
<1>3. ~Redundant(t, 0)
  BY ProperDomain DEF Redundant
<1>4. Cleaned(t) = [b \in DOMAIN Cleaned(t) |-> Cleaned(t)[b]]
  BY DEF Cleaned
<1> QED BY <1>1, <1>2, <1>3, <1>4 DEF Proper

\* Deleting redundant boundaries changes no address's entry: the first of the
\* run of equal boundaries below an address survives.
LEMMA CleanedEntry ==
  ASSUME NEW M \in Nat, NEW E, NEW t, Proper(t, M, E), NEW a \in 0..M
  PROVE  Entry(Cleaned(t), a) = Entry(t, a)
<1> DEFINE f == Floor(DOMAIN t, a)
<1> DEFINE g == Floor(DOMAIN Cleaned(t), a)
<1> DEFINE T == {b \in DOMAIN t : /\ b <= f
                                  /\ \A c \in DOMAIN t :
                                       b <= c /\ c <= f => t[c] = t[f]}
<1>1. DOMAIN t \subseteq Nat
  BY ProperDomain
<1>2. IsFloor(DOMAIN t, a, f) /\ Entry(t, a) = t[f]
  BY EntryOfFloor
<1>3. f \in T
  BY <1>1, <1>2 DEF IsFloor
<1>4. PICK m \in T : \A b \in T : m <= b
  <2>1. T \subseteq Nat /\ T # {}
    BY <1>1, <1>3
  <2> HIDE DEF T
  <2> QED BY <2>1, NatMin
<1>5. ~Redundant(t, m)
  <2> SUFFICES ASSUME NEW p \in DOMAIN t, p < m,
                      ~ \E c \in DOMAIN t : p < c /\ c < m,
                      t[p] = t[m]
               PROVE  FALSE
    BY DEF Redundant
  <2>1. p \in Nat /\ m \in Nat /\ f \in Nat
    BY <1>1, <1>3
  <2>2. ASSUME NEW c \in DOMAIN t, p <= c, c <= f
        PROVE  t[c] = t[f]
    <3>1. c \in Nat /\ (c = p \/ m <= c)
      BY <1>1, <2>1, <2>2
    <3>2. t[m] = t[f]
      BY <1>1, <2>1
    <3> QED BY <3>1, <3>2, <2>2
  <2>3. p \in T
    BY <2>1, <2>2
  <2> QED BY <1>4, <2>1, <2>3
<1>6. /\ Proper(Cleaned(t), M, E)
      /\ DOMAIN Cleaned(t) = {c \in DOMAIN t : ~Redundant(t, c)}
      /\ \A b \in DOMAIN Cleaned(t) : Cleaned(t)[b] = t[b]
  BY CleanedProper
<1>7. /\ IsFloor(DOMAIN Cleaned(t), a, g)
      /\ Entry(Cleaned(t), a) = Cleaned(t)[g]
  BY <1>6, EntryOfFloor
<1>8. g \in DOMAIN t /\ m <= g /\ g <= f
  <2>1. m \in DOMAIN Cleaned(t)
    BY <1>5, <1>6
  <2>2. m <= a
    BY <1>1, <1>2 DEF IsFloor
  <2>3. m <= g /\ g \in DOMAIN Cleaned(t) /\ g <= a
    BY <1>7, <2>1, <2>2 DEF IsFloor
  <2> QED BY <1>2, <1>6, <2>3 DEF IsFloor
<1>9. t[g] = t[f]
  BY <1>8
<1> QED BY <1>2, <1>6, <1>7, <1>9 DEF IsFloor

\* After the loop no boundary repeats the one before it, although the loop
\* compares each boundary once only.
LEMMA CleanedIrredundant ==
  ASSUME NEW M \in Nat, NEW E, NEW t, Proper(t, M, E), NEW b \in DOMAIN Cleaned(t)
  PROVE  ~Redundant(Cleaned(t), b)
<1> DEFINE u == Cleaned(t)
<1> SUFFICES ASSUME NEW p \in DOMAIN u, p < b,
                    ~ \E c \in DOMAIN u : p < c /\ c < b,
                    u[p] = u[b]
             PROVE  FALSE
  BY DEF Redundant
<1>1. /\ Proper(u, M, E)
      /\ DOMAIN u = {c \in DOMAIN t : ~Redundant(t, c)}
      /\ \A c \in DOMAIN u : u[c] = t[c]
  BY CleanedProper
<1>2. DOMAIN t \subseteq Nat /\ DOMAIN t \subseteq 0..M
  BY ProperDomain
<1>3. p \in DOMAIN t /\ b \in DOMAIN t /\ ~Redundant(t, b)
  BY <1>1
<1>4. PICK q \in DOMAIN t : /\ q < b
                            /\ \A c \in DOMAIN t : c < b => c <= q
  <2> DEFINE T == {c \in DOMAIN t : c < b}
  <2>1. b \in Nat /\ T \subseteq 0..b /\ p \in T
    BY <1>2, <1>3
  <2>2. \E q \in T : \A c \in T : c <= q
    <3> HIDE DEF T
    <3> QED BY <2>1, NatMax
  <2> QED BY <2>2
<1>5. t[q] # t[b]
  <2>1. ~ \E c \in DOMAIN t : q < c /\ c < b
    BY <1>2, <1>4
  <2> QED BY <1>3, <1>4, <2>1 DEF Redundant
<1>6. q \in 0..M
  BY <1>2
<1>7. Entry(t, q) = t[q]
  <2>1. IsFloor(DOMAIN t, q, q)
    BY <1>2 DEF IsFloor
  <2> QED BY <1>6, <2>1, EntryByFloor
<1>8. Entry(u, q) = u[p]
  <2>1. IsFloor(DOMAIN u, q, p)
    <3>1. p <= q
      BY <1>3, <1>4
    <3>2. ASSUME NEW c \in DOMAIN u, c <= q PROVE c <= p
      <4>1. c \in Nat /\ p \in Nat /\ q \in Nat /\ b \in Nat
        BY <1>1, <1>2, <1>3
      <4> QED BY <1>4, <3>2, <4>1
    <3> QED BY <3>1, <3>2 DEF IsFloor
  <2> QED BY <1>1, <1>6, <2>1, EntryByFloor
<1>9. Entry(u, q) = Entry(t, q)
  BY <1>6, CleanedEntry
<1> QED BY <1>1, <1>5, <1>7, <1>8, <1>9

\* add_mapping as a whole: the result is a table without redundancy, and the
\* entries of exactly the addresses of the range are the new one.
LEMMA MappedEntry ==
  ASSUME NEW M \in Nat, NEW E, NEW t, Proper(t, M, E), NEW s \in 0..M, NEW e \in 0..M, s <= e,
         NEW i, NEW o, [index |-> i, offset |-> o] \in E
  PROVE  /\ Proper(Mapped(t, s, e, i, o), M, E)
         /\ \A b \in DOMAIN Mapped(t, s, e, i, o) :
              ~Redundant(Mapped(t, s, e, i, o), b)
         /\ \A a \in 0..M : Entry(Mapped(t, s, e, i, o), a)
              = IF s <= a /\ a < e THEN [index |-> i, offset |-> o]
                                   ELSE Entry(t, a)
<1> DEFINE x == [index |-> i, offset |-> o]
<1> DEFINE u == Spliced(t, s, e, x)
<1>1. Proper(u, M, E)
  BY SplicedProper
<1>2. Mapped(t, s, e, i, o) = Cleaned(u)
  BY DEF Mapped
<1>3. Proper(Cleaned(u), M, E) /\ \A b \in DOMAIN Cleaned(u) : ~Redundant(Cleaned(u), b)
  <2> HIDE DEF u
  <2> QED BY <1>1, CleanedProper, CleanedIrredundant
<1>4. ASSUME NEW a \in 0..M
      PROVE  Entry(Cleaned(u), a) = IF s <= a /\ a < e THEN x ELSE Entry(t, a)
  <2>1. Entry(u, a) = IF s <= a /\ a < e THEN x ELSE Entry(t, a)
    BY SplicedEntry
  <2>2. Entry(Cleaned(u), a) = Entry(u, a)
    BY <1>1, CleanedEntry
  <2> QED BY <2>1, <2>2
<1> QED BY <1>2, <1>3, <1>4

(***************************************************************************)
(* Runs of a table.                                                        *)
(***************************************************************************)

\* The addresses up to M that have entry x are exactly s..e - 1.
Run(t, M, x, s, e) == \A a \in 0..M : Entry(t, a) = x <=> s <= a /\ a < e

Normal(t, M, E) == Proper(t, M, E) /\ \A b \in DOMAIN t : ~Redundant(t, b)

\* Floor by its definition, for the tables of this module.
LEMMA FloorFacts ==
  ASSUME NEW M \in Nat, NEW E, NEW t, Proper(t, M, E), NEW a \in 0..M
  PROVE  /\ Floor(DOMAIN t, a) \in DOMAIN t
         /\ Floor(DOMAIN t, a) \in 0..M
         /\ Floor(DOMAIN t, a) <= a
         /\ \A c \in DOMAIN t : c <= a => c <= Floor(DOMAIN t, a)
         /\ Entry(t, a) = t[Floor(DOMAIN t, a)]
BY EntryOfFloor, ProperDomain DEF IsFloor

\* A boundary's entry is its own.
LEMMA EntryAtBoundary ==
  ASSUME NEW M \in Nat, NEW E, NEW t, Proper(t, M, E), NEW b \in DOMAIN t
  PROVE  b \in 0..M /\ Entry(t, b) = t[b]
<1>1. b \in 0..M
  BY ProperDomain
<1>2. IsFloor(DOMAIN t, b, b)
  BY <1>1 DEF IsFloor
<1> QED BY <1>1, <1>2, EntryByFloor

\* Where the entry changes there is a boundary.
LEMMA ChangeIsBoundary ==
  ASSUME NEW M \in Nat, NEW E, NEW t, Proper(t, M, E), NEW a \in 1..M,
         Entry(t, a) # Entry(t, a - 1)
  PROVE  a \in DOMAIN t
<1>1. a \in 0..M /\ a - 1 \in 0..M
  OBVIOUS
<1> DEFINE f == Floor(DOMAIN t, a)
<1>2. f \in DOMAIN t /\ f \in 0..M /\ f <= a /\ \A c \in DOMAIN t : c <= a => c <= f
  BY <1>1, FloorFacts
<1> HIDE DEF f
<1>3. CASE f = a
  BY <1>2, <1>3
<1>4. CASE f # a
  <2>1. f <= a - 1
    BY <1>2, <1>4
  <2>2. \A c \in DOMAIN t : c <= a - 1 => c <= f
    BY <1>2, ProperDomain
  <2>3. IsFloor(DOMAIN t, a - 1, f)
    BY <1>2, <2>1, <2>2 DEF IsFloor
  <2>4. IsFloor(DOMAIN t, a, f)
    BY <1>2 DEF IsFloor
  <2>5. Entry(t, a - 1) = t[f]
    BY <1>1, <2>3, EntryByFloor
  <2>6. Entry(t, a) = t[f]
    BY <1>1, <2>4, EntryByFloor
  <2> QED BY <2>5, <2>6
<1> QED BY <1>3, <1>4

\* At a boundary of a normal table the entry changes.
LEMMA BoundaryIsChange ==
  ASSUME NEW M \in Nat, NEW E, NEW t, Normal(t, M, E), NEW b \in DOMAIN t, b > 0
  PROVE  Entry(t, b) # Entry(t, b - 1)
<1>0. Proper(t, M, E) /\ ~Redundant(t, b)
  BY DEF Normal
<1>1. b \in 1..M /\ b - 1 \in 0..M /\ b \in 0..M
  <2>1. b \in 0..M
    BY <1>0, EntryAtBoundary
  <2> QED BY <2>1
<1> DEFINE p == Floor(DOMAIN t, b - 1)
<1>2. /\ p \in DOMAIN t /\ p \in 0..M /\ p <= b - 1
      /\ \A c \in DOMAIN t : c <= b - 1 => c <= p
      /\ Entry(t, b - 1) = t[p]
  BY <1>0, <1>1, FloorFacts
<1> HIDE DEF p
<1>3. ~ \E c \in DOMAIN t : p < c /\ c < b
  <2> SUFFICES ASSUME NEW c \in DOMAIN t, p < c, c < b PROVE FALSE
    OBVIOUS
  <2>1. c \in 0..M
    BY <1>0, EntryAtBoundary
  <2>2. c <= b - 1
    BY <2>1, <1>1
  <2> QED BY <2>1, <2>2, <1>2
<1>4. p < b
  BY <1>1, <1>2
<1>5. t[p] # t[b]
  BY <1>0, <1>2, <1>3, <1>4 DEF Redundant
<1>6. Entry(t, b) = t[b]
  BY <1>0, EntryAtBoundary
<1> QED BY <1>2, <1>5, <1>6

\* The addresses s..e - 1 have entry x, and s - 1 has not.
RunFrom(t, x, s, e) == /\ \A a \in s..(e - 1) : Entry(t, a) = x
                       /\ s > 0 => Entry(t, s - 1) # x

\* Where a run begins there is a boundary, the only one in it.
LEMMA RunFloor ==
  ASSUME NEW M \in Nat, NEW E, NEW t, Normal(t, M, E), NEW x,
         NEW s \in Nat, NEW e \in Nat, e - 1 <= M,
         RunFrom(t, x, s, e), NEW a \in s..(e - 1)
  PROVE  s \in DOMAIN t /\ Floor(DOMAIN t, a) = s
<1>0. Proper(t, M, E) /\ 0 \in DOMAIN t /\ DOMAIN t \subseteq 0..M
  BY ProperDomain DEF Normal
<1>1. s \in 0..M /\ s < e /\ a \in 0..M /\ s <= a /\ a < e
  OBVIOUS
<1>2. s \in DOMAIN t
  <2>1. CASE s = 0
    BY <2>1, <1>0
  <2>2. CASE s # 0
    <3>1. s \in 1..M /\ s > 0 /\ s \in s..(e - 1)
      BY <2>2, <1>1
    <3>2. Entry(t, s) = x /\ Entry(t, s - 1) # x
      BY <3>1 DEF RunFrom
    <3> QED BY <3>1, <3>2, <1>0, ChangeIsBoundary
  <2> QED BY <2>1, <2>2
<1>3. ASSUME NEW c \in DOMAIN t, c <= a, ~(c <= s)
      PROVE  FALSE
  <2>1. c > 0 /\ c \in s..(e - 1) /\ c - 1 \in s..(e - 1)
    BY <1>0, <1>1, <1>3
  <2>2. Entry(t, c) = x /\ Entry(t, c - 1) = x
    BY <2>1 DEF RunFrom
  <2> QED BY <2>1, <2>2, BoundaryIsChange
<1>4. IsFloor(DOMAIN t, a, s)
  BY <1>1, <1>2, <1>3 DEF IsFloor
<1>5. DOMAIN t \subseteq Nat /\ a \in Nat
  BY <1>0, <1>1
<1> QED BY <1>2, <1>4, <1>5, FloorUnique

\* ... also when the run is given by all its addresses.
LEMMA RunStart ==
  ASSUME NEW M \in Nat, NEW E, NEW t, Normal(t, M, E), NEW x,
         NEW s \in Nat, NEW e \in 0..M, Run(t, M, x, s, e), NEW a \in s..(e - 1)
  PROVE  s \in DOMAIN t /\ Floor(DOMAIN t, a) = s
<1>1. \A b \in s..(e - 1) : Entry(t, b) = x
  <2> TAKE b \in s..(e - 1)
  <2>1. b \in 0..M /\ s <= b /\ b < e
    OBVIOUS
  <2> QED BY <2>1 DEF Run
<1>2. s > 0 => Entry(t, s - 1) # x
  <2>1. s > 0 => s - 1 \in 0..M /\ ~(s <= s - 1)
    OBVIOUS
  <2> QED BY <2>1 DEF Run
<1>3. e \in Nat /\ e - 1 <= M
  OBVIOUS
<1>4. RunFrom(t, x, s, e)
  BY <1>1, <1>2 DEF RunFrom
<1> QED BY <1>3, <1>4, RunFloor

\* get_end_of_range at the start of a run is its end.
LEMMA RunEnd ==
  ASSUME NEW M \in Nat, NEW E, NEW t, Normal(t, M, E), NEW x,
         NEW s \in Nat, NEW e \in 0..M, s < e, Run(t, M, x, s, e)
  PROVE  EndOfRange(t, s) = e
<1>0. Proper(t, M, E) /\ DOMAIN t \subseteq 0..M
  BY ProperDomain DEF Normal
<1>1. e \in DOMAIN t
  <2>1. e \in 1..M /\ e - 1 \in 0..M /\ s <= e - 1 /\ e - 1 < e /\ ~(e < e)
    OBVIOUS
  <2>2. Entry(t, e) # x /\ Entry(t, e - 1) = x
    BY <2>1 DEF Run
  <2> QED BY <2>1, <2>2, <1>0, ChangeIsBoundary
<1>2. ASSUME NEW c \in DOMAIN t, s < c
      PROVE  e <= c
  <2> SUFFICES ASSUME c < e PROVE FALSE
    BY <1>0
  <2>1. c - 1 \in s..(e - 1) /\ c \in s..(e - 1) /\ c \in 0..M
    BY <1>0, <1>2
  <2>2. Floor(DOMAIN t, c) = s
    BY <2>1, RunStart
  <2>3. c <= Floor(DOMAIN t, c)
    BY <2>1, <1>0, FloorFacts
  <2> QED BY <2>2, <2>3, <1>2, <2>1
<1>3. \A b : (b \in DOMAIN t /\ s < b /\ \A c \in DOMAIN t : s < c => b <= c) => b = e
  BY <1>0, <1>1, <1>2
<1> QED BY <1>1, <1>2, <1>3 DEF EndOfRange

\* The next boundary behind an address, if there is one.
LEMMA EndFacts ==
  ASSUME NEW M \in Nat, NEW E, NEW t, Proper(t, M, E), NEW s \in 0..M, HasEnd(t, s)
  PROVE  /\ EndOfRange(t, s) \in DOMAIN t /\ EndOfRange(t, s) \in 0..M /\ s < EndOfRange(t, s)
         /\ \A c \in DOMAIN t : s < c => EndOfRange(t, s) <= c
<1> DEFINE T == {c \in DOMAIN t : s < c}
<1>0. DOMAIN t \subseteq 0..M
  BY ProperDomain
<1>1. T \subseteq Nat /\ T # {}
  BY <1>0 DEF HasEnd
<1>2. PICK b \in T : \A c \in T : b <= c
  <2> HIDE DEF T
  <2> QED BY <1>1, NatMin
<1>3. b \in DOMAIN t /\ s < b /\ \A c \in DOMAIN t : s < c => b <= c
  BY <1>2
<1>4. /\ EndOfRange(t, s) \in DOMAIN t /\ s < EndOfRange(t, s)
      /\ \A c \in DOMAIN t : s < c => EndOfRange(t, s) <= c
  <2> HIDE DEF T
  <2> QED BY <1>3 DEF EndOfRange
<1> QED BY <1>0, <1>4

\* get_end_of_range: the same entry up to there, another one from there on.
LEMMA EndMeans ==
  ASSUME NEW M \in Nat, NEW E, NEW t, Normal(t, M, E), NEW s \in 0..M, HasEnd(t, s)
  PROVE  /\ EndOfRange(t, s) \in 0..M /\ s < EndOfRange(t, s)
         /\ \A a \in s..(EndOfRange(t, s) - 1) : Entry(t, a) = Entry(t, s)
         /\ Entry(t, EndOfRange(t, s)) # Entry(t, s)
<1> DEFINE n == EndOfRange(t, s)
<1> DEFINE f == Floor(DOMAIN t, s)
<1>0. Proper(t, M, E) /\ DOMAIN t \subseteq 0..M
  BY ProperDomain DEF Normal
<1>1. n \in DOMAIN t /\ n \in 0..M /\ s < n /\ \A c \in DOMAIN t : s < c => n <= c
  BY <1>0, EndFacts
<1>2. f \in DOMAIN t /\ f <= s /\ (\A c \in DOMAIN t : c <= s => c <= f) /\ Entry(t, s) = t[f]
  BY <1>0, FloorFacts
<1> HIDE DEF n, f
<1>3. ASSUME NEW a \in s..(n - 1) PROVE Entry(t, a) = Entry(t, s)
  <2>1. a \in 0..M /\ s <= a /\ a < n
    BY <1>1
  <2>2. ASSUME NEW c \in DOMAIN t, c <= a PROVE c <= f
    <3>1. c <= s
      BY <1>0, <1>1, <2>1, <2>2
    <3> QED BY <3>1, <1>2
  <2>3. f <= a
    BY <1>0, <1>2, <2>1
  <2>4. IsFloor(DOMAIN t, a, f)
    BY <1>2, <2>2, <2>3 DEF IsFloor
  <2> QED BY <1>0, <1>2, <2>1, <2>4, EntryByFloor
<1>4. Entry(t, n) # Entry(t, s)
  <2>1. n > 0 /\ n - 1 \in s..(n - 1)
    BY <1>1
  <2>2. Entry(t, n) # Entry(t, n - 1)
    BY <1>1, <2>1, BoundaryIsChange
  <2> QED BY <1>3, <2>1, <2>2
<1> QED BY <1>1, <1>3, <1>4 DEF n

\* Normal tables that agree up to an address have the same floor there.
LEMMA SameFloor ==
  ASSUME NEW M \in Nat, NEW E, NEW t, Normal(t, M, E), NEW u, Normal(u, M, E), NEW a \in 0..M,
         \A b \in 0..a : Entry(t, b) = Entry(u, b)
  PROVE  Floor(DOMAIN t, a) = Floor(DOMAIN u, a)
<1>0. Proper(t, M, E) /\ DOMAIN t \subseteq 0..M /\ Proper(u, M, E) /\ DOMAIN u \subseteq 0..M
  BY ProperDomain DEF Normal
<1>1. 0 \in DOMAIN t /\ 0 \in DOMAIN u
  BY <1>0, ProperDomain
<1>2. ASSUME NEW c \in 1..a PROVE c \in DOMAIN t <=> c \in DOMAIN u
  <2>1. c \in 1..M /\ c \in 0..a /\ c - 1 \in 0..a /\ c > 0
    OBVIOUS
  <2>2. Entry(t, c) = Entry(u, c) /\ Entry(t, c - 1) = Entry(u, c - 1)
    BY <2>1
  <2>3. c \in DOMAIN t <=> Entry(t, c) # Entry(t, c - 1)
    BY <2>1, <1>0, ChangeIsBoundary, BoundaryIsChange
  <2>4. c \in DOMAIN u <=> Entry(u, c) # Entry(u, c - 1)
    BY <2>1, <1>0, ChangeIsBoundary, BoundaryIsChange
  <2> QED BY <2>2, <2>3, <2>4
<1> DEFINE f == Floor(DOMAIN t, a)
<1>3. f \in DOMAIN t /\ f \in 0..M /\ f <= a /\ \A c \in DOMAIN t : c <= a => c <= f
  BY <1>0, FloorFacts
<1> HIDE DEF f
<1>4. \A c \in 0..a : c \in DOMAIN t <=> c \in DOMAIN u
  <2> TAKE c \in 0..a
  <2>1. c = 0 \/ c \in 1..a
    OBVIOUS
  <2> QED BY <2>1, <1>1, <1>2
<1>5. IsFloor(DOMAIN u, a, f)
  <2>1. f \in DOMAIN u
    BY <1>3, <1>4
  <2>2. ASSUME NEW c \in DOMAIN u, c <= a PROVE c <= f
    <3>1. c \in 0..a
      BY <1>0, <2>2
    <3> QED BY <3>1, <1>3, <1>4, <2>2
  <2> QED BY <1>3, <2>1, <2>2 DEF IsFloor
<1>6. DOMAIN u \subseteq Nat /\ a \in Nat
  BY <1>0
<1>7. Floor(DOMAIN u, a) = f
  BY <1>5, <1>6, FloorUnique
<1> QED BY <1>7 DEF f

\* contains_mapping looks at boundaries and means addresses.
LEMMA ContainsMeans ==
  ASSUME NEW M \in Nat, NEW E, NEW t, Proper(t, M, E),
         NEW s \in 0..M, NEW e \in 0..M, s < e
  PROVE  ContainsMapping(t, s, e) <=> \E a \in s..(e - 1) : IndexAt(t, a) # Unmapped
<1>0. DOMAIN t \subseteq 0..M
  BY ProperDomain
<1> DEFINE f == Floor(DOMAIN t, s)
<1>1. f \in DOMAIN t /\ f <= s /\ (\A c \in DOMAIN t : c <= s => c <= f) /\ Entry(t, s) = t[f]
  BY FloorFacts
<1>2. ASSUME NEW b \in DOMAIN t, b >= f, b < e, t[b].index # Unmapped
      PROVE  \E a \in s..(e - 1) : IndexAt(t, a) # Unmapped
  <2>1. CASE b <= s
    <3>1. b = f
      BY <2>1, <1>0, <1>1, <1>2
    <3>2. IndexAt(t, s) # Unmapped
      BY <3>1, <1>1, <1>2 DEF IndexAt
    <3> QED BY <3>2
  <2>2. CASE ~(b <= s)
    <3>1. b \in s..(e - 1)
      BY <2>2, <1>0, <1>2
    <3>2. IndexAt(t, b) # Unmapped
      BY <1>2, EntryAtBoundary DEF IndexAt
    <3> QED BY <3>1, <3>2
  <2> QED BY <2>1, <2>2
<1>3. ASSUME NEW a \in s..(e - 1), IndexAt(t, a) # Unmapped
      PROVE  \E b \in DOMAIN t : b >= f /\ b < e /\ t[b].index # Unmapped
  <2> DEFINE g == Floor(DOMAIN t, a)
  <2>1. a \in 0..M /\ s <= a /\ a < e
    OBVIOUS
  <2>2. g \in DOMAIN t /\ g <= a /\ (\A c \in DOMAIN t : c <= a => c <= g) /\ Entry(t, a) = t[g]
    BY <2>1, FloorFacts
  <2> HIDE DEF g, f
  <2>3. f <= a
    BY <1>0, <1>1, <2>1
  <2>4. g >= f /\ g < e
    BY <1>0, <1>1, <2>1, <2>2, <2>3
  <2>5. t[g].index # Unmapped
    BY <1>3, <2>2 DEF IndexAt
  <2> QED BY <2>2, <2>4, <2>5
<1> QED BY <1>2, <1>3 DEF ContainsMapping
=============================================================================
