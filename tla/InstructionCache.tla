-------------------------- MODULE InstructionCache --------------------------
(* lib/cores/components/instruction_cache.py: programs (Python lists of    *)
(* instructions) in slots, and an address mapper that says which slot and  *)
(* which position an address of the cache stands for.                      *)
(*                                                                         *)
(* A program is a name for a Python list; all that is kept of its contents *)
(* is its length and one jump, its last instruction, whose target          *)
(* load_prog moves IN the list it is given.  Callers may load at any       *)
(* address, load a list again, and drop by any address.  What then goes    *)
(* wrong is kept in two history variables: the addresses whose fetch finds *)
(* another instruction of their program, because a load split it (shifted),*)
(* and those whose fetch may find none at all, because a drop freed their  *)
(* slot and left them mapped to it (dangling).                             *)
EXTENDS IntervalTable, Sequences

CONSTANTS Size,       \* instructions the cache holds
          Progs,      \* the lists callers load
          Length,     \* Length[p]: instructions in p
          Target,     \* Target[p]: where p jumps to, counted from its start
          MaxSlots,   \* bound: slots in _mem
          MaxLoads    \* bound: loads of one list

ASSUME SizeAssumption == Size \in Nat \ {0} /\ MaxSlots \in Nat /\ MaxLoads \in Nat
ASSUME LengthAssumption ==
  /\ Length \in [Progs -> Nat \ {0}] /\ Target \in [Progs -> Nat]
  /\ \A p \in Progs : Target[p] < Length[p]

Addr == 0..(Size - 1)
Free == "free"        \* a slot that holds the empty list
ASSUME FreeAssumption == Free \notin Progs  \* no program is empty

VARIABLES table,      \* _am
          slots,      \* _mem
          last,       \* last_program_addr
          target,     \* addr of the jump in each list, as it is now
          overwritten,\* what the last load_prog returned
          loads,      \* history: how often each list was loaded
          shifted,    \* history: addresses behind a load into their program
          dangling    \* history: addresses left to a slot that was freed

vars == <<table, slots, last, target, overwritten, loads, shifted, dangling>>

Init ==
  /\ table = EmptyTable /\ slots = <<>> /\ last = 0
  /\ target = Target
  /\ overwritten = FALSE
  /\ loads = [p \in Progs |-> 0]
  /\ shifted = {} /\ dangling = {}

-----------------------------------------------------------------------------
IsMapped(a) == IndexAt(table, a) # Unmapped
ProgAt(a)   == slots[IndexAt(table, a) + 1]

\* fetch: past the size it raises; [] there is no element of a list that is
\* too short, which Python answers with an IndexError.
Fetchable(pc) == pc <= Size /\ (IsMapped(pc) => ProgAt(pc) # Free
                                    /\ OffsetAt(table, pc) < Length[ProgAt(pc)])
Fetched(pc) == IF IsMapped(pc) THEN <<ProgAt(pc), OffsetAt(table, pc)>> ELSE <<>>

Live(p)  == \E a \in Addr : IsMapped(a) /\ ProgAt(a) = p
Damaged  == shifted \cup dangling

TypeOK ==
  /\ DOMAIN table \subseteq 0..Size
  /\ \A b \in DOMAIN table : table[b].index \in {Unmapped} \cup 0..(Len(slots) - 1)
  /\ slots \in Seq(Progs \cup {Free}) /\ Len(slots) <= MaxSlots
  /\ last \in 0..Size
  /\ target \in [Progs -> Nat] /\ loads \in [Progs -> Nat]
  /\ \A p \in Progs : loads[p] = 1 => target[p] \in Addr
  /\ overwritten \in BOOLEAN
  /\ shifted \subseteq Addr /\ dangling \subseteq Addr

\* The linear scan for a free slot does not stop at the first it finds.
LastFree == CHOOSE k \in DOMAIN slots :
              slots[k] = Free /\ \A j \in DOMAIN slots : slots[j] = Free => j <= k
HasFree == \E k \in DOMAIN slots : slots[k] = Free

\* Mutant of Slot: a slot that may be in use.
SlotFirst == IF slots # <<>> THEN 1 ELSE Len(slots) + 1
Slot == IF HasFree THEN LastFree ELSE Len(slots) + 1

\* Mutants of Moved: without the start of the program; with it twice.
MovedNot(p, start)   == target
MovedTwice(p, start) == [target EXCEPT ![p] = @ + 2 * start]

\* load_prog adds start to the jump of the list it was given.
Moved(p, start) == [target EXCEPT ![p] = @ + start]

\* The addresses of a range, and what is left of a program behind it: add_mapping
\* gives it the position stored for the interval it was part of, the first.
Stretch(start, end) == start..(end - 1)
Rest(end) == {a \in Addr : a >= end /\ IsMapped(a) /\ Floor(DOMAIN table, a) < end}

\* Is the range merged with what is left, just before it, of the dropped program
\* whose slot was reused?  It is then addressed from where that begins.
RunsOn(start) == Floor(DOMAIN table', start) # start

\* load_prog raises when the program does not fit, before it changes anything.
LoadProg(p, start) ==
  LET end == start + Length[p] IN
  /\ loads[p] < MaxLoads
  /\ end <= Size
  /\ Slot <= MaxSlots
  /\ target' = Moved(p, start)
  /\ slots' = IF HasFree THEN [slots EXCEPT ![Slot] = p]
              ELSE [k \in 1..Slot |-> IF k = Slot THEN p ELSE slots[k]]
  /\ overwritten' = ContainsMapping(table, start, end)
  /\ table' = Mapped(table, start, end, Slot - 1, 0)
  /\ last' = end
  /\ loads' = [loads EXCEPT ![p] = @ + 1]
  /\ shifted' = (shifted \ Stretch(start, end)) \cup Rest(end)
  /\ dangling' = (dangling \ Stretch(start, end))
                   \cup {a \in Stretch(start, end) : RunsOn(start)}

\* A caller generates p anew, as the cores do for every command: the list so
\* named until now can no longer be fetched from.
Generate(p) ==
  /\ loads[p] > 0 /\ ~Live(p)
  /\ target' = [target EXCEPT ![p] = Target[p]]
  /\ loads' = [loads EXCEPT ![p] = 0]
  /\ UNCHANGED <<table, slots, last, overwritten, shifted, dangling>>

\* Mutant of DropProg: the last address of the interval stays.
DropProgShort(a) ==
  LET end == EndOfRange(table, a) - 1 IN
  /\ IsMapped(a)
  /\ slots' = [slots EXCEPT ![IndexAt(table, a) + 1] = Free]
  /\ table' = Mapped(table, a, end, Unmapped, 0)
  /\ shifted' = shifted \ Stretch(a, end)
  /\ dangling' = {b \in Addr \ Stretch(a, end) :
                    b \in dangling \/ IndexAt(table, b) = IndexAt(table, a)}
  /\ UNCHANGED <<last, target, overwritten, loads>>

\* drop_prog_starting_at: the slot is freed, but unmapped is only what follows
\* the given address in its interval.
DropProg(a) ==
  LET end == EndOfRange(table, a) IN
  /\ IsMapped(a)
  /\ slots' = [slots EXCEPT ![IndexAt(table, a) + 1] = Free]
  /\ table' = Mapped(table, a, end, Unmapped, 0)
  /\ shifted' = shifted \ Stretch(a, end)
  /\ dangling' = {b \in Addr \ Stretch(a, end) :
                    b \in dangling \/ IndexAt(table, b) = IndexAt(table, a)}
  /\ UNCHANGED <<last, target, overwritten, loads>>

Next ==
  \/ \E p \in Progs : LoadProg(p, last) \/ \E start \in Addr : LoadProg(p, start)
  \/ \E p \in Progs : Generate(p)
  \/ \E a \in Addr : DropProg(a)

Spec == Init /\ [][Next]_vars

-----------------------------------------------------------------------------
(* Properties *)

\* Whatever was loaded, loaded into and dropped, a fetch fails only where a drop
\* left part of a program mapped, or where a program was loaded right behind such
\* a part into its slot: any other address that is mapped leads to a slot in use
\* and inside its program, although slots are reused and intervals split.
FetchDefined == \A pc \in (0..Size) \ dangling : Fetchable(pc)

\* instruction_cache.py:44 "offset all of the jump instructions by the address
\* to which the base address is mapped": where neither a load nor a drop has
\* damaged it, the jump of a list that was loaded once leads to the instruction
\* of the SAME copy it was written for.
JumpsStayInside ==
  \A a \in Addr \ Damaged :
    IsMapped(a) /\ loads[ProgAt(a)] = 1
      /\ OffsetAt(table, a) = Length[ProgAt(a)] - 1 =>
        target[ProgAt(a)] = (a - OffsetAt(table, a)) + Target[ProgAt(a)]

\* What the cores do damages nothing: a load that covers loaded programs
\* entirely or not at all, and a drop by the address a program was loaded at.
Covers(start, end) ==
  \A k \in 0..(Len(slots) - 1) :
    LET range == {a \in Addr : IndexAt(table, a) = k}
    IN  range \cap Stretch(start, end) \in {{}, range}
CareIsEnough ==
  [][/\ Damaged = {}
     /\ \/ \E p \in Progs, start \in Addr :
             LoadProg(p, start) /\ Covers(start, start + Length[p])
        \/ \E a \in Addr : DropProg(a) /\ OffsetAt(table, a) = 0
     => Damaged' = {}]_vars

\* Slots that are reused, ranges that merge and split: the cache holds what an
\* address-by-address memory of programs would, except where that says what is
\* damaged, and says truly whether a load has replaced something.
PMem == INSTANCE ProgramMemory
          WITH content <- [a \in Addr |-> IF a \in Damaged THEN <<"damaged">>
                                                           ELSE Fetched(a)]
ImplementsProgramMemory == PMem!Spec
=============================================================================
