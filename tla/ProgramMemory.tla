---------------------------- MODULE ProgramMemory ----------------------------
(* What an instruction cache does, with no slots and no intervals: an      *)
(* address holds one instruction of one program, none, or one nobody can   *)
(* rely on; a load puts a program at consecutive addresses, a drop takes   *)
(* it away from the given address on.                                      *)
EXTENDS Integers

CONSTANTS Size,        \* addresses of the cache
          Progs,       \* programs
          Length       \* Length[p]: instructions in program p

Addr == 0..(Size - 1)
Nothing == <<>>
Damaged == <<"damaged">>

VARIABLES content,     \* content[a]: <<program, position in it>>, or one of these
          overwritten  \* did the last load replace an instruction?

vars == <<content, overwritten>>

Init == /\ content = [a \in Addr |-> Nothing]
        /\ overwritten = FALSE

\* Instructions of the same copy of a program: equally far from its start.
Intact(a) == content[a] \notin {Nothing, Damaged}
SameCopy(a, b) == /\ Intact(a) /\ Intact(b)
                  /\ content[a][1] = content[b][1]
                  /\ a - content[a][2] = b - content[b][2]

\* A load into the middle of a program damages what follows it there.  Behind
\* something damaged it may be damaged itself.
Load(p, start) ==
  LET end == start + Length[p]
      Within(a) == start <= a /\ a < end
      Behind(a) == end <= a /\ \E b \in Addr : Within(b) /\ SameCopy(a, b)
  IN  /\ end <= Size
      /\ \E own \in {[a \in Addr |-> <<p, a - start>>], [a \in Addr |-> Damaged]} :
           /\ own[start] = Damaged => start > 0 /\ content[start - 1] = Damaged
           /\ content' = [a \in Addr |-> IF Within(a) THEN own[a]
                                         ELSE IF Behind(a) THEN Damaged
                                         ELSE content[a]]
      /\ overwritten' = \E a \in Addr : Within(a) /\ content[a] # Nothing

\* A drop by an inner address damages the instructions before it (by the
\* docstring, instruction_cache.py:73, they would go).  What was damaged before
\* may go, too; no other program is touched.
Lost(a) == content'[a] \in {Nothing, Damaged}
Drop(a) ==
  /\ Intact(a)
  /\ content' = [b \in Addr |-> content'[b]]
  /\ \A b \in Addr :
       IF SameCopy(a, b) THEN content'[b] = IF b < a THEN Damaged ELSE Nothing
       ELSE IF content[b] = Damaged THEN Lost(b)
       ELSE content'[b] = content[b]
  /\ UNCHANGED overwritten

\* A drop by a damaged address may cost one program, which it belonged to.
DropDamaged(a) ==
  /\ content[a] = Damaged
  /\ content' = [b \in Addr |-> content'[b]] /\ content'[a] = Nothing
  /\ \E c \in Addr : \A b \in Addr :
       IF content[b] = Damaged \/ SameCopy(b, c) THEN Lost(b)
                                               ELSE content'[b] = content[b]
  /\ UNCHANGED overwritten

Next == \/ \E p \in Progs, start \in Addr : Load(p, start)
        \/ \E a \in Addr : Drop(a) \/ DropDamaged(a)

Spec == Init /\ [][Next]_vars
=============================================================================
