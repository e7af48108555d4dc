----------------------------- MODULE IntervalMap -----------------------------
(* What an AddressMapper promises about object indices, with no intervals: *)
(* every address has one owner, a mapping changes the owner of exactly the *)
(* addresses of its range, and a lookup answers with the current owner.    *)
EXTENDS Integers

CONSTANTS MaxAddr,    \* largest address (and boundary) in use
          Index       \* what add_mapping may map: object ids and -2

Addr == 0..MaxAddr
Unowned == -1

VARIABLES owner,      \* owner[a]: what address a is mapped to
          answer      \* index the last lookup returned

vars == <<owner, answer>>

Init == /\ owner = [a \in Addr |-> Unowned]
        /\ answer = Unowned

Map(start, end, index) ==
  /\ owner' = [a \in Addr |-> IF start <= a /\ a < end THEN index ELSE owner[a]]
  /\ UNCHANGED answer

Lookup(a) == answer' = owner[a] /\ UNCHANGED owner

Next == \/ \E s, e \in Addr, i \in Index \cup {Unowned} : s <= e /\ Map(s, e, i)
        \/ \E a \in Addr : Lookup(a)

Spec == Init /\ [][Next]_vars
=============================================================================
