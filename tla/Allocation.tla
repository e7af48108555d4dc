------------------------------ MODULE Allocation ------------------------------
(* lib/address/allocation.py: how pim_device_place_data spreads an object  *)
(* over the banks (ROUND_ROBIN_MAX_WIDTH_1B_1C).  Lengths are in chunks of *)
(* the GDL's width; the last chunk counts even if the object ends in it.   *)
EXTENDS IntervalTable

CONSTANTS NumCores,   \* cores, and banks: one each
          BankSize    \* chunks a bank holds

ASSUME CoresAssumption == NumCores \in Nat \ {0} /\ BankSize \in Nat \ {0}

Core == 0..(NumCores - 1)
Padding == -2         \* allocated, but not used

\* local_to_canonical_addr: the bits of the address by spatial hierarchy.
Canonical(core, a) == core * BankSize + a

\* Mutant of ChunksPerCore: rounded down.
ChunksPerCoreFloor(n) == n \div NumCores
ChunksPerCore(n) == (n + NumCores - 1) \div NumCores

\* cumulative_offset when it is core k's turn, and the length of its share.
Lesser(x, y) == IF x < y THEN x ELSE y
Before(n, k) == Lesser(n, k * ChunksPerCore(n))
Share(n, k)  == Lesser(n - Before(n, k), ChunksPerCore(n))

\* The loop body: the share of core k, then padding up to what all cores get.
MapShare(t, obj, n, addr, k) ==
  LET start == Canonical(k, addr)
      used  == start + Share(n, k)
      shared == Mapped(t, start, used, obj, Before(n, k))
  IN  IF Share(n, k) < ChunksPerCore(n)
        THEN Mapped(shared, used, start + ChunksPerCore(n), Padding, 0)
        ELSE shared

\* The table after the loop over the cores; the range the object then has in
\* the local address space of every core is addr..addr + ChunksPerCore(n) - 1.
PlaceData(t, obj, n, addr) ==
  LET after[k \in 0..NumCores] ==
        IF k = 0 THEN t ELSE MapShare(after[k - 1], obj, n, addr, k - 1)
  IN  after[NumCores]
=============================================================================
