------------------------------ MODULE MemSystem ------------------------------
(* lib/memsys.py: timed access to the banks of a PIM device.  get() and    *)
(* set() hand a transaction to DRAMsim3 and return a Box; when DRAMsim3    *)
(* has served the transaction its callback appends the bank-local address  *)
(* to the bank's completion log (nd_log); the holder of the Box polls it,  *)
(* and a poll that finds its address at the head of the log makes it READY.*)
(* A set refers to the Box its caller passed, the item, which the caller    *)
(* may work on in place while the write is under way.                      *)
(* DRAMsim3 is external: per bank it serves transactions in order, across  *)
(* banks in any order, and refuses one when the bank's queue is full.      *)
EXTENDS IntervalTable, Sequences, FiniteSets

CONSTANTS NumBanks, BankSize,   \* geometry: BankSize local addresses a bank
          ObjectIds, ObjectLen, \* stored_data_structures, chunks in each
          Values,               \* contents of a GDL-width chunk
          Items,                \* Boxes of callers whose data are written
          Empty,                \* what a read of a placeholder gives: no bytes
          QueueDepth,           \* transactions DRAMsim3 holds per bank
          BoxIds,               \* bound: Boxes alive at one time
          MaxOutstanding,       \* COLD Boxes callers keep per bank
          MaxReady,             \* bound: READY Boxes held at another call
          MaxLeftover           \* bound per bank: log and queue entries when
                                \* a transaction without a Box is added

NoId == 0                       \* a transaction no Box waits for

ASSUME GeometryAssumption == NumBanks \in Nat /\ BankSize \in Nat \ {0}
ASSUME ObjectAssumption == ObjectIds \subseteq Nat /\ ObjectLen \in Nat
ASSUME EmptyAssumption == Empty \notin Values
ASSUME QueueAssumption == QueueDepth \in Nat \ {0} /\ MaxOutstanding \in Nat
Bank   == 0..(NumBanks - 1)
LAddr  == 0..(BankSize - 1)
ASSUME BoundAssumption ==
  IsFiniteSet(BoxIds) /\ NoId \notin BoxIds /\ MaxReady \in Nat
  /\ MaxLeftover \in [Bank -> Nat]
Placeholder == -2               \* mapped, but to nothing (device padding)
\* Mutants of Canonical: the first bank starts where the second should; the
\* bank is left out.
CanonicalNext(bank, a) == (bank + 1) * BankSize + a
CanonicalLocal(bank, a) == a

Canonical(bank, a) == bank * BankSize + a

VARIABLES
  table,      \* address_mapper
  store,      \* stored_data_structures: object -> position -> chunk
  inflight,   \* inside DRAMsim3: per bank, transactions not yet served
  log,        \* nd_log: per bank, local addresses of served transactions
  box,        \* the Boxes get and set returned
  item,       \* the data of the callers' items
  event,      \* self.event
  foreign,    \* history: was a bank given a transaction that no Box will take
              \* off its log, by the host or by an unmapped access?
  edited      \* history: the waiting sets whose item changed since the call

vars == <<table, store, inflight, log, box, item, event, foreign, edited>>

\* A transaction is a local address; id is a history variable that names the
\* Box it was issued for.  served is one too: has DRAMsim3 served the Box's
\* own transaction?  data is what the returned Box holds, src the item of a set.
NoItem == "no item"
Txn == [addr : LAddr, id : BoxIds \cup {NoId}]
NoBox == [kind |-> "none"]
BoxType ==
  [kind : {"get", "set"}, bank : Bank, addr : LAddr, ready : BOOLEAN,
   data : Values \cup {Empty}, src : Items \cup {NoItem}, served : BOOLEAN]

TypeOK ==
  /\ DOMAIN table \subseteq 0..(NumBanks * BankSize)
  /\ \A b \in DOMAIN table :
       table[b].index \in ObjectIds \cup {Placeholder, Unmapped}
  /\ store \in [ObjectIds -> [0..(ObjectLen - 1) -> Values]]
  /\ inflight \in [Bank -> Seq(Txn)]
  /\ log \in [Bank -> Seq(LAddr)]
  /\ box \in [BoxIds -> BoxType \cup {NoBox}]
  /\ \A i \in BoxIds : box[i] # NoBox =>
       (box[i].kind = "set" => box[i].src \in Items)
  /\ item \in [Items -> Values]
  /\ event \in BOOLEAN /\ foreign \in BOOLEAN /\ edited \subseteq BoxIds

Init ==
  /\ table = EmptyTable
  /\ store \in [ObjectIds -> [0..(ObjectLen - 1) -> Values]]
  /\ inflight = [k \in Bank |-> <<>>]
  /\ log = [k \in Bank |-> <<>>]
  /\ box = [i \in BoxIds |-> NoBox]
  /\ item \in [Items -> Values]
  /\ event = FALSE /\ foreign = FALSE /\ edited = {}

Cold(i)  == box[i] # NoBox /\ ~box[i].ready
Pending(k) == {i \in BoxIds : Cold(i) /\ box[i].bank = k}
\* A READY Box is no longer polled: letting go of it early leaves nothing out.
FewReady == Cardinality({i \in BoxIds : box[i] # NoBox /\ box[i].ready}) <= MaxReady

\* address_mapper[canonical address]: object and position.
Object(k, a)   == IndexAt(table, Canonical(k, a))
Position(k, a) == OffsetAt(table, Canonical(k, a))
InObject(k, a) == Object(k, a) \in ObjectIds /\ Position(k, a) < ObjectLen

\* bank_read and bank_write raise on an unmapped address and beyond the end
\* of the object; a placeholder reads as zero bytes and swallows writes.
Accessible(k, a) == Object(k, a) = Placeholder \/ InObject(k, a)
Content(k, a) ==
  IF InObject(k, a) THEN store[Object(k, a)][Position(k, a)] ELSE Empty
Stored(k, a, v) ==
  IF InObject(k, a) THEN [store EXCEPT ![Object(k, a)][Position(k, a)] = v]
                    ELSE store

HasRoom(k)  == Len(inflight[k]) < QueueDepth
WithinBound(k) == Len(inflight[k]) + Len(log[k]) < MaxLeftover[k]
Submit(k, a, id) ==
  inflight' = [inflight EXCEPT ![k] = Append(@, [addr |-> a, id |-> id])]

\* get(): `assert accepted`, then the data is copied at issue, not when the
\* transaction is served.
Get(i, k, a) ==
  /\ box[i] = NoBox /\ FewReady
  /\ Cardinality(Pending(k)) < MaxOutstanding
  /\ HasRoom(k)
  /\ Accessible(k, a)
  /\ Submit(k, a, i)
  /\ box' = [box EXCEPT ![i] =
       [kind |-> "get", bank |-> k, addr |-> a, ready |-> FALSE,
        data |-> Content(k, a), src |-> NoItem, served |-> FALSE]]
  /\ UNCHANGED <<table, store, log, item, event, foreign, edited>>

\* get() of an address nothing is mapped to: the transaction is already with
\* DRAMsim3 when bank_read raises PimAccessOutOfBoundsError.
GetFails(k, a) ==
  /\ HasRoom(k) /\ WithinBound(k)
  /\ ~Accessible(k, a)
  /\ Submit(k, a, NoId) /\ foreign' = TRUE
  /\ UNCHANGED <<table, store, log, box, item, event, edited>>

\* set(): whether DRAMsim3 took the transaction is not looked at.  The returned
\* Box holds a copy of the item's data; what will be written is the item.
Set(i, k, a, x) ==
  /\ box[i] = NoBox /\ FewReady
  /\ Cardinality(Pending(k)) < MaxOutstanding
  /\ foreign' = (foreign \/ ~Accessible(k, a))
  /\ IF HasRoom(k) THEN Submit(k, a, i) ELSE UNCHANGED inflight
  /\ box' = [box EXCEPT ![i] =
       [kind |-> "set", bank |-> k, addr |-> a, ready |-> FALSE,
        data |-> item[x], src |-> x, served |-> FALSE]]
  /\ UNCHANGED <<table, store, log, item, event, edited>>

\* A caller works on its item in place, whether or not a set waits to write it.
Modify(x, v) ==
  /\ v # item[x]
  /\ item' = [item EXCEPT ![x] = v]
  /\ edited' = edited \cup {i \in BoxIds : Cold(i) /\ box[i].src = x}
  /\ UNCHANGED <<table, store, inflight, log, box, event, foreign>>

\* add_transaction / add_transaction_to_bank by the host: no Box is made.
HostAccess(k, a) ==
  /\ HasRoom(k) /\ WithinBound(k)
  /\ Submit(k, a, NoId) /\ foreign' = TRUE
  /\ UNCHANGED <<table, store, log, box, item, event, edited>>

\* list.pop() of the log.  Mutant: the entry stays.
Kept(entries) == entries
Popped(entries) == SubSeq(entries, 1, Len(entries) - 1)

\* update(): the head of the log must be the Box's address; list.pop() then
\* removes the LAST entry.  A set stores what its item holds now; if the address
\* is not accessible the write raises after the pop and the Box stays COLD.
Poll(i) ==
  LET k == box[i].bank
      a == box[i].addr
      matches == log[k] # <<>> /\ Head(log[k]) = a
  IN  /\ Cold(i)
      /\ matches
      /\ log' = [log EXCEPT ![k] = Popped(@)]
      /\ IF box[i].kind = "get"
           THEN UNCHANGED store
           ELSE store' = IF Accessible(k, a) THEN Stored(k, a, item[box[i].src])
                                             ELSE store
      /\ box' = [box EXCEPT ![i].ready = @ \/ box[i].kind = "get"
                                           \/ Accessible(k, a)]
      /\ edited' = IF box'[i].ready THEN edited \ {i} ELSE edited
      /\ UNCHANGED <<table, inflight, item, event, foreign>>

\* The holder of a READY Box lets go of it.
Drop(i) ==
  /\ box[i] # NoBox /\ box[i].ready
  /\ box' = [box EXCEPT ![i] = NoBox]
  /\ UNCHANGED <<table, store, inflight, log, item, event, foreign, edited>>

\* Mutant of Serve: a callback that logs nothing.
ServeSilently(K) ==
  /\ \A k \in K : inflight[k] # <<>>
  /\ inflight' = [k \in Bank |-> IF k \in K THEN Tail(inflight[k]) ELSE inflight[k]]
  /\ UNCHANGED <<log, box>>

\* One cycle of DRAMsim3 in which the banks of K each serve a transaction.
Serve(K) ==
  /\ \A k \in K : inflight[k] # <<>>
  /\ inflight' = [k \in Bank |-> IF k \in K THEN Tail(inflight[k])
                                            ELSE inflight[k]]
  /\ log' = [k \in Bank |-> IF k \in K
                              THEN Append(log[k], Head(inflight[k]).addr)
                              ELSE log[k]]
  /\ box' = [i \in BoxIds |->
               IF \E k \in K : Head(inflight[k]).id = i
                 THEN [box[i] EXCEPT !.served = TRUE]
                 ELSE box[i]]

\* tick(): the callbacks raise the event flag; nothing here lowers it.
Tick(K) ==
  /\ Serve(K)
  /\ event' = (event \/ K # {})
  /\ UNCHANGED <<table, store, item, foreign, edited>>

\* tick(until_event=True): no cycle at all when the flag is still up, else
\* cycles until a bank serves something (with nothing in flight, for ever).
TickUntilEvent(K) ==
  /\ IF event THEN K = {} ELSE K # {}
  /\ Serve(K)
  /\ event' = FALSE
  /\ UNCHANGED <<table, store, item, foreign, edited>>

\* Callers map every chunk of an object to one address at most, and leave a
\* bank's mapping alone while a Box of the bank is COLD (Exclusive, Quiet):
\* that is how pim_device_place_data places data between kernels.
Exclusive(t) ==
  \A x, y \in 0..(NumBanks * BankSize - 1) :
    x # y /\ IndexAt(t, x) \in ObjectIds =>
      <<IndexAt(t, x), OffsetAt(t, x)>> # <<IndexAt(t, y), OffsetAt(t, y)>>
Quiet == \A i \in BoxIds : ~Cold(i)

Mmap(k, a, obj, len, offset) ==
  LET start == Canonical(k, a) IN
  /\ Quiet /\ FewReady
  /\ a + len <= BankSize
  /\ table' = Mapped(table, start, start + len, obj, offset)
  /\ Exclusive(table')
  /\ UNCHANGED <<store, inflight, log, box, item, event, foreign, edited>>

Munmap(k, a, len) ==
  LET start == Canonical(k, a) IN
  /\ Quiet /\ FewReady
  /\ a + len <= BankSize
  /\ table' = Mapped(table, start, start + len, Unmapped, 0)
  /\ Exclusive(table')
  /\ UNCHANGED <<store, inflight, log, box, item, event, foreign, edited>>

Next ==
  \/ \E i \in BoxIds, k \in Bank, a \in LAddr :
       Get(i, k, a) \/ \E x \in Items : Set(i, k, a, x)
  \/ \E k \in Bank, a \in LAddr : GetFails(k, a) \/ HostAccess(k, a)
  \/ \E x \in Items, v \in Values : Modify(x, v)
  \/ \E i \in BoxIds : Poll(i) \/ Drop(i)
  \/ \E K \in SUBSET Bank : Tick(K) \/ TickUntilEvent(K)
  \/ \E k \in Bank, a \in LAddr, len \in 1..BankSize :
       \/ \E obj \in ObjectIds, o \in 0..(ObjectLen - 1) : Mmap(k, a, obj, len, o)
       \/ Mmap(k, a, Placeholder, len, 0)
       \/ Munmap(k, a, len)

\* DRAMsim3 serves what it accepted as long as it is ticked, and the holder of
\* a Box keeps polling it (the pipeline does so on every core cycle).
Fairness ==
  /\ \A k \in Bank : WF_vars(\E K \in SUBSET Bank : k \in K /\ Tick(K))
  /\ \A i \in BoxIds : WF_vars(Poll(i))

Spec == Init /\ [][Next]_vars /\ Fairness

-----------------------------------------------------------------------------
(* Properties *)

\* memsys.py:164 "Returns a Box which indicates when the write has completed",
\* memsys.py:116 "returns a Box with appropriate timing metadata": a Box turns
\* READY only once its own transaction was served, as long as every transaction
\* belongs to a Box.
ReadyMeansServed ==
  ~foreign => \A i \in BoxIds : box[i] # NoBox /\ box[i].ready => box[i].served

\* ... and a Box whose transaction was accepted does become READY.
BoxEventuallyReady ==
  \A i \in BoxIds : Cold(i) ~> ~Cold(i) \/ foreign

\* What makes taking the last log entry harmless: a bank has at most one
\* transaction between its queue and its log, it belongs to the one COLD Box
\* of the bank, and a bank without a COLD Box has nothing left over.
OwnCompletion ==
  ~foreign => \A k \in Bank :
    \/ Pending(k) = {} /\ inflight[k] = <<>> /\ log[k] = <<>>
    \/ \E i \in Pending(k) :
         /\ Pending(k) = {i}
         /\ \/ /\ inflight[k] = <<[addr |-> box[i].addr, id |-> i]>>
               /\ log[k] = <<>>
            \/ /\ inflight[k] = <<>>
               /\ log[k] = <<box[i].addr>>
               /\ box[i].served

\* A get copies at issue, yet the data its Box delivers is what the address
\* holds when the Box turns READY, whatever was written to other chunks, by
\* other banks too, in between.  A set leaves what its item holds then; the copy
\* in the Box it returned differs from that only if the item was worked on while
\* the Box was COLD.  So also among foreign transactions, which take log entries,
\* but never data.
ReadyIsCurrent ==
  [][\A i \in BoxIds : Cold(i) /\ box'[i] # NoBox /\ box'[i].ready =>
       LET k == box[i].bank
           a == box[i].addr
           now == store'[Object(k, a)][Position(k, a)]
       IN  InObject(k, a) =>
             /\ now = box[i].data \/ i \in edited
             /\ box[i].kind = "set" => now = item[box[i].src]]_vars
=============================================================================
