-------------------------------- MODULE Device --------------------------------
(* lib/device/base.py: a host places objects on the device, queues         *)
(* commands and ticks the device until it is idle; a tick hands the next   *)
(* command to every core, ticks the cores and then the memory.             *)
(*                                                                         *)
(* Of a core only what Pipeline shows of it is kept: commands are taken in *)
(* order, their kernels run one after the other, each takes some ticks,    *)
(* and the pipeline is empty when the last one has ended and only then     *)
(* (IdleMeansFinished there).                                              *)
EXTENDS Allocation, Sequences, SequencesExt

CONSTANTS Rate,        \* core_relative_clock_rate
          QueueLen,    \* trans_queue_len
          Sizes,       \* objects the host places: their lengths in chunks
          MaxObjects, MaxCommands,  \* bounds
          CacheLoads,  \* kernels that fit into a core's instruction cache
          Careless     \* what hosts do that nothing in the code prevents

ASSUME RateAssumption == Rate \in Nat \ {0} /\ QueueLen \in Nat
ASSUME ObjectAssumption == Sizes \subseteq Nat \ {0} /\ MaxObjects \in Nat
ASSUME CommandAssumption == MaxCommands \in Nat /\ CacheLoads \in Nat
ASSUME HostAssumption == Careless \subseteq {"overlap", "overflow"}

Id == 0..(MaxObjects - 1)
NoId == -1             \* DeviceCommand's default for an operand
Command == [op1 : Id, dst : Id \cup {NoId}]  \* op2 is one more of the kind

VARIABLES
  table,      \* mem.address_mapper
  sizes,      \* mem.stored_data_structures: chunks of object id (index - 1)
  idMapping,  \* _id_mapping: local range of object id, as a sequence
  lastLoc,    \* _last_allocated_location
  queue,      \* _transaction_queue
  phase,      \* cycle % relative_core_rate
  received,   \* commands each core was handed, as the ranges to_command made
  work,       \* how many of them a core has not finished
  accepted,   \* history: commands add_transaction took, but for those whose
              \* tick raised an exception,
  raised      \* ... and how many those are

vars == <<table, sizes, idMapping, lastLoc, queue, phase, received, work,
          accepted, raised>>

Objects == 0..(Len(sizes) - 1)
Local == 0..BankSize
LocalRange == Local \X Local

TypeOK ==
  /\ DOMAIN table \subseteq 0..(NumCores * BankSize)
  /\ \A b \in DOMAIN table : table[b].index \in Objects \cup {Padding, Unmapped}
  /\ sizes \in Seq(Sizes) /\ Len(sizes) <= MaxObjects
  /\ idMapping \in Seq(LocalRange) /\ Len(idMapping) = Len(sizes)
  /\ lastLoc \in Local
  /\ queue \in Seq(Command) /\ Len(queue) <= QueueLen
  /\ phase \in 0..(Rate - 1)
  /\ received \in [Core -> Seq(LocalRange \X LocalRange)]
  /\ \A c \in Core : work[c] \in 0..Len(received[c])
  /\ accepted \in Seq(Command) /\ raised \in 0..MaxCommands

Init ==
  /\ table = EmptyTable
  /\ sizes = <<>> /\ idMapping = <<>> /\ lastLoc = 0
  /\ queue = <<>> /\ phase = 0
  /\ received = [c \in Core |-> <<>>]
  /\ work = [c \in Core |-> 0]
  /\ accepted = <<>> /\ raised = 0

-----------------------------------------------------------------------------
Placement == <<table, sizes, idMapping, lastLoc>>

\* Mutant of Located: always from the start of the bank.
LocatedFirst(n, addr) == <<0, ChunksPerCore(n)>>

\* The range of an object in every core's local address space.
Located(n, addr) == <<addr, addr + ChunksPerCore(n)>>

\* instant_place_data.  Unless they are careless, hosts stay inside the bank
\* (mmap does not check it: "overflow") and keep objects apart (an explicit
\* address below an older object moves the default location back in front of
\* it: "overlap").
Default == -1
Apart(r) == \A i \in 1..Len(idMapping) : r[2] <= idMapping[i][1] \/ idMapping[i][2] <= r[1]
InstantPlaceData(n, localAddr) ==
  LET addr == IF localAddr <= Default THEN lastLoc ELSE localAddr
      range == Located(n, addr)
  IN  /\ Len(sizes) < MaxObjects
      /\ "overflow" \in Careless \/ addr + ChunksPerCore(n) <= BankSize
      /\ "overlap" \in Careless \/ Apart(<<addr, addr + ChunksPerCore(n)>>)
      /\ table' = PlaceData(table, Len(sizes), n, addr)
      /\ sizes' = Append(sizes, n)
      /\ idMapping' = Append(idMapping, range)
      /\ lastLoc' = range[2]
      /\ UNCHANGED <<queue, phase, received, work, accepted, raised>>

\* Mutant of AddTransaction: one too many.
AddTransactionMore(cmd) ==
  /\ Len(queue) <= QueueLen
  /\ Len(accepted) + raised < MaxCommands
  /\ queue' = Append(queue, cmd)
  /\ accepted' = Append(accepted, cmd)
  /\ UNCHANGED <<Placement, phase, received, work, raised>>

\* add_transaction: False, and nothing is changed, when the queue is full.
AddTransaction(cmd) ==
  /\ Len(queue) < QueueLen
  /\ Len(accepted) + raised < MaxCommands
  /\ queue' = Append(queue, cmd)
  /\ accepted' = Append(accepted, cmd)
  /\ UNCHANGED <<Placement, phase, received, work, raised>>

\* to_command: a KeyError for an operand that was not given or not placed.
Mappable(cmd) == cmd.op1 \in Objects /\ cmd.dst \in Objects
ToCommand(cmd) == <<idMapping[cmd.op1 + 1], idMapping[cmd.dst + 1]>>

\* Kernels that end in this tick, the oldest of core c for c \in done.
Ending(done) == done \subseteq {c \in Core : work[c] > 0}
\* Mutant of Dispatched: a core that is busy does not get the command.
DispatchedToIdle(cmd) ==
  [c \in Core |-> IF work[c] > 0 THEN received[c] ELSE Append(received[c], cmd)]
Dispatched(cmd) == [c \in Core |-> Append(received[c], cmd)]
Left(done, new) == [c \in Core |-> work[c] + new - (IF c \in done THEN 1 ELSE 0)]

CoresTick == phase = 0
Advance == phase' = (phase + 1) % Rate

\* tick with a command in the queue.  It is popped in every device cycle, also
\* in those in which the cores are not ticked.
TickCommand(done) ==
  LET cmd == Head(queue) IN
  /\ queue # <<>> /\ Mappable(cmd)
  /\ queue' = Tail(queue)
  /\ IF CoresTick
       THEN /\ Len(received[0]) < CacheLoads
            /\ Ending(done)
            /\ received' = Dispatched(ToCommand(cmd))
            /\ work' = Left(done, 1)
       ELSE done = {} /\ UNCHANGED <<received, work>>
  /\ Advance
  /\ UNCHANGED <<Placement, accepted, raised>>

\* ... and the exceptions of that tick: the command is gone, the cycle is not
\* counted.  to_command raises before any core is ticked; a full instruction
\* cache (all cores hold the same kernels) when the first core, its pipeline
\* already ticked, loads the kernel.
TickRaises(done) ==
  LET cmd == Head(queue) IN
  /\ queue # <<>>
  /\ \/ ~Mappable(cmd) /\ done = {}
     \/ /\ Mappable(cmd) /\ CoresTick
        /\ Len(received[0]) >= CacheLoads
        /\ Ending(done) /\ done \subseteq {0}
  /\ queue' = Tail(queue)
  /\ work' = Left(done, 0)
  /\ accepted' = RemoveAt(accepted, Len(accepted) - Len(queue) + 1)
  /\ raised' = raised + 1
  /\ UNCHANGED <<Placement, phase, received>>

\* Mutant of TickIdle: cores are ticked only when there is a command.
TickIdleSkipped(done) ==
  /\ queue = <<>> /\ done = {}
  /\ Advance
  /\ UNCHANGED <<Placement, queue, received, work, accepted, raised>>

\* tick with an empty queue.
TickIdle(done) ==
  /\ queue = <<>>
  /\ IF CoresTick THEN Ending(done) /\ work' = Left(done, 0)
                  ELSE done = {} /\ UNCHANGED work
  /\ Advance
  /\ UNCHANGED <<Placement, queue, received, accepted, raised>>

Tick(done) == TickCommand(done) \/ TickRaises(done) \/ TickIdle(done)

AllCoresIdle == \A c \in Core : work[c] = 0
TransactionQueueEmpty == queue = <<>>

Next == \/ \E n \in Sizes, a \in Local \cup {Default} : InstantPlaceData(n, a)
        \/ \E cmd \in Command : AddTransaction(cmd)
        \/ \E done \in SUBSET Core : Tick(done)

\* The host keeps ticking while the device is not idle (demo/device.py:44), and
\* a kernel ends if its core keeps being ticked.
Fairness ==
  /\ WF_vars(\E done \in SUBSET Core : Tick(done))
  /\ \A c \in Core : SF_vars(\E done \in SUBSET Core : c \in done /\ Tick(done))

Spec == Init /\ [][Next]_vars /\ Fairness

-----------------------------------------------------------------------------
(* Properties *)

\* Every transaction the device accepted is in its queue or has reached every
\* core, in the order of acceptance and as the ranges of the objects it names:
\* "how much slower the associated core is" (base.py:38) is no reason to lose
\* one, nor is an exception for another.
Delivery ==
  LET pending == Len(queue)
      done == Len(accepted) - pending
  IN  /\ done >= 0 /\ SubSeq(accepted, done + 1, Len(accepted)) = queue
      /\ \A c \in Core :
           received[c] = [n \in 1..done |-> ToCommand(accepted[n])]

\* Objects that stay as they were placed, however many follow: chunk n is the
\* n-th on the cores taken in order, and the whole range a command sweeps is
\* mapped on every core, so that no kernel is stopped by a bad access.
Resident ==
  \A id \in Objects :
    LET r == idMapping[id + 1]
        width == r[2] - r[1]
    IN  /\ width * NumCores >= sizes[id + 1]
        /\ \A c \in Core, i \in 0..(width - 1) :
             LET a == Canonical(c, r[1] + i)
                 n == c * width + i
             IN  IF n < sizes[id + 1]
                   THEN IndexAt(table, a) = id /\ OffsetAt(table, a) = n
                   ELSE IndexAt(table, a) = Padding

\* demo/device.py:44: the host's loop is left, whatever was queued, refused or
\* lost to an exception.
LoopDone == AllCoresIdle /\ TransactionQueueEmpty
LoopEnds == <>[]LoopDone
=============================================================================
