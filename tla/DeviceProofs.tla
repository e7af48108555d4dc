----------------------------- MODULE DeviceProofs -----------------------------
(* Delivery for every device whose cores run at its own speed (Rate = 1;   *)
(* with slower cores the code loses commands, and a run shows it), for     *)
(* every host, careless or not, and every number of cores and commands.    *)
(*                                                                         *)
(* Delivery is not inductive: that what a core was handed is still what    *)
(* to_command would make of the command needs that objects stay where they *)
(* are in _id_mapping and that a command that was handed on named objects  *)
(* that had been placed.  Inv says so, position by position.               *)
(*                                                                         *)
(* The second part is what pim_device_place_data leaves behind, for every  *)
(* number of cores, size of the banks and sequence of placements: the loop *)
(* over the cores maps the share of each and nothing else, so that the     *)
(* device's state keeps its type (TypeOK) and every object stays where it  *)
(* was put (Resident).                                                     *)
EXTENDS Device, IntervalTableProofs, SequenceTheorems

\* Commands that have left the queue for the cores.
Done == Len(accepted) - Len(queue)

Ranges == Int \X Int

InvPlaced ==
  /\ sizes \in Seq(Sizes)
  /\ lastLoc \in Int
  /\ idMapping \in Seq(Ranges)
  /\ Len(idMapping) = Len(sizes)

InvQueue ==
  /\ phase = 0
  /\ queue \in Seq(Command) /\ accepted \in Seq(Command)
  /\ Len(queue) <= Len(accepted)
  /\ \A i \in 1..Len(queue) : queue[i] = accepted[Done + i]

InvHanded ==
  /\ \A n \in 1..Done : Mappable(accepted[n])
  /\ \A c \in Core : received[c] = [n \in 1..Done |-> ToCommand(accepted[n])]

Inv == InvPlaced /\ InvQueue /\ InvHanded

(***************************************************************************)
(* Sequences.                                                              *)
(***************************************************************************)

\* What pop of a position leaves (the exception paths of tick).
LEMMA RemoveAtElements ==
  ASSUME NEW S, NEW s \in Seq(S), NEW i \in 1..Len(s)
  PROVE  /\ RemoveAt(s, i) \in Seq(S)
         /\ Len(RemoveAt(s, i)) = Len(s) - 1
         /\ \A n \in 1..(Len(s) - 1) :
              RemoveAt(s, i)[n] = IF n < i THEN s[n] ELSE s[n + 1]
<1> DEFINE l == SubSeq(s, 1, i - 1)
<1> DEFINE r == SubSeq(s, i + 1, Len(s))
<1>0. Len(s) \in Nat /\ i \in Nat
  BY LenProperties
<1>1. l \in Seq(S) /\ Len(l) = i - 1 /\ \A n \in 1..(i - 1) : l[n] = s[n]
  BY <1>0, LenProperties
<1>2. r \in Seq(S) /\ Len(r) = Len(s) - i /\ \A n \in 1..(Len(s) - i) : r[n] = s[n + i]
  BY <1>0, LenProperties
<1> HIDE DEF l, r
<1>3. /\ l \o r \in Seq(S)
      /\ Len(l \o r) = Len(s) - 1
      /\ \A n \in 1..(Len(s) - 1) : (l \o r)[n] = IF n <= i - 1 THEN l[n] ELSE r[n - (i - 1)]
  <2>1. /\ l \o r \in Seq(S)
        /\ Len(l \o r) = Len(l) + Len(r)
        /\ \A n \in 1..(Len(l) + Len(r)) :
             (l \o r)[n] = IF n <= Len(l) THEN l[n] ELSE r[n - Len(l)]
    BY <1>1, <1>2, ConcatProperties
  <2>2. Len(l) + Len(r) = Len(s) - 1 /\ Len(l) = i - 1
    BY <1>0, <1>1, <1>2
  <2> QED BY <2>1, <2>2
<1>4. RemoveAt(s, i) = l \o r
  BY DEF RemoveAt, l, r
<1>5. ASSUME NEW n \in 1..(Len(s) - 1)
      PROVE  (l \o r)[n] = IF n < i THEN s[n] ELSE s[n + 1]
  <2>1. CASE n < i
    BY <2>1, <1>0, <1>1, <1>3
  <2>2. CASE ~(n < i)
    <3>1. n - (i - 1) \in 1..(Len(s) - i) /\ n - (i - 1) + i = n + 1
      BY <2>2, <1>0
    <3> QED BY <3>1, <2>2, <1>0, <1>2, <1>3
  <2> QED BY <2>1, <2>2
<1> QED BY <1>3, <1>4, <1>5

\* A function on 1..m + 1 is its beginning with its last value appended.
LEMMA AppendLast ==
  ASSUME NEW S, NEW m \in Nat, NEW f \in [1..(m + 1) -> S]
  PROVE  Append([n \in 1..m |-> f[n]], f[m + 1]) = f
<1> DEFINE g == [n \in 1..m |-> f[n]]
<1>1. g \in Seq(S) /\ Len(g) = m /\ f[m + 1] \in S /\ DOMAIN g = 1..m
  <2>1. \A n \in 1..m : f[n] \in S
    OBVIOUS
  <2>2. g \in [1..m -> S]
    BY <2>1
  <2> QED BY <2>2, SeqDef, LenProperties
<1>2. f \in Seq(S) /\ Len(f) = m + 1
  BY SeqDef, LenProperties
<1>3. \A n \in 1..m : g[n] = f[n]
  OBVIOUS
<1> HIDE DEF g
<1>4. /\ Append(g, f[m + 1]) \in Seq(S)
      /\ Len(Append(g, f[m + 1])) = m + 1
      /\ \A n \in 1..m : Append(g, f[m + 1])[n] = g[n]
      /\ Append(g, f[m + 1])[m + 1] = f[m + 1]
  BY <1>1, AppendProperties
<1>5. \A n \in 1..(m + 1) : Append(g, f[m + 1])[n] = f[n]
  <2> TAKE n \in 1..(m + 1)
  <2>1. n \in 1..m \/ n = m + 1
    OBVIOUS
  <2> QED BY <2>1, <1>3, <1>4
<1>6. Append(g, f[m + 1]) = f
  BY <1>2, <1>4, <1>5, SeqEqual
<1> QED BY <1>6 DEF g

(***************************************************************************)
(* The steps.                                                              *)
(***************************************************************************)

\* A share's length is a number (NumCores is not zero).
LEMMA ShareLength ==
  ASSUME NEW n \in Sizes
  PROVE  ChunksPerCore(n) \in Int
<1>1. n \in Nat /\ NumCores \in Nat /\ NumCores > 0
  BY ObjectAssumption, CoresAssumption
<1> QED BY <1>1 DEF ChunksPerCore

\* Nothing was queued, nothing handed on.
LEMMA InitInv ==
  ASSUME Init
  PROVE  Inv
<1> USE DEF Init
<1>1. InvPlaced
  BY DEF InvPlaced
<1>2. Done = 0
  BY DEF Done
<1>3. InvQueue
  BY <1>2 DEF InvQueue
<1>4. InvHanded
  <2>1. 1..Done = {}
    BY <1>2
  <2>2. ASSUME NEW c \in Core PROVE received[c] = [n \in 1..Done |-> ToCommand(accepted[n])]
    <3>1. received[c] = <<>>
      OBVIOUS
    <3>2. <<>> = [n \in {} |-> ToCommand(accepted[n])]
      OBVIOUS
    <3> QED BY <2>1, <3>1, <3>2
  <2> QED BY <2>1, <2>2 DEF InvHanded
<1> QED BY <1>1, <1>3, <1>4 DEF Inv

\* A command that could be mapped is mapped the same after more placements.
LEMMA PlacedKeeps ==
  ASSUME InvPlaced, NEW cmd, Mappable(cmd), NEW n \in Sizes, NEW r \in Ranges,
         sizes' = Append(sizes, n), idMapping' = Append(idMapping, r)
  PROVE  Mappable(cmd)' /\ ToCommand(cmd)' = ToCommand(cmd)
<1>1. Len(sizes) \in Nat /\ Len(sizes') = Len(sizes) + 1
  BY LenProperties, AppendProperties DEF InvPlaced
<1>2. cmd.op1 \in 0..(Len(sizes) - 1) /\ cmd.dst \in 0..(Len(sizes) - 1)
  BY DEF Mappable, Objects
<1>3. Mappable(cmd)'
  BY <1>1, <1>2 DEF Mappable, Objects
<1>4. \A i \in 1..Len(idMapping) : idMapping'[i] = idMapping[i]
  BY AppendProperties DEF InvPlaced
<1>5. cmd.op1 + 1 \in 1..Len(idMapping) /\ cmd.dst + 1 \in 1..Len(idMapping)
  BY <1>1, <1>2 DEF InvPlaced
<1> QED BY <1>3, <1>4, <1>5 DEF ToCommand

\* instant_place_data appends to _id_mapping and changes no entry of it.
LEMMA PlaceStep ==
  ASSUME Inv, NEW n \in Sizes, NEW a \in Local \cup {Default}, InstantPlaceData(n, a)
  PROVE  Inv'
<1> DEFINE addr == IF a <= Default THEN lastLoc ELSE a
<1> DEFINE r == Located(n, addr)
<1>1. /\ sizes' = Append(sizes, n) /\ idMapping' = Append(idMapping, r) /\ lastLoc' = r[2]
      /\ UNCHANGED <<queue, phase, received, accepted>>
  BY DEF InstantPlaceData
<1>2. addr \in Int
  BY CoresAssumption DEF Inv, InvPlaced, Local, Default
<1>3. r \in Ranges /\ r[2] \in Int
  BY <1>2, ShareLength DEF Located, Ranges
<1> HIDE DEF addr, r
<1>4. InvPlaced'
  BY <1>1, <1>3, AppendProperties DEF Inv, InvPlaced
<1>5. InvQueue' /\ Done' = Done
  BY <1>1 DEF Inv, InvQueue, Done
<1>6. ASSUME NEW k \in 1..Done
      PROVE  Mappable(accepted[k])' /\ ToCommand(accepted[k])' = ToCommand(accepted[k])
  <2>1. Mappable(accepted[k])
    BY DEF Inv, InvHanded
  <2>2. accepted' = accepted
    BY <1>1
  <2>3. Mappable(accepted[k])' /\ ToCommand(accepted[k])' = ToCommand(accepted[k])
    BY <1>1, <1>3, <2>1, <2>2, PlacedKeeps DEF Inv, Mappable, ToCommand, Objects
  <2> QED BY <2>3
<1>7. InvHanded'
  BY <1>1, <1>5, <1>6 DEF Inv, InvHanded
<1> QED BY <1>4, <1>5, <1>7 DEF Inv

\* add_transaction appends one command to both.
LEMMA AddStep ==
  ASSUME Inv, NEW cmd \in Command, AddTransaction(cmd)
  PROVE  Inv'
<1>1. /\ queue' = Append(queue, cmd) /\ accepted' = Append(accepted, cmd)
      /\ UNCHANGED <<sizes, idMapping, lastLoc, phase, received>>
  BY DEF AddTransaction, Placement
<1>2. InvPlaced'
  BY <1>1 DEF Inv, InvPlaced
<1>3. /\ queue \in Seq(Command) /\ accepted \in Seq(Command)
      /\ Len(queue) \in Nat /\ Len(accepted) \in Nat /\ Len(queue) <= Len(accepted)
      /\ \A i \in 1..Len(queue) : queue[i] = accepted[Done + i]
  BY LenProperties DEF Inv, InvQueue
<1>4. /\ queue' \in Seq(Command) /\ accepted' \in Seq(Command)
      /\ Len(queue') = Len(queue) + 1 /\ Len(accepted') = Len(accepted) + 1
      /\ \A i \in 1..Len(queue) : queue'[i] = queue[i]
      /\ queue'[Len(queue) + 1] = cmd
      /\ \A i \in 1..Len(accepted) : accepted'[i] = accepted[i]
      /\ accepted'[Len(accepted) + 1] = cmd
  BY <1>1, <1>3, AppendProperties
<1>5. Done' = Done /\ Done \in Nat
  BY <1>3, <1>4 DEF Done
<1>6. ASSUME NEW i \in 1..Len(queue')
      PROVE  queue'[i] = accepted'[Done + i]
  <2>1. CASE i = Len(queue) + 1
    BY <2>1, <1>3, <1>4 DEF Done
  <2>2. CASE i \in 1..Len(queue)
    <3>1. Done + i \in 1..Len(accepted)
      BY <2>2, <1>3 DEF Done
    <3> QED BY <3>1, <2>2, <1>3, <1>4
  <2> QED BY <2>1, <2>2, <1>3, <1>4
<1>7. InvQueue'
  <2>1. phase' = 0
    BY <1>1 DEF Inv, InvQueue
  <2>2. Len(queue') <= Len(accepted')
    BY <1>3, <1>4
  <2>3. \A i \in 1..Len(queue') : queue'[i] = accepted'[Done' + i]
    BY <1>5, <1>6
  <2> QED BY <1>4, <2>1, <2>2, <2>3 DEF InvQueue
<1>8. \A n \in 1..Done : accepted'[n] = accepted[n]
  BY <1>3, <1>4 DEF Done
<1>9. InvHanded'
  BY <1>1, <1>5, <1>8 DEF Inv, InvHanded, Mappable, ToCommand, Objects
<1> QED BY <1>2, <1>7, <1>9 DEF Inv

\* What the queue's head is among the accepted commands.
LEMMA QueueHead ==
  ASSUME Inv, queue # <<>>
  PROVE  /\ Head(queue) = accepted[Done + 1]
         /\ Done \in Nat /\ Done + 1 \in 1..Len(accepted)
         /\ Tail(queue) \in Seq(Command) /\ Len(Tail(queue)) = Len(queue) - 1
         /\ \A i \in 1..Len(Tail(queue)) : Tail(queue)[i] = accepted[Done + i + 1]
<1>1. /\ queue \in Seq(Command) /\ Len(queue) \in Nat /\ Len(accepted) \in Nat
      /\ Len(queue) <= Len(accepted)
      /\ \A i \in 1..Len(queue) : queue[i] = accepted[Done + i]
  BY LenProperties DEF Inv, InvQueue
<1>2. Len(queue) > 0
  BY <1>1
<1>3. Done \in Nat /\ Done + 1 \in 1..Len(accepted)
  BY <1>1, <1>2 DEF Done
<1>4. /\ Tail(queue) \in Seq(Command) /\ Len(Tail(queue)) = Len(queue) - 1
      /\ \A i \in 1..Len(Tail(queue)) : Tail(queue)[i] = queue[i + 1]
  BY <1>1, HeadTailProperties
<1>5. Head(queue) = queue[1]
  BY <1>1
<1>6. ASSUME NEW i \in 1..Len(Tail(queue))
      PROVE  Tail(queue)[i] = accepted[Done + i + 1]
  <2>1. i + 1 \in 1..Len(queue) /\ Done + (i + 1) = Done + i + 1
    BY <1>1, <1>3, <1>4
  <2> QED BY <2>1, <1>1, <1>4
<1> QED BY <1>1, <1>2, <1>3, <1>4, <1>5, <1>6

\* With Rate = 1 every device cycle is one of the cores.
LEMMA NextPhase ==
  ASSUME Rate = 1, phase = 0, Advance
  PROVE  phase' = 0
<1>1. phase' = (0 + 1) % 1
  BY DEF Advance
<1> QED BY <1>1

\* The head of the queue goes to every core.
LEMMA CommandStep ==
  ASSUME Inv, Rate = 1, NEW done, TickCommand(done)
  PROVE  Inv'
<1> DEFINE cmd == Head(queue)
<1>1. /\ queue # <<>> /\ Mappable(cmd) /\ queue' = Tail(queue) /\ Advance
      /\ UNCHANGED <<sizes, idMapping, lastLoc, accepted>>
  BY DEF TickCommand, Placement
<1>2. received' = Dispatched(ToCommand(cmd))
  BY DEF TickCommand, CoresTick, Inv, InvQueue
<1>3. /\ cmd = accepted[Done + 1]
      /\ Done \in Nat /\ Done + 1 \in 1..Len(accepted)
      /\ queue' \in Seq(Command) /\ Len(queue') = Len(queue) - 1
      /\ \A i \in 1..Len(queue') : queue'[i] = accepted[Done + i + 1]
  BY <1>1, QueueHead
<1> HIDE DEF cmd
<1>4. Len(queue) \in Nat /\ Len(accepted) \in Nat /\ accepted \in Seq(Command)
  BY LenProperties DEF Inv, InvQueue
<1>5. Done' = Done + 1
  BY <1>1, <1>3, <1>4 DEF Done
<1>6. InvPlaced'
  BY <1>1 DEF Inv, InvPlaced
<1>7. InvQueue'
  <2>1. phase' = 0
    BY <1>1, NextPhase DEF Inv, InvQueue
  <2>2. Len(queue') <= Len(accepted')
    BY <1>1, <1>3, <1>4 DEF Inv, InvQueue
  <2>3. ASSUME NEW i \in 1..Len(queue') PROVE queue'[i] = accepted[Done' + i]
    <3>1. Done' + i = Done + i + 1
      BY <1>3, <1>4, <1>5
    <3> QED BY <3>1, <1>3
  <2> QED BY <1>1, <1>3, <1>4, <2>1, <2>2, <2>3 DEF InvQueue
<1>8. ASSUME NEW n \in 1..(Done + 1) PROVE Mappable(accepted[n])
  <2>1. n \in 1..Done \/ n = Done + 1
    BY <1>3
  <2> QED BY <2>1, <1>1, <1>3 DEF Inv, InvHanded
<1> DEFINE S == Ranges \X Ranges
<1> DEFINE f == [n \in 1..(Done + 1) |-> ToCommand(accepted[n])]
<1>9. f \in [1..(Done + 1) -> S]
  <2>1. ASSUME NEW n \in 1..(Done + 1) PROVE ToCommand(accepted[n]) \in S
    <3>1. accepted[n].op1 \in Objects /\ accepted[n].dst \in Objects
      BY <1>8 DEF Mappable
    <3>2. /\ Len(sizes) \in Nat /\ Len(idMapping) = Len(sizes)
          /\ \A i \in 1..Len(idMapping) : idMapping[i] \in Ranges
      BY LenProperties, ElementOfSeq DEF Inv, InvPlaced
    <3>3. accepted[n].op1 + 1 \in 1..Len(idMapping) /\ accepted[n].dst + 1 \in 1..Len(idMapping)
      BY <3>1, <3>2 DEF Objects
    <3>4. idMapping[accepted[n].op1 + 1] \in Ranges /\ idMapping[accepted[n].dst + 1] \in Ranges
      BY <3>2, <3>3
    <3> QED BY <3>4 DEF ToCommand
  <2> QED BY <2>1
<1>10. ASSUME NEW c \in Core PROVE received'[c] = f
  <2>1. received'[c] = Append(received[c], ToCommand(cmd))
    BY <1>2 DEF Dispatched
  <2>2. received[c] = [n \in 1..Done |-> ToCommand(accepted[n])]
    BY DEF Inv, InvHanded
  <2>3. \A n \in 1..Done : n \in 1..(Done + 1) /\ f[n] = ToCommand(accepted[n])
    BY <1>3
  <2>4. f[Done + 1] = ToCommand(cmd)
    BY <1>3
  <2>5. received[c] = [n \in 1..Done |-> f[n]]
    BY <2>2, <2>3
  <2> HIDE DEF f, S
  <2> QED BY <2>1, <2>4, <2>5, <1>3, <1>9, AppendLast
<1>11. ASSUME NEW n \in 1..(Done + 1)
       PROVE  Mappable(accepted[n])' /\ ToCommand(accepted[n])' = ToCommand(accepted[n])
  BY <1>1, <1>8 DEF Mappable, ToCommand, Objects
<1>12. InvHanded'
  BY <1>1, <1>5, <1>10, <1>11 DEF InvHanded
<1> QED BY <1>6, <1>7, <1>12 DEF Inv

\* The exception paths: the command is gone, the others stay in their order.
LEMMA RaiseStep ==
  ASSUME Inv, NEW done, TickRaises(done)
  PROVE  Inv'
<1>1. /\ queue # <<>> /\ queue' = Tail(queue)
      /\ accepted' = RemoveAt(accepted, Len(accepted) - Len(queue) + 1)
      /\ UNCHANGED <<sizes, idMapping, lastLoc, phase, received>>
  BY DEF TickRaises, Placement
<1>2. /\ Done \in Nat /\ Done + 1 \in 1..Len(accepted)
      /\ queue' \in Seq(Command) /\ Len(queue') = Len(queue) - 1
      /\ \A i \in 1..Len(queue') : queue'[i] = accepted[Done + i + 1]
  BY <1>1, QueueHead
<1>3. /\ Len(queue) \in Nat /\ Len(accepted) \in Nat /\ accepted \in Seq(Command)
      /\ Len(queue) <= Len(accepted) /\ phase = 0
  BY LenProperties DEF Inv, InvQueue
<1>4. accepted' = RemoveAt(accepted, Done + 1)
  BY <1>1 DEF Done
<1>5. /\ accepted' \in Seq(Command) /\ Len(accepted') = Len(accepted) - 1
      /\ \A n \in 1..(Len(accepted) - 1) :
           accepted'[n] = IF n < Done + 1 THEN accepted[n] ELSE accepted[n + 1]
  BY <1>2, <1>3, <1>4, RemoveAtElements
<1>6. Done' = Done
  BY <1>2, <1>3, <1>5 DEF Done
<1>7. InvPlaced'
  BY <1>1 DEF Inv, InvPlaced
<1>8. ASSUME NEW i \in 1..Len(queue') PROVE queue'[i] = accepted'[Done + i]
  <2>1. Done + i \in 1..(Len(accepted) - 1) /\ ~(Done + i < Done + 1)
    BY <1>2, <1>3 DEF Done
  <2> QED BY <2>1, <1>2, <1>5
<1>9. InvQueue'
  BY <1>1, <1>2, <1>3, <1>5, <1>6, <1>8 DEF InvQueue
<1>10. \A n \in 1..Done : accepted'[n] = accepted[n]
  BY <1>2, <1>3, <1>5
<1>11. InvHanded'
  BY <1>1, <1>6, <1>10 DEF Inv, InvHanded, Mappable, ToCommand, Objects
<1> QED BY <1>7, <1>9, <1>11 DEF Inv

\* A tick with nothing to hand on.
LEMMA IdleStep ==
  ASSUME Inv, Rate = 1, NEW done, TickIdle(done)
  PROVE  Inv'
<1>1. Advance /\ UNCHANGED <<sizes, idMapping, lastLoc, queue, received, accepted>>
  BY DEF TickIdle, Placement
<1>2. phase' = 0
  BY <1>1, NextPhase DEF Inv, InvQueue
<1> QED
  BY <1>1, <1>2
  DEF Inv, InvPlaced, InvQueue, InvHanded, Done, Mappable, ToCommand, Objects

\* Every step keeps the invariant.
LEMMA StepInv ==
  ASSUME Inv, Rate = 1, [Next]_vars
  PROVE  Inv'
<1>1. CASE UNCHANGED vars
  BY <1>1 DEF vars, Inv, InvPlaced, InvQueue, InvHanded, Done, Mappable, ToCommand, Objects
<1>2. CASE \E n \in Sizes, a \in Local \cup {Default} : InstantPlaceData(n, a)
  BY <1>2, PlaceStep
<1>3. CASE \E cmd \in Command : AddTransaction(cmd)
  BY <1>3, AddStep
<1>4. CASE \E done \in SUBSET Core : Tick(done)
  <2>1. PICK done \in SUBSET Core : Tick(done)
    BY <1>4
  <2> QED BY <2>1, CommandStep, RaiseStep, IdleStep DEF Tick
<1> QED BY <1>1, <1>2, <1>3, <1>4 DEF Next

(***************************************************************************)
(* The theorems.                                                           *)
(***************************************************************************)

\* What the invariant says of the whole queue is Delivery.
LEMMA InvDelivers ==
  ASSUME Inv
  PROVE  Delivery
<1>1. /\ queue \in Seq(Command) /\ accepted \in Seq(Command)
      /\ Len(queue) \in Nat /\ Len(accepted) \in Nat /\ Len(queue) <= Len(accepted)
      /\ \A i \in 1..Len(queue) : queue[i] = accepted[Done + i]
  BY LenProperties DEF Inv, InvQueue
<1>2. Done \in Nat /\ Done + Len(queue) = Len(accepted)
  BY <1>1 DEF Done
<1> DEFINE rest == SubSeq(accepted, Done + 1, Len(accepted))
<1>3. \A i \in (Done + 1)..Len(accepted) : accepted[i] \in Command
  <2> TAKE i \in (Done + 1)..Len(accepted)
  <2>1. i \in 1..Len(accepted)
    BY <1>1, <1>2
  <2> QED BY <2>1, <1>1, ElementOfSeq
<1>4. /\ rest \in Seq(Command) /\ Len(rest) = Len(queue)
      /\ \A i \in 1..Len(queue) : rest[i] = accepted[Done + i]
  <2>1. /\ rest \in Seq(Command)
        /\ Len(rest) = IF Done + 1 <= Len(accepted) THEN Len(accepted) - (Done + 1) + 1 ELSE 0
        /\ \A i \in 1..(Len(accepted) - (Done + 1) + 1) : rest[i] = accepted[(Done + 1) + i - 1]
    BY <1>1, <1>2, <1>3, SubSeqProperties
  <2>2. Len(accepted) - (Done + 1) + 1 = Len(queue)
    BY <1>1, <1>2
  <2>3. \A i \in 1..Len(queue) : (Done + 1) + i - 1 = Done + i
    BY <1>1, <1>2
  <2>4. Done + 1 <= Len(accepted) \/ Len(queue) = 0
    BY <1>1, <1>2
  <2> HIDE DEF rest
  <2>5. Len(rest) = Len(queue)
    BY <1>1, <1>2, <2>1, <2>2, <2>4
  <2>6. \A i \in 1..Len(queue) : rest[i] = accepted[Done + i]
    BY <2>1, <2>2, <2>3
  <2> QED BY <2>1, <2>5, <2>6
<1>5. rest = queue
  <2> HIDE DEF rest
  <2> QED BY <1>1, <1>4, SeqEqual
<1>6. \A c \in Core : received[c] = [n \in 1..Done |-> ToCommand(accepted[n])]
  BY DEF Inv, InvHanded
<1>7. Done >= 0 /\ SubSeq(accepted, Done + 1, Len(accepted)) = queue
  BY <1>2, <1>5
<1> QED BY <1>6, <1>7 DEF Delivery, Done

\* lib/device/base.py with cores as fast as the device: every command the
\* device accepted is queued or has reached every core, in order, as the ranges
\* of the objects it names, whatever the host does in between.
THEOREM DeliveryHolds ==
  ASSUME Rate = 1
  PROVE  Spec => []Delivery
<1>1. Init => Inv
  BY InitInv
<1>2. Inv /\ [Next]_vars => Inv'
  BY StepInv
<1>3. Inv => Delivery
  BY InvDelivers
<1> QED BY <1>1, <1>2, <1>3, PTL DEF Spec

-----------------------------------------------------------------------------
(* The placement of objects.                                               *)
LastAddress == NumCores * BankSize
Entries == [index : Int, offset : Int]
Table(t) == Normal(t, LastAddress, Entries)

\* The addresses of core c that an object of n chunks at addr takes up, and
\* what the address i behind its beginning there is mapped to.
Inside(a, addr, n, c) == Canonical(c, addr) <= a /\ a < Canonical(c, addr) + ChunksPerCore(n)
Slot(id, n, c, i) == IF i < Share(n, c) THEN [index |-> id, offset |-> Before(n, c)]
                                        ELSE [index |-> Padding, offset |-> 0]

(***************************************************************************)
(* The arithmetic of shares and banks.                                     *)
(***************************************************************************)

\* All cores together have room for the object.
LEMMA WidthFacts ==
  ASSUME NEW n \in Nat \ {0}
  PROVE  /\ ChunksPerCore(n) \in Nat \ {0}
         /\ n <= NumCores * ChunksPerCore(n)
<1>1. NumCores \in Nat /\ NumCores > 0
  BY CoresAssumption
<1> DEFINE m == n + NumCores - 1
<1> DEFINE w == m \div NumCores
<1>2. m \in Nat /\ m >= NumCores
  BY <1>1
<1> HIDE DEF m
<1>3. w \in Int /\ NumCores * w <= m /\ m < NumCores * w + NumCores
  BY <1>1, <1>2
<1> HIDE DEF w
<1>4. w > 0
  <2> SUFFICES ASSUME w <= 0 PROVE FALSE
    BY <1>3
  <2>1. PICK v \in Nat : w = 0 - v
    <3>1. 0 - w \in Nat /\ w = 0 - (0 - w)
      BY <1>3
    <3> QED BY <3>1
  <2>2. NumCores * v \in Nat /\ NumCores * w = 0 - NumCores * v
    BY <1>1, <2>1
  <2> QED BY <1>1, <1>2, <1>3, <2>2
<1>5. n <= NumCores * w
  <2>1. NumCores * w \in Int
    BY <1>1, <1>3
  <2> QED BY <1>1, <1>3, <2>1 DEF m
<1> QED BY <1>3, <1>4, <1>5 DEF ChunksPerCore, w, m

\* Chunk n of the object is chunk i of the share of core k.
LEMMA ShareFacts ==
  ASSUME NEW n \in Nat \ {0}, NEW k \in Nat
  PROVE  /\ ChunksPerCore(n) \in Nat \ {0} /\ k * ChunksPerCore(n) \in Nat
         /\ Before(n, k) \in Nat /\ Share(n, k) \in 0..ChunksPerCore(n)
         /\ \A i \in 0..(ChunksPerCore(n) - 1) :
              i < Share(n, k) <=> k * ChunksPerCore(n) + i < n
         /\ Share(n, k) > 0 => Before(n, k) = k * ChunksPerCore(n)
<1> DEFINE w == ChunksPerCore(n)
<1>1. w \in Nat \ {0}
  BY WidthFacts
<1>2. k * w \in Nat
  BY <1>1
<1>3. Before(n, k) = IF n < k * w THEN n ELSE k * w
  BY DEF Before, Lesser
<1>4. Share(n, k) = IF n - Before(n, k) < w THEN n - Before(n, k) ELSE w
  BY DEF Share, Lesser
<1> DEFINE x == k * w
<1> HIDE DEF w
<1>5. x \in Nat
  BY <1>2
<1> HIDE DEF x
<1>6. Before(n, k) = IF n < x THEN n ELSE x
  BY <1>3 DEF x
<1>7. Before(n, k) \in Nat /\ Share(n, k) \in 0..w
  BY <1>1, <1>4, <1>5, <1>6
<1>8. \A i \in 0..(w - 1) : i < Share(n, k) <=> x + i < n
  BY <1>1, <1>4, <1>5, <1>6
<1>9. Share(n, k) > 0 => Before(n, k) = x
  BY <1>1, <1>4, <1>5, <1>6
<1> QED BY <1>1, <1>5, <1>7, <1>8, <1>9 DEF w, x

\* A range inside the banks is inside the memory on every core.
LEMMA BankFacts ==
  ASSUME NEW c \in Core, NEW x \in Nat, x <= BankSize
  PROVE  /\ c \in Nat /\ LastAddress \in Nat /\ c * BankSize \in Nat
         /\ Canonical(c, x) \in 0..LastAddress /\ Canonical(c, x) = c * BankSize + x
<1>1. c \in Nat /\ NumCores \in Nat /\ BankSize \in Nat /\ c < NumCores
  BY CoresAssumption DEF Core
<1>2. c * BankSize + BankSize <= NumCores * BankSize
      /\ c * BankSize \in Nat /\ NumCores * BankSize \in Nat
  BY <1>1, MultiplesApart
<1> QED BY <1>1, <1>2 DEF Canonical, LastAddress

\* An address belongs to one core.
LEMMA OneBank ==
  ASSUME NEW c \in Core, NEW d \in Core, NEW x \in 0..(BankSize - 1), NEW y \in 0..(BankSize - 1),
         Canonical(c, x) = Canonical(d, y)
  PROVE  c = d /\ x = y
<1>1. c \in Nat /\ d \in Nat /\ BankSize \in Nat
  BY CoresAssumption DEF Core
<1> DEFINE p == c * BankSize
<1> DEFINE q == d * BankSize
<1>2. p + x = q + y /\ p \in Nat /\ q \in Nat
  BY <1>1 DEF Canonical
<1>3. c < d => p + BankSize <= q
  BY <1>1, MultiplesApart
<1>4. d < c => q + BankSize <= p
  BY <1>1, MultiplesApart
<1>5. c = d => p = q
  OBVIOUS
<1> HIDE DEF p, q
<1>6. ~(c < d) /\ ~(d < c)
  BY <1>1, <1>2, <1>3, <1>4
<1>7. c = d
  BY <1>1, <1>6
<1> QED BY <1>2, <1>5, <1>7

\* ... also when it is given as a position in a range of that core.
LEMMA OneCore ==
  ASSUME NEW a \in Int, NEW n \in Nat \ {0}, NEW x \in Nat, x + ChunksPerCore(n) <= BankSize,
         NEW m \in Nat \ {0}, NEW y \in Nat, y + ChunksPerCore(m) <= BankSize,
         NEW c \in Core, NEW d \in Core, Inside(a, x, n, c), Inside(a, y, m, d)
  PROVE  /\ c = d
         /\ x < y + ChunksPerCore(m) /\ y < x + ChunksPerCore(n)
<1>1. BankSize \in Nat /\ ChunksPerCore(n) \in Nat /\ ChunksPerCore(m) \in Nat
  BY CoresAssumption, WidthFacts
<1>2. /\ Canonical(c, x) = c * BankSize + x /\ c * BankSize \in Nat
      /\ Canonical(d, y) = d * BankSize + y /\ d * BankSize \in Nat
  BY <1>1, BankFacts
<1> DEFINE i == a - c * BankSize
<1> DEFINE j == a - d * BankSize
<1>3. /\ i \in Int /\ x <= i /\ i < x + ChunksPerCore(n)
      /\ j \in Int /\ y <= j /\ j < y + ChunksPerCore(m)
  BY <1>1, <1>2 DEF Inside
<1>4. i \in 0..(BankSize - 1) /\ j \in 0..(BankSize - 1)
  BY <1>1, <1>3
<1>5. Canonical(c, i) = a /\ Canonical(d, j) = a
  BY <1>1, <1>2 DEF Canonical
<1> HIDE DEF i, j
<1>6. c = d /\ i = j
  BY <1>4, <1>5, OneBank
<1> QED BY <1>1, <1>3, <1>6

(***************************************************************************)
(* The loop over the cores.                                                *)
(***************************************************************************)

\* add_mapping, of the tables of this module.
LEMMA TableMapped ==
  ASSUME NEW t, Table(t), NEW s \in 0..LastAddress, NEW e \in 0..LastAddress, s <= e,
         NEW i \in Int, NEW o \in Int
  PROVE  /\ Table(Mapped(t, s, e, i, o))
         /\ \A a \in 0..LastAddress : Entry(Mapped(t, s, e, i, o), a)
              = IF s <= a /\ a < e THEN [index |-> i, offset |-> o] ELSE Entry(t, a)
<1>1. LastAddress \in Nat /\ Proper(t, LastAddress, Entries)
  BY CoresAssumption DEF LastAddress, Table, Normal
<1>2. [index |-> i, offset |-> o] \in Entries
  BY DEF Entries
<1> QED BY <1>1, <1>2, MappedEntry DEF Table, Normal

\* The body of the loop maps the share of its core, pads it, and touches no
\* other address.
LEMMA MapShareFacts ==
  ASSUME NEW t, Table(t), NEW id \in Int, NEW n \in Nat \ {0},
         NEW addr \in Nat, addr + ChunksPerCore(n) <= BankSize, NEW k \in Core
  PROVE  /\ Table(MapShare(t, id, n, addr, k))
         /\ \A a \in 0..LastAddress : Entry(MapShare(t, id, n, addr, k), a)
              = IF Inside(a, addr, n, k) THEN Slot(id, n, k, a - Canonical(k, addr))
                                         ELSE Entry(t, a)
<1> DEFINE w == ChunksPerCore(n)
<1> DEFINE s == Canonical(k, addr)
<1> DEFINE h == Share(n, k)
<1> DEFINE u == Mapped(t, s, s + h, id, Before(n, k))
<1> DEFINE v == Mapped(u, s + h, s + w, Padding, 0)
<1>1. k \in Nat /\ BankSize \in Nat
  BY CoresAssumption DEF Core
<1>2. w \in Nat \ {0} /\ h \in 0..w /\ Before(n, k) \in Int
  BY <1>1, ShareFacts
<1>3. s \in 0..LastAddress /\ s + w \in 0..LastAddress /\ LastAddress \in Nat
  <2>1. addr <= BankSize /\ addr + w \in Nat
    BY <1>1, <1>2
  <2>2. /\ s \in 0..LastAddress /\ Canonical(k, addr + w) \in 0..LastAddress /\ LastAddress \in Nat
        /\ s = k * BankSize + addr /\ Canonical(k, addr + w) = k * BankSize + (addr + w)
        /\ k * BankSize \in Nat
    BY <2>1, BankFacts
  <2>3. s + w = Canonical(k, addr + w)
    BY <1>2, <2>2
  <2> QED BY <2>2, <2>3
<1>4. s + h \in 0..LastAddress /\ s <= s + h /\ s + h <= s + w
  BY <1>2, <1>3
<1>5. MapShare(t, id, n, addr, k) = IF h < w THEN v ELSE u
  BY DEF MapShare
<1>6. \A a \in 0..LastAddress :
        /\ Inside(a, addr, n, k) <=> s <= a /\ a < s + w
        /\ Slot(id, n, k, a - s) = IF a - s < h THEN [index |-> id, offset |-> Before(n, k)]
                                               ELSE [index |-> Padding, offset |-> 0]
  BY DEF Inside, Slot
<1>7. /\ Table(u)
      /\ \A a \in 0..LastAddress : Entry(u, a)
           = IF s <= a /\ a < s + h THEN [index |-> id, offset |-> Before(n, k)] ELSE Entry(t, a)
  <2> HIDE DEF s, h
  <2> QED BY <1>2, <1>3, <1>4, TableMapped
<1> HIDE DEF u
<1>8. /\ Table(v)
      /\ \A a \in 0..LastAddress : Entry(v, a)
           = IF s + h <= a /\ a < s + w THEN [index |-> Padding, offset |-> 0] ELSE Entry(u, a)
  <2> HIDE DEF s, h, w
  <2>1. Padding \in Int /\ 0 \in Int
    BY DEF Padding
  <2> QED BY <2>1, <1>3, <1>4, <1>7, TableMapped
<1> HIDE DEF v
<1> DEFINE p == MapShare(t, id, n, addr, k)
<1>9. Table(p)
  BY <1>5, <1>7, <1>8
<1>10. ASSUME NEW a \in 0..LastAddress
       PROVE  Entry(p, a) = IF Inside(a, addr, n, k) THEN Slot(id, n, k, a - s) ELSE Entry(t, a)
  <2>1. Inside(a, addr, n, k) <=> s <= a /\ a < s + w
    BY <1>6
  <2>2. Slot(id, n, k, a - s) = IF a - s < h THEN [index |-> id, offset |-> Before(n, k)]
                                             ELSE [index |-> Padding, offset |-> 0]
    BY <1>6
  <2>3. p = IF h < w THEN v ELSE u
    BY <1>5
  <2>4. Entry(u, a)
          = IF s <= a /\ a < s + h THEN [index |-> id, offset |-> Before(n, k)] ELSE Entry(t, a)
    BY <1>7
  <2>5. Entry(v, a)
          = IF s + h <= a /\ a < s + w THEN [index |-> Padding, offset |-> 0] ELSE Entry(u, a)
    BY <1>8
  <2> HIDE DEF p, s, h, w
  <2>6. CASE h < w
    BY <2>6, <2>1, <2>2, <2>3, <2>4, <2>5, <1>2, <1>3
  <2>7. CASE ~(h < w)
    BY <2>7, <2>1, <2>2, <2>3, <2>4, <1>2, <1>3
  <2> QED BY <2>6, <2>7
<1> QED BY <1>9, <1>10

\* The tables before and after every round of the loop.
IsLoop(f, m, t, id, n, addr) ==
  f = [k \in 0..m |-> IF k = 0 THEN t ELSE MapShare(f[k - 1], id, n, addr, k - 1)]

\* The loop has them, however many rounds it has.
LEMMA LoopExists ==
  ASSUME NEW t, NEW id, NEW n, NEW addr
  PROVE  \A m \in Nat : \E f : IsLoop(f, m, t, id, n, addr)
<1> DEFINE T == {m \in Nat : ~ \E f : IsLoop(f, m, t, id, n, addr)}
<1> SUFFICES ASSUME T # {} PROVE FALSE
  OBVIOUS
<1>1. PICK m \in T : \A l \in T : m <= l
  <2>1. T \subseteq Nat
    OBVIOUS
  <2> HIDE DEF T
  <2> QED BY <2>1, NatMin
<1>2. m \in Nat /\ ~ \E f : IsLoop(f, m, t, id, n, addr)
  OBVIOUS
<1>3. CASE m = 0
  <2> DEFINE f == [k \in 0..0 |-> t]
  <2>1. f = [k \in 0..0 |-> IF k = 0 THEN t ELSE MapShare(f[k - 1], id, n, addr, k - 1)]
    OBVIOUS
  <2>2. IsLoop(f, m, t, id, n, addr)
    BY <1>3, <2>1 DEF IsLoop
  <2> QED BY <1>2, <2>2
<1>4. CASE m # 0
  <2>1. m - 1 \in Nat /\ ~(m <= m - 1)
    BY <1>2, <1>4
  <2>2. m - 1 \notin T
    BY <1>1, <2>1
  <2>3. PICK f : IsLoop(f, m - 1, t, id, n, addr)
    BY <2>1, <2>2
  <2> DEFINE g == [k \in 0..m |-> IF k = m THEN MapShare(f[m - 1], id, n, addr, m - 1) ELSE f[k]]
  <2>4. \A k \in 0..(m - 1) :
          f[k] = IF k = 0 THEN t ELSE MapShare(f[k - 1], id, n, addr, k - 1)
    BY <2>3 DEF IsLoop
  <2>5. ASSUME NEW k \in 0..m
        PROVE  g[k] = IF k = 0 THEN t ELSE MapShare(g[k - 1], id, n, addr, k - 1)
    <3>1. k = m \/ k \in 0..(m - 1)
      BY <1>2
    <3>2. k # 0 => k - 1 \in 0..m /\ k - 1 # m /\ g[k - 1] = f[k - 1]
      BY <1>2
    <3>3. k = m => g[k] = MapShare(f[k - 1], id, n, addr, k - 1)
      OBVIOUS
    <3>4. k # m => g[k] = f[k]
      OBVIOUS
    <3>5. k = m => k # 0
      BY <1>4
    <3> HIDE DEF g
    <3> QED BY <3>1, <3>2, <3>3, <3>4, <3>5, <2>4
  <2>6. g = [k \in 0..m |-> IF k = 0 THEN t ELSE MapShare(g[k - 1], id, n, addr, k - 1)]
    <3>1. g = [k \in 0..m |-> g[k]]
      OBVIOUS
    <3> HIDE DEF g
    <3> QED BY <3>1, <2>5
  <2>7. IsLoop(g, m, t, id, n, addr)
    <3> HIDE DEF g
    <3> QED BY <2>6 DEF IsLoop
  <2> QED BY <1>2, <2>7
<1> QED BY <1>3, <1>4

\* The table PlaceData is that after the last round.
LEMMA LoopResult ==
  ASSUME NEW t, NEW id, NEW n, NEW addr
  PROVE  \E f : IsLoop(f, NumCores, t, id, n, addr) /\ PlaceData(t, id, n, addr) = f[NumCores]
<1> DEFINE f == CHOOSE f : IsLoop(f, NumCores, t, id, n, addr)
<1>1. NumCores \in Nat
  BY CoresAssumption
<1>2. IsLoop(f, NumCores, t, id, n, addr)
  BY <1>1, LoopExists
<1>3. PlaceData(t, id, n, addr) = f[NumCores]
  BY DEF PlaceData, IsLoop
<1> QED BY <1>2, <1>3

\* What a round has done so far, and what it has left alone.
Reached(u, k, t, id, n, addr) ==
  /\ Table(u)
  /\ \A a \in 0..LastAddress :
       /\ \A c \in Core : c < k /\ Inside(a, addr, n, c)
            => Entry(u, a) = Slot(id, n, c, a - Canonical(c, addr))
       /\ (\A c \in Core : c < k => ~Inside(a, addr, n, c)) => Entry(u, a) = Entry(t, a)

\* One more round.
LEMMA ReachedNext ==
  ASSUME NEW t, NEW id \in Int, NEW n \in Nat \ {0},
         NEW addr \in Nat, addr + ChunksPerCore(n) <= BankSize, NEW k \in Core,
         NEW u, Reached(u, k, t, id, n, addr)
  PROVE  Reached(MapShare(u, id, n, addr, k), k + 1, t, id, n, addr)
<1> DEFINE v == MapShare(u, id, n, addr, k)
<1>1. /\ Table(v)
      /\ \A a \in 0..LastAddress : Entry(v, a)
           = IF Inside(a, addr, n, k) THEN Slot(id, n, k, a - Canonical(k, addr)) ELSE Entry(u, a)
  BY MapShareFacts DEF Reached
<1>2. \A c \in Core : c \in Nat
  BY CoresAssumption DEF Core
<1> HIDE DEF v
<1>3. ASSUME NEW a \in 0..LastAddress, NEW c \in Core, c < k + 1, Inside(a, addr, n, c)
      PROVE  Entry(v, a) = Slot(id, n, c, a - Canonical(c, addr))
  <2>1. CASE c = k
    BY <2>1, <1>1, <1>3
  <2>2. CASE c # k
    <3>1. c < k
      BY <2>2, <1>2, <1>3
    <3>2. ~Inside(a, addr, n, k)
      BY <2>2, <1>3, OneCore
    <3> QED BY <3>1, <3>2, <1>1, <1>3 DEF Reached
  <2> QED BY <2>1, <2>2
<1>4. ASSUME NEW a \in 0..LastAddress, \A c \in Core : c < k + 1 => ~Inside(a, addr, n, c)
      PROVE  Entry(v, a) = Entry(t, a)
  <2>1. k < k + 1 /\ \A c \in Core : c < k => c < k + 1
    BY <1>2
  <2>2. Entry(v, a) = Entry(u, a)
    BY <2>1, <1>1, <1>4
  <2>3. Entry(u, a) = Entry(t, a)
    BY <2>1, <1>4 DEF Reached
  <2> QED BY <2>2, <2>3
<1>5. Reached(v, k + 1, t, id, n, addr)
  BY <1>1, <1>3, <1>4 DEF Reached
<1> QED BY <1>5 DEF v

\* pim_device_place_data maps the share of every core and nothing else.
LEMMA PlaceDataFacts ==
  ASSUME NEW t, Table(t), NEW id \in Int, NEW n \in Nat \ {0},
         NEW addr \in Nat, addr + ChunksPerCore(n) <= BankSize
  PROVE  /\ Table(PlaceData(t, id, n, addr))
         /\ \A a \in 0..LastAddress :
              /\ \A c \in Core : Inside(a, addr, n, c) =>
                   Entry(PlaceData(t, id, n, addr), a) = Slot(id, n, c, a - Canonical(c, addr))
              /\ (\A c \in Core : ~Inside(a, addr, n, c)) =>
                   Entry(PlaceData(t, id, n, addr), a) = Entry(t, a)
<1>1. NumCores \in Nat
  BY CoresAssumption
<1>2. PICK f : IsLoop(f, NumCores, t, id, n, addr) /\ PlaceData(t, id, n, addr) = f[NumCores]
  BY LoopResult
<1>3. /\ f[0] = t
      /\ \A k \in 0..NumCores : k # 0 => f[k] = MapShare(f[k - 1], id, n, addr, k - 1)
  BY <1>1, <1>2 DEF IsLoop
<1> DEFINE T == {k \in 0..NumCores : ~Reached(f[k], k, t, id, n, addr)}
<1>4. T = {}
  <2> SUFFICES ASSUME T # {} PROVE FALSE
    OBVIOUS
  <2>1. PICK k \in T : \A l \in T : k <= l
    <3>1. T \subseteq Nat
      BY <1>1
    <3> HIDE DEF T
    <3> QED BY <3>1, NatMin
  <2>2. k \in 0..NumCores /\ ~Reached(f[k], k, t, id, n, addr)
    OBVIOUS
  <2>3. CASE k = 0
    <3>1. \A c \in Core : ~(c < 0)
      BY DEF Core
    <3>2. Reached(t, 0, t, id, n, addr)
      BY <3>1 DEF Reached
    <3> QED BY <3>2, <2>2, <2>3, <1>3
  <2>4. CASE k # 0
    <3>1. k - 1 \in 0..NumCores /\ k - 1 \in Core /\ ~(k <= k - 1) /\ k - 1 + 1 = k
      BY <1>1, <2>2, <2>4 DEF Core
    <3>2. k - 1 \notin T
      BY <2>1, <3>1
    <3>3. Reached(f[k - 1], k - 1, t, id, n, addr)
      BY <3>1, <3>2
    <3>4. Reached(MapShare(f[k - 1], id, n, addr, k - 1), k - 1 + 1, t, id, n, addr)
      BY <3>1, <3>3, ReachedNext
    <3> QED BY <3>1, <3>4, <2>2, <2>4, <1>3
  <2> QED BY <2>3, <2>4
<1>5. Reached(f[NumCores], NumCores, t, id, n, addr)
  <2>1. NumCores \in 0..NumCores
    BY <1>1
  <2> QED BY <1>4, <2>1
<1>6. \A c \in Core : c < NumCores
  BY <1>1 DEF Core
<1> QED BY <1>2, <1>5, <1>6 DEF Reached

(***************************************************************************)
(* Where an object lies.                                                   *)
(***************************************************************************)

\* Object id of n chunks lies at x: its shares and their padding are mapped on
\* every core, and no other address is mapped to it.
Lies(t, id, n, x) ==
  \A a \in 0..LastAddress :
    /\ \A c \in Core : Inside(a, x, n, c) => Entry(t, a) = Slot(id, n, c, a - Canonical(c, x))
    /\ Entry(t, a).index = id => \E c \in Core : Inside(a, x, n, c)

\* An object that is placed lies where it was placed, if its id is new.
LEMMA LiesNew ==
  ASSUME NEW t, Table(t), NEW id \in Nat, NEW n \in Nat \ {0},
         NEW x \in Nat, x + ChunksPerCore(n) <= BankSize,
         \A a \in 0..LastAddress : Entry(t, a).index # id
  PROVE  Lies(PlaceData(t, id, n, x), id, n, x)
<1> DEFINE u == PlaceData(t, id, n, x)
<1>1. \A a \in 0..LastAddress :
        /\ \A c \in Core : Inside(a, x, n, c) => Entry(u, a) = Slot(id, n, c, a - Canonical(c, x))
        /\ (\A c \in Core : ~Inside(a, x, n, c)) => Entry(u, a) = Entry(t, a)
  BY PlaceDataFacts
<1> HIDE DEF u
<1>2. Lies(u, id, n, x)
  BY <1>1 DEF Lies
<1> QED BY <1>2 DEF u

\* ... and the others stay where they are, if it is placed apart from them.
LEMMA LiesKept ==
  ASSUME NEW t, Table(t), NEW id \in Nat, NEW n \in Nat \ {0},
         NEW x \in Nat, x + ChunksPerCore(n) <= BankSize,
         NEW new \in Nat \ {id}, NEW m \in Nat \ {0},
         NEW y \in Nat, y + ChunksPerCore(m) <= BankSize,
         y + ChunksPerCore(m) <= x \/ x + ChunksPerCore(n) <= y,
         Lies(t, id, n, x)
  PROVE  Lies(PlaceData(t, new, m, y), id, n, x)
<1> DEFINE u == PlaceData(t, new, m, y)
<1>1. \A a \in 0..LastAddress :
        /\ \A c \in Core : Inside(a, y, m, c) => Entry(u, a) = Slot(new, m, c, a - Canonical(c, y))
        /\ (\A c \in Core : ~Inside(a, y, m, c)) => Entry(u, a) = Entry(t, a)
  BY PlaceDataFacts, SMTT(20)
<1> HIDE DEF u
<1>2. ASSUME NEW a \in 0..LastAddress, NEW c \in Core, Inside(a, x, n, c)
      PROVE  Entry(u, a) = Slot(id, n, c, a - Canonical(c, x))
  <2>1. ASSUME NEW d \in Core, Inside(a, y, m, d) PROVE FALSE
    <3>1. x < y + ChunksPerCore(m) /\ y < x + ChunksPerCore(n)
      BY <1>2, <2>1, OneCore
    <3>2. ChunksPerCore(m) \in Nat /\ ChunksPerCore(n) \in Nat
      BY WidthFacts
    <3> QED BY <3>1, <3>2
  <2> QED BY <2>1, <1>1, <1>2 DEF Lies
<1>3. ASSUME NEW a \in 0..LastAddress, Entry(u, a).index = id
      PROVE  \E c \in Core : Inside(a, x, n, c)
  <2>1. ASSUME NEW d \in Core, Inside(a, y, m, d) PROVE FALSE
    <3>1. Entry(u, a) = Slot(new, m, d, a - Canonical(d, y))
      BY <1>1, <2>1
    <3> QED BY <3>1, <1>3 DEF Slot, Padding
  <2> QED BY <2>1, <1>1, <1>3 DEF Lies
<1>4. Lies(u, id, n, x)
  BY <1>2, <1>3 DEF Lies
<1> QED BY <1>4 DEF u

\* Where an object lies its chunks are found in order, core after core: the
\* share of a core is a run of its own, even if the share of the core before
\* ends just below it.
LEMMA LiesAddressed ==
  ASSUME NEW t, Table(t), NEW id \in Nat, NEW n \in Nat \ {0},
         NEW x \in Nat, x + ChunksPerCore(n) <= BankSize, Lies(t, id, n, x),
         NEW c \in Core, NEW i \in 0..(ChunksPerCore(n) - 1)
  PROVE  LET a == Canonical(c, x + i)
             k == c * ChunksPerCore(n) + i
         IN  IF k < n THEN IndexAt(t, a) = id /\ OffsetAt(t, a) = k
                      ELSE IndexAt(t, a) = Padding
<1> DEFINE w == ChunksPerCore(n)
<1> DEFINE h == Share(n, c)
<1> DEFINE s == Canonical(c, x)
<1> DEFINE a == Canonical(c, x + i)
<1>1. BankSize \in Nat /\ \A d \in Core : d \in Nat
  BY CoresAssumption DEF Core
<1>2. /\ w \in Nat \ {0} /\ c * w \in Nat /\ h \in 0..w
      /\ i < h <=> c * w + i < n
  BY <1>1, ShareFacts
<1>3. /\ s \in 0..LastAddress /\ LastAddress \in Nat
      /\ \A j \in 0..w : Canonical(c, x + j) = s + j /\ s + j \in 0..LastAddress
  <2>1. ASSUME NEW j \in 0..w
        PROVE  /\ Canonical(c, x + j) = c * BankSize + (x + j)
               /\ Canonical(c, x + j) \in 0..LastAddress
    <3>1. x + j \in Nat /\ x + j <= BankSize
      BY <1>1, <1>2
    <3> QED BY <3>1, BankFacts
  <2>2. s \in 0..LastAddress /\ LastAddress \in Nat /\ s = c * BankSize + x /\ c * BankSize \in Nat
    <3>1. x <= BankSize
      BY <1>1, <1>2
    <3> QED BY <3>1, BankFacts
  <2>3. ASSUME NEW j \in 0..w PROVE c * BankSize + (x + j) = s + j
    BY <2>2
  <2> QED BY <2>1, <2>2, <2>3
<1>4. a = s + i /\ a \in 0..LastAddress
  BY <1>2, <1>3
<1> HIDE DEF a
<1>5. ASSUME NEW j \in 0..(w - 1) PROVE Entry(t, s + j) = Slot(id, n, c, j)
  <2>1. s + j \in 0..LastAddress /\ (s + j) - s = j
    BY <1>2, <1>3
  <2>2. Inside(s + j, x, n, c)
    <3>1. s <= s + j /\ s + j < s + w
      BY <1>2, <1>3
    <3> QED BY <3>1 DEF Inside
  <2>3. \A b \in 0..LastAddress : Inside(b, x, n, c) => Entry(t, b) = Slot(id, n, c, b - s)
    BY DEF Lies
  <2> DEFINE b == s + j
  <2>4. b \in 0..LastAddress /\ Inside(b, x, n, c) /\ b - s = j
    <3>1. b \in 0..LastAddress /\ b - s = j
      BY <2>1
    <3>2. Inside(b, x, n, c)
      BY <2>2
    <3> QED BY <3>1, <3>2
  <2> HIDE DEF b, s
  <2>5. Entry(t, b) = Slot(id, n, c, b - s)
    BY <2>3, <2>4
  <2>6. Entry(t, b) = Slot(id, n, c, j)
    BY <2>4, <2>5
  <2> QED BY <2>6 DEF b
<1>6. CASE ~(i < h)
  <2>1. Entry(t, a) = [index |-> Padding, offset |-> 0]
    BY <1>4, <1>5, <1>6 DEF Slot
  <2>2. IndexAt(t, a) = Padding
    BY <2>1 DEF IndexAt
  <2> QED BY <1>2, <1>6, <2>2 DEF a
<1>7. CASE i < h
  <2> DEFINE y == [index |-> id, offset |-> c * w]
  <2> DEFINE e == s + h
  <2>1. Before(n, c) = c * w
    <3>1. h > 0
      BY <1>2, <1>7
    <3> QED BY <3>1, <1>1, ShareFacts
  <2>2. \A b \in s..(e - 1) : Entry(t, b) = y
    <3> TAKE b \in s..(e - 1)
    <3>1. b - s \in 0..(w - 1) /\ b - s < h /\ s + (b - s) = b
      BY <1>2, <1>3
    <3>2. Entry(t, b) = Slot(id, n, c, b - s)
      BY <3>1, <1>5
    <3> QED BY <3>1, <3>2, <2>1 DEF Slot
  <2>3. s > 0 => Entry(t, s - 1) # y
    <3> SUFFICES ASSUME s > 0, Entry(t, s - 1) = y PROVE FALSE
      OBVIOUS
    <3>1. s - 1 \in 0..LastAddress
      BY <1>3
    <3>2. PICK d \in Core : Inside(s - 1, x, n, d)
      BY <3>1 DEF Lies
    <3>3. y = Slot(id, n, d, s - 1 - Canonical(d, x))
      BY <3>1, <3>2 DEF Lies
    <3>4. s - 1 - Canonical(d, x) < Share(n, d) /\ Before(n, d) = c * w
      BY <3>3 DEF Slot, Padding
    <3>5. Share(n, d) \in Int /\ Canonical(d, x) \in Int
      <4>1. d \in Nat /\ d * BankSize \in Nat
        BY <1>1
      <4>2. Share(n, d) \in 0..ChunksPerCore(n)
        BY <4>1, ShareFacts
      <4> QED BY <4>1, <4>2 DEF Canonical
    <3>6. Share(n, d) > 0
      <4>1. Canonical(d, x) <= s - 1
        BY <3>2 DEF Inside
      <4> QED BY <4>1, <3>4, <3>5, <1>3
    <3>7. d * w = c * w /\ d \in Nat /\ c \in Nat
      BY <1>1, <3>4, <3>6, ShareFacts
    <3>8. d = c
      <4>1. ~(d < c)
        <5> SUFFICES ASSUME d < c PROVE FALSE
          OBVIOUS
        <5>1. d * w + w <= c * w
          BY <3>7, <1>2, MultiplesApart
        <5> QED BY <5>1, <3>7, <1>2
      <4>2. ~(c < d)
        <5> SUFFICES ASSUME c < d PROVE FALSE
          OBVIOUS
        <5>1. c * w + w <= d * w
          BY <3>7, <1>2, MultiplesApart
        <5> QED BY <5>1, <3>7, <1>2
      <4> QED BY <4>1, <4>2, <3>7
    <3>9. s <= s - 1
      BY <3>2, <3>8 DEF Inside
    <3> QED BY <3>9, <1>3
  <2>4. RunFrom(t, y, s, e)
    <3> HIDE DEF s, e, y
    <3> QED BY <2>2, <2>3 DEF RunFrom
  <2>5. s \in Nat /\ e \in Nat /\ e - 1 <= LastAddress /\ a \in s..(e - 1)
    <3>1. e \in 0..LastAddress
      BY <1>2, <1>3
    <3> QED BY <3>1, <1>2, <1>3, <1>4, <1>7
  <2>6. Floor(DOMAIN t, a) = s
    <3>1. Normal(t, LastAddress, Entries) /\ LastAddress \in Nat
      BY <1>3 DEF Table
    <3> HIDE DEF s, y, e
    <3> QED BY <3>1, <2>4, <2>5, RunFloor
  <2>7. Entry(t, a) = y
    BY <2>2, <2>5
  <2>8. IndexAt(t, a) = id /\ OffsetAt(t, a) = c * w + i
    BY <1>2, <1>3, <1>4, <2>6, <2>7 DEF IndexAt, OffsetAt
  <2> QED BY <1>2, <1>7, <2>8 DEF a
<1> QED BY <1>6, <1>7

(***************************************************************************)
(* Type correctness.                                                       *)
(***************************************************************************)

\* The inductive invariant behind TypeOK, part by part: the table speaks of
\* objects there are, the host's lists agree, the history of commands is no
\* shorter than the queue and within its bound, a core works on what it got.
TableInv ==
  /\ Table(table)
  /\ \A a \in 0..LastAddress : Entry(table, a).index \in Objects \cup {Padding, Unmapped}

HostInv ==
  /\ sizes \in Seq(Sizes) /\ Len(sizes) <= MaxObjects
  /\ idMapping \in Seq(LocalRange) /\ Len(idMapping) = Len(sizes)
  /\ lastLoc \in Local

CommandInv ==
  /\ phase \in 0..(Rate - 1)
  /\ queue \in Seq(Command) /\ Len(queue) <= QueueLen
  /\ accepted \in Seq(Command) /\ Len(queue) <= Len(accepted)
  /\ raised \in Nat /\ Len(accepted) + raised <= MaxCommands

CoreInv ==
  /\ received \in [Core -> Seq(LocalRange \X LocalRange)]
  /\ \A c \in Core : work[c] \in 0..Len(received[c])

TypeInv == TableInv /\ HostInv /\ CommandInv /\ CoreInv

\* It says all that TypeOK does.
LEMMA TypeFacts ==
  ASSUME TypeInv
  PROVE  TypeOK
<1>1. Proper(table, LastAddress, Entries) /\ LastAddress \in Nat
  BY CoresAssumption DEF TypeInv, TableInv, Table, Normal, LastAddress
<1>2. DOMAIN table \subseteq 0..(NumCores * BankSize)
  BY <1>1, ProperDomain DEF LastAddress
<1>3. ASSUME NEW b \in DOMAIN table PROVE table[b].index \in Objects \cup {Padding, Unmapped}
  <2>1. b \in 0..LastAddress /\ Entry(table, b) = table[b]
    BY <1>1, EntryAtBoundary
  <2> QED BY <2>1 DEF TypeInv, TableInv
<1>4. raised \in 0..MaxCommands
  <2>1. Len(accepted) \in Nat /\ MaxCommands \in Nat
    BY LenProperties, CommandAssumption DEF TypeInv, CommandInv
  <2> QED BY <2>1 DEF TypeInv, CommandInv
<1> QED BY <1>2, <1>3, <1>4 DEF TypeInv, HostInv, CommandInv, CoreInv, TypeOK

\* A device nobody has used.
LEMMA InitType ==
  ASSUME Init
  PROVE  TypeInv
<1> USE DEF Init
<1>1. LastAddress \in Nat /\ BankSize \in Nat /\ MaxObjects \in Nat
      /\ MaxCommands \in Nat /\ QueueLen \in Nat /\ Rate \in Nat \ {0}
  BY CoresAssumption, ObjectAssumption, CommandAssumption, RateAssumption DEF LastAddress
<1>2. Proper(table, LastAddress, Entries) /\ DOMAIN table = {0} /\ table[0] = Blank
  BY <1>1 DEF Proper, EmptyTable, Entries, Blank, Unmapped
<1>3. Table(table)
  <2>1. ~Redundant(table, 0)
    BY <1>2 DEF Redundant
  <2> QED BY <1>2, <2>1 DEF Table, Normal
<1>4. ASSUME NEW a \in 0..LastAddress PROVE Entry(table, a).index = Unmapped
  <2>1. IsFloor(DOMAIN table, a, 0)
    BY <1>1, <1>2 DEF IsFloor
  <2>2. Entry(table, a) = table[0]
    BY <1>1, <1>2, <2>1, EntryByFloor
  <2> QED BY <1>2, <2>2 DEF Blank
<1>5. TableInv
  BY <1>3, <1>4 DEF TableInv
<1>6. HostInv
  BY <1>1 DEF HostInv, Local
<1>7. CommandInv
  BY <1>1 DEF CommandInv
<1>8. CoreInv
  BY DEF CoreInv
<1> QED BY <1>5, <1>6, <1>7, <1>8 DEF TypeInv

\* instant_place_data of a host that stays inside the bank.
LEMMA PlaceDoes ==
  ASSUME TypeInv, "overflow" \notin Careless,
         NEW n \in Sizes, NEW a \in Local \cup {Default}, InstantPlaceData(n, a)
  PROVE  \E x \in Nat :
           /\ n \in Nat \ {0} /\ x + ChunksPerCore(n) <= BankSize
           /\ Len(sizes) \in Nat /\ Len(sizes) < MaxObjects
           /\ table' = PlaceData(table, Len(sizes), n, x)
           /\ sizes' = Append(sizes, n)
           /\ idMapping' = Append(idMapping, <<x, x + ChunksPerCore(n)>>)
           /\ <<x, x + ChunksPerCore(n)>> \in LocalRange
           /\ lastLoc' = x + ChunksPerCore(n)
           /\ "overlap" \in Careless \/ Apart(<<x, x + ChunksPerCore(n)>>)
           /\ UNCHANGED <<queue, phase, received, work, accepted, raised>>
<1> DEFINE x == IF a <= Default THEN lastLoc ELSE a
<1> DEFINE w == ChunksPerCore(n)
<1>1. n \in Nat \ {0} /\ BankSize \in Nat
  BY ObjectAssumption, CoresAssumption
<1>2. w \in Nat
  BY <1>1, WidthFacts
<1>3. x \in Nat
  BY <1>1 DEF TypeInv, HostInv, Local, Default
<1>4. /\ x + w <= BankSize /\ Len(sizes) < MaxObjects
      /\ "overlap" \in Careless \/ Apart(<<x, x + w>>)
      /\ table' = PlaceData(table, Len(sizes), n, x)
      /\ sizes' = Append(sizes, n)
      /\ idMapping' = Append(idMapping, <<x, x + w>>)
      /\ lastLoc' = <<x, x + w>>[2]
      /\ UNCHANGED <<queue, phase, received, work, accepted, raised>>
  BY DEF InstantPlaceData, Located
<1> HIDE DEF x, w
<1>5. <<x, x + w>> \in LocalRange /\ <<x, x + w>>[2] = x + w
  BY <1>1, <1>2, <1>3, <1>4 DEF LocalRange, Local
<1>6. Len(sizes) \in Nat
  BY LenProperties DEF TypeInv, HostInv
<1> QED BY <1>1, <1>3, <1>4, <1>5, <1>6 DEF w

\* The new object is the only one the table did not know.
LEMMA PlaceType ==
  ASSUME TypeInv, "overflow" \notin Careless,
         NEW n \in Sizes, NEW a \in Local \cup {Default}, InstantPlaceData(n, a)
  PROVE  TypeInv'
<1>1. PICK x \in Nat :
        /\ n \in Nat \ {0} /\ x + ChunksPerCore(n) <= BankSize
        /\ Len(sizes) \in Nat /\ Len(sizes) < MaxObjects
        /\ table' = PlaceData(table, Len(sizes), n, x)
        /\ sizes' = Append(sizes, n)
        /\ idMapping' = Append(idMapping, <<x, x + ChunksPerCore(n)>>)
        /\ <<x, x + ChunksPerCore(n)>> \in LocalRange
        /\ lastLoc' = x + ChunksPerCore(n)
        /\ UNCHANGED <<queue, phase, received, work, accepted, raised>>
  BY PlaceDoes
<1> DEFINE id == Len(sizes)
<1> DEFINE w == ChunksPerCore(n)
<1>2. /\ sizes' \in Seq(Sizes) /\ Len(sizes') = id + 1
      /\ idMapping' \in Seq(LocalRange) /\ Len(idMapping') = Len(idMapping) + 1
  BY <1>1, AppendProperties DEF TypeInv, HostInv
<1>3. HostInv'
  <2>1. x + w \in Local
    BY <1>1 DEF LocalRange
  <2>2. Len(idMapping) = Len(sizes) /\ MaxObjects \in Nat
    BY ObjectAssumption DEF TypeInv, HostInv
  <2>3. Len(sizes') <= MaxObjects
    BY <1>1, <1>2, <2>2
  <2> QED BY <1>1, <1>2, <2>1, <2>2, <2>3 DEF HostInv
<1>4. /\ Table(table')
      /\ \A b \in 0..LastAddress :
           /\ \A c \in Core : Inside(b, x, n, c) =>
                Entry(table', b) = Slot(id, n, c, b - Canonical(c, x))
           /\ (\A c \in Core : ~Inside(b, x, n, c)) => Entry(table', b) = Entry(table, b)
  <2>1. id \in Int /\ Table(table)
    BY <1>1 DEF TypeInv, TableInv
  <2> HIDE DEF id
  <2>2. table' = PlaceData(table, id, n, x)
    BY <1>1 DEF id
  <2>3. n \in Nat \ {0} /\ x + ChunksPerCore(n) <= BankSize
    BY <1>1
  <2> QED BY <2>1, <2>2, <2>3, PlaceDataFacts
<1>5. Objects' = Objects \cup {id}
  BY <1>1, <1>2 DEF Objects
<1> HIDE DEF id
<1>6. ASSUME NEW b \in 0..LastAddress
      PROVE  Entry(table', b).index \in Objects' \cup {Padding, Unmapped}
  <2>1. CASE \E c \in Core : Inside(b, x, n, c)
    <3>1. PICK c \in Core : Inside(b, x, n, c)
      BY <2>1
    <3>2. Entry(table', b) = Slot(id, n, c, b - Canonical(c, x))
      BY <3>1, <1>4
    <3> QED BY <3>2, <1>5 DEF Slot
  <2>2. CASE ~ \E c \in Core : Inside(b, x, n, c)
    <3>1. Entry(table', b) = Entry(table, b)
      BY <2>2, <1>4
    <3> QED BY <3>1, <1>5 DEF TypeInv, TableInv
  <2> QED BY <2>1, <2>2
<1>7. TableInv'
  BY <1>4, <1>6 DEF TableInv
<1>8. CommandInv' /\ CoreInv'
  BY <1>1 DEF TypeInv, CommandInv, CoreInv
<1> QED BY <1>3, <1>7, <1>8 DEF TypeInv

\* What the other steps leave alone.
LEMMA SamePlaces ==
  ASSUME TypeInv, UNCHANGED Placement
  PROVE  TableInv' /\ HostInv'
BY DEF TypeInv, TableInv, HostInv, Placement, Objects

\* add_transaction.
LEMMA AddType ==
  ASSUME TypeInv, NEW cmd \in Command, AddTransaction(cmd)
  PROVE  TypeInv'
<1>1. /\ Len(queue) < QueueLen /\ Len(accepted) + raised < MaxCommands
      /\ queue' = Append(queue, cmd) /\ accepted' = Append(accepted, cmd)
      /\ UNCHANGED Placement /\ UNCHANGED <<phase, received, work, raised>>
  BY DEF AddTransaction
<1>2. /\ queue' \in Seq(Command) /\ Len(queue') = Len(queue) + 1
      /\ accepted' \in Seq(Command) /\ Len(accepted') = Len(accepted) + 1
      /\ Len(queue) \in Nat /\ Len(accepted) \in Nat
  BY <1>1, AppendProperties, LenProperties DEF TypeInv, CommandInv
<1>3. QueueLen \in Nat /\ MaxCommands \in Nat /\ raised \in Nat /\ Len(queue) <= Len(accepted)
  BY RateAssumption, CommandAssumption DEF TypeInv, CommandInv
<1>4. Len(queue') <= QueueLen /\ Len(queue') <= Len(accepted')
      /\ Len(accepted') + raised' <= MaxCommands
  BY <1>1, <1>2, <1>3
<1>5. CommandInv'
  BY <1>1, <1>2, <1>4 DEF TypeInv, CommandInv
<1>6. CoreInv'
  BY <1>1 DEF TypeInv, CoreInv
<1> QED BY <1>1, <1>5, <1>6, SamePlaces DEF TypeInv

\* A device cycle keeps its count below the cores' relative rate.
LEMMA AdvanceType ==
  ASSUME phase \in 0..(Rate - 1), Advance
  PROVE  phase' \in 0..(Rate - 1)
<1>1. Rate \in Nat /\ Rate > 0
  BY RateAssumption
<1> QED BY <1>1 DEF Advance

\* A core that ends a kernel had one to end.
LEMMA EndingType ==
  ASSUME CoreInv, NEW done, Ending(done), NEW new \in {0, 1}, work' = Left(done, new),
         \A c \in Core : Len(received'[c]) = Len(received[c]) + new
  PROVE  \A c \in Core : work'[c] \in 0..Len(received'[c])
<1> TAKE c \in Core
<1>1. work'[c] = work[c] + new - (IF c \in done THEN 1 ELSE 0)
  BY DEF Left
<1>2. received[c] \in Seq(LocalRange \X LocalRange) /\ work[c] \in 0..Len(received[c])
  BY DEF CoreInv
<1>3. Len(received[c]) \in Nat
  BY <1>2, LenProperties
<1>4. c \in done => work[c] > 0
  BY DEF Ending
<1> QED BY <1>1, <1>2, <1>3, <1>4

\* A tick that hands on a command.
LEMMA CommandType ==
  ASSUME TypeInv, NEW done, TickCommand(done)
  PROVE  TypeInv'
<1> DEFINE cmd == Head(queue)
<1>1. /\ queue # <<>> /\ Mappable(cmd) /\ queue' = Tail(queue) /\ Advance
      /\ UNCHANGED Placement /\ UNCHANGED <<accepted, raised>>
  BY DEF TickCommand
<1>2. /\ queue' \in Seq(Command) /\ Len(queue') = Len(queue) - 1 /\ Len(queue) \in Nat
  BY <1>1, HeadTailProperties, LenProperties DEF TypeInv, CommandInv
<1>3. CommandInv'
  <2>1. Len(queue') <= QueueLen /\ Len(queue') <= Len(accepted)
    <3>1. QueueLen \in Nat /\ Len(accepted) \in Nat /\ Len(queue) <= QueueLen
          /\ Len(queue) <= Len(accepted)
      BY RateAssumption, LenProperties DEF TypeInv, CommandInv
    <3> QED BY <3>1, <1>2
  <2>2. phase' \in 0..(Rate - 1)
    BY <1>1, AdvanceType DEF TypeInv, CommandInv
  <2> QED BY <1>1, <1>2, <2>1, <2>2 DEF TypeInv, CommandInv
<1>4. ToCommand(cmd) \in LocalRange \X LocalRange
  <2>1. cmd.op1 \in 0..(Len(sizes) - 1) /\ cmd.dst \in 0..(Len(sizes) - 1)
    BY <1>1 DEF Mappable, Objects
  <2> HIDE DEF cmd
  <2>2. idMapping \in Seq(LocalRange) /\ Len(idMapping) = Len(sizes) /\ Len(sizes) \in Nat
    BY LenProperties DEF TypeInv, HostInv
  <2>3. cmd.op1 + 1 \in 1..Len(idMapping) /\ cmd.dst + 1 \in 1..Len(idMapping)
    BY <2>1, <2>2
  <2>4. idMapping[cmd.op1 + 1] \in LocalRange /\ idMapping[cmd.dst + 1] \in LocalRange
    BY <2>2, <2>3, ElementOfSeq
  <2> QED BY <2>4 DEF ToCommand
<1>5. CoreInv'
  <2>1. CASE CoresTick
    <3>1. Ending(done) /\ received' = Dispatched(ToCommand(cmd)) /\ work' = Left(done, 1)
      BY <2>1 DEF TickCommand
    <3> HIDE DEF cmd
    <3>2. ASSUME NEW c \in Core
          PROVE  /\ received'[c] \in Seq(LocalRange \X LocalRange)
                 /\ Len(received'[c]) = Len(received[c]) + 1
      <4>1. received[c] \in Seq(LocalRange \X LocalRange)
        BY DEF TypeInv, CoreInv
      <4>2. received'[c] = Append(received[c], ToCommand(cmd))
        BY <3>1 DEF Dispatched
      <4> QED BY <4>1, <4>2, <1>4, AppendProperties
    <3>3. received' \in [Core -> Seq(LocalRange \X LocalRange)]
      BY <3>1, <3>2 DEF Dispatched
    <3>4. \A c \in Core : work'[c] \in 0..Len(received'[c])
      BY <3>1, <3>2, EndingType DEF TypeInv
    <3> QED BY <3>3, <3>4 DEF CoreInv
  <2>2. CASE ~CoresTick
    <3>1. UNCHANGED <<received, work>>
      BY <2>2 DEF TickCommand
    <3> QED BY <3>1 DEF TypeInv, CoreInv
  <2> QED BY <2>1, <2>2
<1> QED BY <1>1, <1>3, <1>5, SamePlaces DEF TypeInv

\* A tick that raises an exception.
LEMMA RaiseType ==
  ASSUME TypeInv, NEW done, TickRaises(done)
  PROVE  TypeInv'
<1>1. /\ queue # <<>> /\ queue' = Tail(queue)
      /\ work' = Left(done, 0) /\ raised' = raised + 1
      /\ accepted' = RemoveAt(accepted, Len(accepted) - Len(queue) + 1)
      /\ UNCHANGED Placement /\ UNCHANGED <<phase, received>>
  BY DEF TickRaises
<1>2. /\ queue' \in Seq(Command) /\ Len(queue') = Len(queue) - 1
      /\ Len(queue) \in Nat /\ Len(queue) > 0
  BY <1>1, HeadTailProperties, LenProperties DEF TypeInv, CommandInv
<1>3. /\ accepted \in Seq(Command) /\ Len(accepted) \in Nat /\ Len(queue) <= Len(accepted)
      /\ Len(queue) <= QueueLen /\ QueueLen \in Nat /\ MaxCommands \in Nat
      /\ raised \in Nat /\ Len(accepted) + raised <= MaxCommands
  BY LenProperties, RateAssumption, CommandAssumption DEF TypeInv, CommandInv
<1>4. accepted' \in Seq(Command) /\ Len(accepted') = Len(accepted) - 1
  <2>1. Len(accepted) - Len(queue) + 1 \in 1..Len(accepted)
    BY <1>2, <1>3
  <2> QED BY <1>1, <1>3, <2>1, RemoveAtElements
<1>5. /\ Len(queue') <= QueueLen /\ Len(queue') <= Len(accepted')
      /\ raised' \in Nat /\ Len(accepted') + raised' <= MaxCommands
  BY <1>1, <1>2, <1>3, <1>4
<1>6. CommandInv'
  BY <1>1, <1>2, <1>4, <1>5 DEF TypeInv, CommandInv
<1>7. Ending(done)
  BY DEF TickRaises, Ending
<1>8. \A c \in Core : Len(received'[c]) = Len(received[c]) + 0
  <2> TAKE c \in Core
  <2>1. received[c] \in Seq(LocalRange \X LocalRange)
    BY DEF TypeInv, CoreInv
  <2>2. Len(received[c]) \in Nat
    BY <2>1, LenProperties
  <2> QED BY <1>1, <2>2
<1>9. CoreInv'
  BY <1>1, <1>7, <1>8, EndingType DEF TypeInv, CoreInv
<1> QED BY <1>1, <1>6, <1>9, SamePlaces DEF TypeInv

\* A tick with nothing to hand on, seen from its types.
LEMMA IdleType ==
  ASSUME TypeInv, NEW done, TickIdle(done)
  PROVE  TypeInv'
<1>1. /\ Advance /\ UNCHANGED Placement /\ UNCHANGED <<queue, received, accepted, raised>>
  BY DEF TickIdle
<1>2. phase' \in 0..(Rate - 1)
  BY <1>1, AdvanceType DEF TypeInv, CommandInv
<1>3. CommandInv'
  BY <1>1, <1>2 DEF TypeInv, CommandInv
<1>4. CoreInv'
  <2>1. CASE CoresTick
    <3>1. Ending(done) /\ work' = Left(done, 0)
      BY <2>1 DEF TickIdle
    <3>2. \A c \in Core : Len(received'[c]) = Len(received[c]) + 0
      <4> TAKE c \in Core
      <4>1. received[c] \in Seq(LocalRange \X LocalRange)
        BY DEF TypeInv, CoreInv
      <4>2. Len(received[c]) \in Nat
        BY <4>1, LenProperties
      <4> QED BY <1>1, <4>2
    <3> QED BY <1>1, <3>1, <3>2, EndingType DEF TypeInv, CoreInv
  <2>2. CASE ~CoresTick
    <3>1. UNCHANGED work
      BY <2>2 DEF TickIdle
    <3> QED BY <1>1, <3>1 DEF TypeInv, CoreInv
  <2> QED BY <2>1, <2>2
<1> QED BY <1>1, <1>3, <1>4, SamePlaces DEF TypeInv

\* Every step.
LEMMA StepType ==
  ASSUME TypeInv, "overflow" \notin Careless, [Next]_vars
  PROVE  TypeInv'
<1>1. CASE UNCHANGED vars
  BY <1>1, SamePlaces DEF vars, TypeInv, CommandInv, CoreInv, Placement
<1>2. CASE \E n \in Sizes, a \in Local \cup {Default} : InstantPlaceData(n, a)
  BY <1>2, PlaceType
<1>3. CASE \E cmd \in Command : AddTransaction(cmd)
  BY <1>3, AddType
<1>4. CASE \E done \in SUBSET Core : Tick(done)
  <2>1. PICK done \in SUBSET Core : Tick(done)
    BY <1>4
  <2> QED BY <2>1, CommandType, RaiseType, IdleType DEF Tick
<1> QED BY <1>1, <1>2, <1>3, <1>4 DEF Next

\* lib/device/base.py, lib/address/allocation.py: the lists the host, the
\* device and the memory keep of objects and commands agree in length and
\* range, whatever the rate of the cores, if hosts stay inside the banks.
THEOREM TypeCorrect ==
  ASSUME "overflow" \notin Careless
  PROVE  Spec => []TypeOK
<1>1. Init => TypeInv
  BY InitType
<1>2. TypeInv /\ [Next]_vars => TypeInv'
  BY StepType
<1>3. TypeInv => TypeOK
  BY TypeFacts
<1> QED BY <1>1, <1>2, <1>3, PTL DEF Spec

(***************************************************************************)
(* Objects stay where they are placed.                                     *)
(***************************************************************************)

\* Every object the host placed lies where _id_mapping has it.
PlacesInv ==
  \A id \in Objects :
    /\ idMapping[id + 1][2] = idMapping[id + 1][1] + ChunksPerCore(sizes[id + 1])
    /\ Lies(table, id, sizes[id + 1], idMapping[id + 1][1])

\* Where an object is, by the types alone.
LEMMA PlaceTypes ==
  ASSUME TypeInv, NEW id \in Objects
  PROVE  /\ id \in Nat /\ id + 1 \in 1..Len(sizes) /\ id + 1 \in 1..Len(idMapping)
         /\ sizes[id + 1] \in Nat \ {0}
         /\ idMapping[id + 1][1] \in Nat /\ idMapping[id + 1][2] \in Nat
         /\ idMapping[id + 1][2] <= BankSize
<1>1. /\ sizes \in Seq(Sizes) /\ idMapping \in Seq(LocalRange)
      /\ Len(idMapping) = Len(sizes) /\ Len(sizes) \in Nat
  BY LenProperties DEF TypeInv, HostInv
<1>2. id \in Nat /\ id + 1 \in 1..Len(sizes) /\ id + 1 \in 1..Len(idMapping)
  BY <1>1 DEF Objects
<1>3. sizes[id + 1] \in Sizes /\ idMapping[id + 1] \in LocalRange
  BY <1>1, <1>2, ElementOfSeq
<1>4. BankSize \in Nat /\ Sizes \subseteq Nat \ {0}
  BY CoresAssumption, ObjectAssumption
<1> DEFINE r == idMapping[id + 1]
<1>5. r \in Local \X Local
  BY <1>3 DEF LocalRange
<1> HIDE DEF r
<1>6. r[1] \in Nat /\ r[2] \in Nat /\ r[2] <= BankSize
  BY <1>4, <1>5 DEF Local
<1>7. sizes[id + 1] \in Nat \ {0}
  BY <1>3, <1>4
<1> QED BY <1>2, <1>6, <1>7 DEF r

\* Placing one more object apart from the others disturbs none.
LEMMA PlacePlaces ==
  ASSUME TypeInv, PlacesInv, Careless = {},
         NEW n \in Sizes, NEW a \in Local \cup {Default}, InstantPlaceData(n, a)
  PROVE  PlacesInv'
<1>1. PICK x \in Nat :
        /\ n \in Nat \ {0} /\ x + ChunksPerCore(n) <= BankSize
        /\ Len(sizes) \in Nat /\ Len(sizes) < MaxObjects
        /\ table' = PlaceData(table, Len(sizes), n, x)
        /\ sizes' = Append(sizes, n)
        /\ idMapping' = Append(idMapping, <<x, x + ChunksPerCore(n)>>)
        /\ <<x, x + ChunksPerCore(n)>> \in LocalRange
        /\ "overlap" \in Careless \/ Apart(<<x, x + ChunksPerCore(n)>>)
  BY PlaceDoes
<1> DEFINE new == Len(sizes)
<1> DEFINE r == <<x, x + ChunksPerCore(n)>>
<1>2. Table(table) /\ \A b \in 0..LastAddress : Entry(table, b).index # new
  <2>1. new \notin Objects \cup {Padding, Unmapped}
    BY <1>1 DEF Objects, Padding, Unmapped
  <2> HIDE DEF new
  <2> QED BY <2>1 DEF TypeInv, TableInv
<1>3. r[1] = x /\ r[2] = x + ChunksPerCore(n)
  OBVIOUS
<1> HIDE DEF r
<1>4. /\ Len(sizes') = new + 1 /\ sizes'[new + 1] = n /\ idMapping'[new + 1] = r
      /\ \A i \in 1..new : sizes'[i] = sizes[i] /\ idMapping'[i] = idMapping[i]
      /\ Len(idMapping) = new /\ new \in Nat
  <2>1. /\ sizes \in Seq(Sizes) /\ idMapping \in Seq(LocalRange) /\ Len(idMapping) = new
        /\ r \in LocalRange /\ idMapping' = Append(idMapping, r)
    BY <1>1 DEF TypeInv, HostInv, r
  <2> QED BY <1>1, <2>1, AppendProperties
<1>5. Apart(r)
  BY <1>1 DEF r
<1>6. /\ table' = PlaceData(table, new, n, x) /\ new \in Nat
      /\ n \in Nat \ {0} /\ x + ChunksPerCore(n) <= BankSize
  BY <1>1
<1>7. Objects' = 0..new /\ Objects = 0..(new - 1)
  BY <1>4 DEF Objects
<1> HIDE DEF new
<1>8. Lies(table', new, n, x)
  BY <1>2, <1>6, LiesNew
<1>9. ASSUME NEW id \in Objects
      PROVE  /\ sizes'[id + 1] = sizes[id + 1] /\ idMapping'[id + 1] = idMapping[id + 1]
             /\ Lies(table', id, sizes[id + 1], idMapping[id + 1][1])
  <2> DEFINE m == sizes[id + 1]
  <2> DEFINE y == idMapping[id + 1][1]
  <2>1. /\ id \in Nat /\ id + 1 \in 1..new /\ id # new /\ m \in Nat \ {0} /\ y \in Nat
        /\ idMapping[id + 1][2] <= BankSize
    BY <1>4, <1>7, PlaceTypes
  <2>2. Lies(table, id, m, y) /\ idMapping[id + 1][2] = y + ChunksPerCore(m)
    BY DEF PlacesInv
  <2>3. r[2] <= idMapping[id + 1][1] \/ idMapping[id + 1][2] <= r[1]
    BY <1>4, <1>5, <2>1 DEF Apart
  <2>4. x + ChunksPerCore(n) <= y \/ y + ChunksPerCore(m) <= x
    BY <1>3, <2>2, <2>3
  <2>5. sizes'[id + 1] = sizes[id + 1] /\ idMapping'[id + 1] = idMapping[id + 1]
    BY <1>4, <2>1
  <2>6. y + ChunksPerCore(m) <= BankSize /\ new \in Nat \ {id}
    BY <1>6, <2>1, <2>2
  <2> HIDE DEF m, y
  <2>7. Lies(PlaceData(table, new, n, x), id, m, y)
    BY <1>2, <1>6, <2>1, <2>2, <2>4, <2>6, LiesKept
  <2> QED BY <1>6, <2>5, <2>7 DEF m, y
<1>10. ASSUME NEW id \in Objects'
       PROVE  /\ idMapping'[id + 1][2] = idMapping'[id + 1][1] + ChunksPerCore(sizes'[id + 1])
              /\ Lies(table', id, sizes'[id + 1], idMapping'[id + 1][1])
  <2>1. CASE id = new
    BY <2>1, <1>3, <1>4, <1>8
  <2>2. CASE id # new
    <3>1. id \in Objects
      BY <2>2, <1>4, <1>7
    <3> QED BY <3>1, <1>9 DEF PlacesInv
  <2> QED BY <2>1, <2>2
<1> QED BY <1>10 DEF PlacesInv

\* Every step of a careful host.
LEMMA StepPlaces ==
  ASSUME TypeInv, PlacesInv, Careless = {}, [Next]_vars
  PROVE  PlacesInv'
<1>1. ASSUME UNCHANGED Placement PROVE PlacesInv'
  BY <1>1 DEF PlacesInv, Placement, Objects
<1>2. CASE UNCHANGED vars
  BY <1>1, <1>2 DEF vars, Placement
<1>3. CASE \E n \in Sizes, a \in Local \cup {Default} : InstantPlaceData(n, a)
  BY <1>3, PlacePlaces
<1>4. CASE \E cmd \in Command : AddTransaction(cmd)
  BY <1>1, <1>4 DEF AddTransaction
<1>5. CASE \E done \in SUBSET Core : Tick(done)
  BY <1>1, <1>5 DEF Tick, TickCommand, TickRaises, TickIdle
<1> QED BY <1>2, <1>3, <1>4, <1>5 DEF Next

\* An object that lies where _id_mapping has it is resident.
LEMMA PlacesFacts ==
  ASSUME TypeInv, PlacesInv
  PROVE  Resident
<1> SUFFICES ASSUME NEW id \in Objects
             PROVE  LET r == idMapping[id + 1]
                        width == r[2] - r[1]
                    IN  /\ width * NumCores >= sizes[id + 1]
                        /\ \A c \in Core, i \in 0..(width - 1) :
                             LET a == Canonical(c, r[1] + i)
                                 n == c * width + i
                             IN  IF n < sizes[id + 1]
                                   THEN IndexAt(table, a) = id /\ OffsetAt(table, a) = n
                                   ELSE IndexAt(table, a) = Padding
  BY DEF Resident
<1> DEFINE x == idMapping[id + 1][1]
<1> DEFINE m == sizes[id + 1]
<1> DEFINE width == idMapping[id + 1][2] - idMapping[id + 1][1]
<1>1. id \in Nat /\ m \in Nat \ {0} /\ x \in Nat /\ idMapping[id + 1][2] <= BankSize
  BY PlaceTypes
<1>2. idMapping[id + 1][2] = x + ChunksPerCore(m) /\ Lies(table, id, m, x)
  BY DEF PlacesInv
<1>3. ChunksPerCore(m) \in Nat \ {0} /\ m <= NumCores * ChunksPerCore(m)
  BY <1>1, WidthFacts
<1>4. width = ChunksPerCore(m)
  BY <1>1, <1>2, <1>3
<1>5. x + ChunksPerCore(m) <= BankSize /\ Table(table)
  BY <1>1, <1>2 DEF TypeInv, TableInv
<1> HIDE DEF x, m, width
<1>6. width * NumCores >= m
  <2>1. NumCores \in Nat /\ width \in Nat
    BY <1>3, <1>4, CoresAssumption
  <2>2. width * NumCores = NumCores * width
    BY <2>1
  <2> QED BY <2>1, <2>2, <1>1, <1>3, <1>4
<1>7. ASSUME NEW c \in Core, NEW i \in 0..(width - 1)
      PROVE  IF c * width + i < m
               THEN /\ IndexAt(table, Canonical(c, x + i)) = id
                    /\ OffsetAt(table, Canonical(c, x + i)) = c * width + i
               ELSE IndexAt(table, Canonical(c, x + i)) = Padding
  BY <1>1, <1>2, <1>4, <1>5, LiesAddressed
<1> QED BY <1>6, <1>7 DEF x, m, width

\* pim_device_place_data: an object placed by a careful host stays where it
\* was placed, chunk after chunk on core after core, its padding behind it,
\* and what a command sweeps is mapped.
THEOREM AlwaysResident ==
  ASSUME Careless = {}
  PROVE  Spec => []Resident
<1>1. Init => TypeInv /\ PlacesInv
  <2> SUFFICES ASSUME Init PROVE PlacesInv
    BY InitType
  <2> QED BY DEF Init, PlacesInv, Objects
<1>2. TypeInv /\ PlacesInv /\ [Next]_vars => (TypeInv /\ PlacesInv)'
  BY StepType, StepPlaces
<1>3. TypeInv /\ PlacesInv => Resident
  BY PlacesFacts
<1> QED BY <1>1, <1>2, <1>3, PTL DEF Spec
=============================================================================
