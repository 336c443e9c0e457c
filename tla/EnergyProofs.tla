---------------------------- MODULE EnergyProofs ----------------------------
(***************************************************************************)
(* What a tick of the energy system keeps, for any nodes, cells, rates and *)
(* capacities.  Most of it holds whether or not storages share cells; that *)
(* the storages pay all they owe needs that they do not.                   *)
(***************************************************************************)
EXTENDS EnergySystem, FiniteProofs

\* The counts of the loops and the types carry each other: a count that fell
\* below zero would let a cell pay a negative amount.
Inv == EnergyTypeOK /\ Ledger /\ NobodyOverpays

\* What a cell pays is at most what it has and at most what it is asked for.
LEMMA ConsumedBounds ==
  ASSUME NEW stored \in Nat, NEW amount \in Nat, NEW bandwidth \in Nat
  PROVE  /\ Consumed(stored, amount, bandwidth) \in Nat
         /\ Consumed(stored, amount, bandwidth) <= stored
         /\ Consumed(stored, amount, bandwidth) <= amount
BY DEF Consumed, Least

\* What is taken fits, and is at most what is offered.
LEMMA ReceivedBounds ==
  ASSUME NEW stored \in Nat, NEW amount \in Nat, NEW bandwidth \in Nat,
         NEW capacity \in Nat, stored <= capacity
  PROVE  /\ Received(stored, amount, bandwidth, capacity) \in Nat
         /\ Received(stored, amount, bandwidth, capacity) <= amount
         /\ stored + Received(stored, amount, bandwidth, capacity) <= capacity
BY DEF Received, Least

\* A consumer never takes more than is available.
LEMMA ConsumerBounds ==
  ASSUME EnergyTypeOK, NEW n \in Consumer
  PROVE  /\ Lost \in Nat /\ Charged(n) \in Nat
         /\ Lost + Charged(n) <= available
         /\ buffer[n] + Charged(n) <= BufferCapacity
<1>1. available \in Nat /\ buffer[n] \in Nat /\ buffer[n] <= BufferCapacity
  BY DEF EnergyTypeOK
<1>2. Lost \in Nat /\ available - Lost \in Nat
  BY <1>1, EnergyAssumption DEF Lost, Least
<1>3. /\ Charged(n) \in Nat /\ Charged(n) <= available - Lost
      /\ buffer[n] + Charged(n) <= BufferCapacity
  BY <1>1, <1>2, EnergyAssumption, ReceivedBounds DEF Charged
<1> QED BY <1>1, <1>2, <1>3

LEMMA InitInv == Init => Inv
BY EnergyAssumption DEF Init, Inv, EnergyTypeOK, Ledger, NobodyOverpays, Phase

LEMMA NextInv == Inv /\ [Next]_vars => Inv'
<1> SUFFICES ASSUME Inv, [Next]_vars PROVE Inv'
  OBVIOUS
<1> USE DEF Inv
<1>1. CASE BeginTick
  BY <1>1 DEF BeginTick, Loop, EnergyTypeOK, Ledger, NobodyOverpays, Phase
<1>2. ASSUME NEW n \in Producer, Produce(n) PROVE Inv'
  BY <1>2, EnergyAssumption
  DEF Produce, Take, GoOn, EnergyTypeOK, Ledger, NobodyOverpays, Phase
<1>3. CASE BeginStore
  BY <1>3 DEF BeginStore, Loop, EnergyTypeOK, Ledger, NobodyOverpays, Phase
<1>4. ASSUME NEW s \in Storage, OpenStorage(s) PROVE Inv'
  <2>1. EnergyTypeOK'
    BY <1>4, EnergyAssumption DEF OpenStorage, Take, EnergyTypeOK, Phase
  <2>2. Ledger' /\ NobodyOverpays'
    BY <1>4 DEF OpenStorage, Take, Ledger, Counts, NobodyOverpays
  <2> QED BY <2>1, <2>2
<1>5. ASSUME NEW c \in Cell, CountCell(c) PROVE Inv'
  <2>1. Usable(c) \in Nat
    BY EnergyAssumption DEF Usable, Least, EnergyTypeOK
  <2> QED BY <1>5, <2>1
    DEF CountCell, TakeCell, GoOnInFront, EnergyTypeOK, Ledger, NobodyOverpays, Phase
<1>6. CASE BeginConsume
  BY <1>6 DEF BeginConsume, Loop, EnergyTypeOK, Ledger, NobodyOverpays, Phase
<1>7. ASSUME NEW n \in Consumer, Consume(n) PROVE Inv'
  <2>1. /\ Lost \in Nat /\ Charged(n) \in Nat
        /\ Lost + Charged(n) <= available
        /\ buffer[n] + Charged(n) <= BufferCapacity
    BY ConsumerBounds
  <2>2. EnergyTypeOK'
    <3> HIDE DEF Inv
    <3>1. EnergyTypeOK
      BY DEF Inv
    <3> QED BY <1>7, <2>1, <3>1 DEF Consume, Take, GoOn, EnergyTypeOK, Phase
  <2>3. Ledger' /\ NobodyOverpays'
    BY <1>7 DEF Consume, Take, GoOn, Ledger, NobodyOverpays
  <2> QED BY <2>2, <2>3
<1>8. CASE BeginUse
  BY <1>8 DEF BeginUse, Loop, EnergyTypeOK, Ledger, Counts, NobodyOverpays, Phase
<1>9. ASSUME NEW c \in Cell, DrainCell(c) PROVE Inv'
  <2> DEFINE used == Consumed(energy[c], left, CellBandwidth[c])
  <2>1. left \in Nat
    BY <1>9 DEF DrainCell, TakeCell, EnergyTypeOK, Ledger, Counts
  <2>2. energy[c] \in Nat /\ energy[c] <= CellCapacity[c] /\ CellBandwidth[c] \in Nat
    BY EnergyAssumption DEF EnergyTypeOK
  <2>3. used \in Nat /\ used <= energy[c] /\ used <= left
    BY <2>1, <2>2, ConsumedBounds
  <2>4. /\ energy' = [energy EXCEPT ![c] = @ - used]
        /\ left' = left - used /\ given' = given + used
        /\ phase = "use" /\ c \in front
        /\ front' \subseteq front /\ todo' \subseteq todo
        /\ UNCHANGED <<buffer, phase, produced, available, consumed, received>>
    BY <1>9 DEF DrainCell, TakeCell, GoOnInFront
  <2> HIDE DEF used
  <2>5. EnergyTypeOK'
    <3>1. /\ energy[c] - used \in Nat /\ energy[c] - used <= CellCapacity[c]
          /\ energy' = [energy EXCEPT ![c] = energy[c] - used]
      BY <2>2, <2>3, <2>4, EnergyAssumption
    <3>2. energy' \in [Cell -> Nat] /\ \A d \in Cell : energy'[d] <= CellCapacity[d]
      BY <3>1 DEF EnergyTypeOK
    <3>3. left' \in Int /\ given' \in Nat
      BY <2>1, <2>3, <2>4 DEF EnergyTypeOK
    <3> QED BY <2>4, <3>2, <3>3 DEF EnergyTypeOK
  <2>6. Ledger' /\ NobodyOverpays'
    BY <2>1, <2>3, <2>4 DEF EnergyTypeOK, Ledger, Counts, NobodyOverpays
  <2> QED BY <2>5, <2>6
<1>10. CASE BeginReceive
  BY <1>10 DEF BeginReceive, Loop, EnergyTypeOK, Ledger, Counts, NobodyOverpays, Phase
<1>11. ASSUME NEW c \in Cell, ChargeCell(c) PROVE Inv'
  <2> DEFINE used == Received(energy[c], left, CellBandwidth[c], CellCapacity[c])
  <2>1. left \in Nat
    BY <1>11 DEF ChargeCell, TakeCell, EnergyTypeOK, Ledger, Counts
  <2>2. /\ energy[c] \in Nat /\ energy[c] <= CellCapacity[c]
        /\ CellBandwidth[c] \in Nat /\ CellCapacity[c] \in Nat
    BY EnergyAssumption DEF EnergyTypeOK
  <2>3. used \in Nat /\ used <= left /\ energy[c] + used <= CellCapacity[c]
    BY <2>1, <2>2, ReceivedBounds
  <2>4. /\ energy' = [energy EXCEPT ![c] = @ + used]
        /\ left' = left - used /\ received' = received + used
        /\ phase = "receive" /\ c \in front
        /\ front' \subseteq front /\ todo' \subseteq todo
        /\ UNCHANGED <<buffer, phase, produced, available, consumed, given>>
    BY <1>11 DEF ChargeCell, TakeCell, GoOnInFront
  <2> HIDE DEF used
  <2>5. EnergyTypeOK'
    <3>1. energy' \in [Cell -> Nat] /\ \A d \in Cell : energy'[d] <= CellCapacity[d]
      BY <2>2, <2>3, <2>4, EnergyAssumption DEF EnergyTypeOK
    <3>2. left' \in Int /\ received' \in Nat
      BY <2>1, <2>3, <2>4 DEF EnergyTypeOK
    <3> QED BY <2>4, <3>1, <3>2 DEF EnergyTypeOK
  <2>6. Ledger' /\ NobodyOverpays'
    BY <2>1, <2>3, <2>4 DEF EnergyTypeOK, Ledger, Counts, NobodyOverpays
  <2> QED BY <2>5, <2>6
<1>12. CASE BeginWork
  BY <1>12 DEF BeginWork, Loop, EnergyTypeOK, Ledger, NobodyOverpays, Phase
<1>13. ASSUME NEW n \in Consumer, Work(n) PROVE Inv'
  <2>1. EnergyTypeOK'
    <3>1. PICK kept \in 0..buffer[n] : buffer' = [buffer EXCEPT ![n] = kept]
      BY <1>13 DEF Work
    <3>2. buffer' \in [Consumer -> Nat] /\ \A m \in Consumer : buffer'[m] <= BufferCapacity
      BY <3>1, EnergyAssumption DEF EnergyTypeOK
    <3> QED BY <1>13, <3>2 DEF Work, Take, GoOn, EnergyTypeOK, Phase
  <2>2. Ledger' /\ NobodyOverpays'
    BY <1>13 DEF Work, Take, GoOn, Ledger, NobodyOverpays
  <2> QED BY <2>1, <2>2
<1>14. CASE EndTick
  BY <1>14 DEF EndTick, Loop, EnergyTypeOK, Ledger, NobodyOverpays, Phase
<1>15. CASE UNCHANGED vars
  BY <1>15 DEF vars, EnergyTypeOK, Ledger, Counts, NobodyOverpays
<1> QED
  BY <1>1, <1>2, <1>3, <1>4, <1>5, <1>6, <1>7, <1>8, <1>9, <1>10, <1>11, <1>12,
     <1>13, <1>14, <1>15 DEF Next

LEMMA AlwaysInv == Spec => []Inv
BY InitInv, NextInv, PTL DEF Spec

\* Whatever the nodes answer, no cell or buffer holds less than nothing or
\* more than its capacity, and the sums of update stay natural numbers.
THEOREM EnergyTypeCorrect == Spec => []EnergyTypeOK
<1>1. Inv => EnergyTypeOK
  BY DEF Inv
<1> QED BY <1>1, AlwaysInv, PTL

\* What run_use_stored_energy and run_receive_energy count as still owed is
\* what is still owed, at every point of the loops.
THEOREM LedgerAlwaysBalances == Spec => []Ledger
<1>1. Inv => Ledger
  BY DEF Inv
<1> QED BY <1>1, AlwaysInv, PTL

\* Storages never pay more than was consumed beyond the production, nor are
\* they charged with more than was left of it, even when they share cells.
THEOREM NobodyEverOverpays == Spec => []NobodyOverpays
<1>1. Inv => NobodyOverpays
  BY DEF Inv
<1> QED BY <1>1, AlwaysInv, PTL

\* Energy never goes from one storage to another within a tick.
THEOREM NoCirclesEver == Spec => []NoCircles
<1>1. Inv => NoCircles
  BY DEF Inv, EnergyTypeOK, NobodyOverpays, NoCircles
<1> QED BY <1>1, AlwaysInv, PTL

(***************************************************************************)
(* What the storages promise while they are counted is what they can pay   *)
(* afterwards, though they are asked in another order: both are sums over  *)
(* their cells, and a cell contributes what it can spare.                  *)
(***************************************************************************)
Spare == [c \in Cell |-> Usable(c)]

\* The cells of all storages, and those the loop has not come to.
AllFronts == UNION {Front[s] : s \in Storage}
Unasked == front \cup UNION {Front[s] : s \in todo \cap Storage}

\* What was counted, and is still to be counted, is the production and what
\* all cells can spare; the consumers take of that; and what is owed can be
\* paid by the cells that were not asked yet.
Covered ==
  /\ phase \in {"store", "use", "receive"} => todo \subseteq Storage
  /\ phase \in {"produce", "store"} => consumed = 0
  /\ phase = "store" =>
       /\ \A s \in todo : Front[s] \cap front = {}
       /\ available + Sum(Spare, Unasked) = produced + Sum(Spare, AllFronts)
  /\ phase = "consume" => available + consumed = produced + Sum(Spare, AllFronts)
  /\ phase = "use" =>
       /\ \A s \in todo : Front[s] \cap front = {}
       /\ left <= Sum(Spare, Unasked)
  /\ phase \in {"receive", "work"} => given >= consumed - produced

NobodyShares == \A s, t \in Storage : s # t => Front[s] \cap Front[t] = {}

SumInv == Inv /\ Covered

LEMMA SpareCells ==
  ASSUME EnergyTypeOK
  PROVE  Spare \in [Cell -> Nat] /\ Unasked \subseteq Cell /\ AllFronts \subseteq Cell
BY EnergyAssumption DEF EnergyTypeOK, Spare, Usable, Least, Unasked, AllFronts

LEMMA SumInitInv == Init => SumInv
BY InitInv DEF Init, SumInv, Covered

LEMMA SumNextInv ==
  ASSUME NobodyShares, IsFiniteSet(Cell), SumInv, [Next]_vars
  PROVE  Covered'
<1>1. EnergyTypeOK /\ EnergyTypeOK' /\ Ledger /\ Ledger'
  BY NextInv DEF SumInv, Inv
<1>2. /\ Spare \in [Cell -> Nat] /\ Spare' \in [Cell -> Nat]
      /\ Unasked \in SUBSET Cell /\ Unasked' \in SUBSET Cell /\ AllFronts \in SUBSET Cell
  BY <1>1, SpareCells, EnergyAssumption
     DEF EnergyTypeOK, Spare, Usable, Least, Unasked, AllFronts
<1>3. \A T \in SUBSET Cell : IsFiniteSet(T)
  BY FS_Subset
<1>4. \A T \in SUBSET Cell : Sum(Spare, T) \in Nat /\ Sum(Spare', T) \in Nat
  BY <1>2, <1>3, SumOfSome
<1>5. Sum(Spare, {}) = 0 /\ Sum(Spare', {}) = 0
  BY <1>2, <1>3, SumOfSome
<1>6. energy' = energy => Spare' = Spare
  BY DEF Spare, Usable
<1>7. CASE BeginTick \/ \E n \in Producer : Produce(n)
  BY <1>7 DEF BeginTick, Produce, Loop, Take, GoOn, SumInv, Covered
<1>8. CASE BeginStore
  <2>1. Unasked' = AllFronts
    BY <1>8 DEF BeginStore, Loop, Unasked, AllFronts
  <2>2. Spare' = Spare /\ todo' = Storage /\ front' = {} /\ phase' = "store"
        /\ available' = produced /\ produced' = produced
    BY <1>6, <1>8 DEF BeginStore, Loop
  <2> QED BY <2>1, <2>2, <1>8 DEF BeginStore, Loop, SumInv, Covered
<1>9. ASSUME NEW s \in Storage, OpenStorage(s) PROVE Covered'
  <2>1. /\ phase' = phase /\ phase \in {"store", "use", "receive"}
        /\ s \in todo /\ front = {} /\ todo' = todo \ {s} /\ front' = Front[s]
        /\ Spare' = Spare
        /\ UNCHANGED <<produced, available, consumed, left, given>>
    BY <1>6, <1>9 DEF OpenStorage, Take
  <2>2. todo \subseteq Storage
    BY <2>1 DEF SumInv, Covered
  <2>3. Unasked' = Unasked
    BY <2>1, <2>2 DEF Unasked
  <2>4. \A t \in todo' : Front[t] \cap front' = {}
    BY <2>1, <2>2 DEF NobodyShares
  <2> QED BY <2>1, <2>2, <2>3, <2>4 DEF SumInv, Covered
<1>10. ASSUME NEW c \in Cell, CountCell(c) PROVE Covered'
  <2>1. /\ phase' = "store" /\ phase = "store" /\ c \in front /\ front' = front \ {c}
        /\ todo' = todo /\ Spare' = Spare /\ Spare[c] = Usable(c)
        /\ available' = available + Usable(c) /\ produced' = produced
    BY <1>6, <1>10 DEF CountCell, TakeCell, GoOnInFront, Spare
  <2>2. /\ todo \subseteq Storage /\ \A s \in todo : Front[s] \cap front = {}
        /\ available + Sum(Spare, Unasked) = produced + Sum(Spare, AllFronts)
    BY <2>1 DEF SumInv, Covered
  <2>3. Unasked' = Unasked \ {c} /\ c \in Unasked
    BY <2>1, <2>2 DEF Unasked
  <2>4. Sum(Spare, Unasked) = Sum(Spare, Unasked \ {c}) + Spare[c] /\ Spare[c] \in Nat
    BY <1>2, <1>3, <2>3, SumOfSome
  <2>5. available' + Sum(Spare', Unasked') = produced' + Sum(Spare', AllFronts)
    <3>1. available \in Nat /\ produced \in Nat
      BY <1>1 DEF EnergyTypeOK
    <3> QED BY <1>2, <1>4, <2>1, <2>2, <2>3, <2>4, <3>1
  <2> QED BY <2>1, <2>2, <2>5, <1>10 DEF CountCell, SumInv, Covered
<1>11. CASE BeginConsume
  <2>1. /\ phase = "store" /\ phase' = "consume" /\ todo = {} /\ front = {}
        /\ Spare' = Spare /\ UNCHANGED <<available, produced, consumed>>
    BY <1>6, <1>11 DEF BeginConsume, Loop
  <2>2. Unasked = {}
    BY <2>1 DEF Unasked
  <2>3. consumed = 0
    BY <2>1 DEF SumInv, Covered
  <2>4. available = produced + Sum(Spare, AllFronts)
    BY <1>1, <1>2, <1>4, <1>5, <2>1, <2>2 DEF SumInv, Covered, EnergyTypeOK
  <2> QED BY <1>1, <2>1, <2>3, <2>4 DEF Covered, EnergyTypeOK
<1>12. ASSUME NEW n \in Consumer, Consume(n) PROVE Covered'
  <2>1. Lost \in Nat /\ Charged(n) \in Nat
    BY <1>1, ConsumerBounds
  <2>2. /\ phase = "consume" /\ phase' = "consume" /\ Spare' = Spare /\ produced' = produced
        /\ available' = available - (Lost + Charged(n)) /\ consumed' = consumed + (Lost + Charged(n))
    BY <1>6, <1>12 DEF Consume, Take
  <2>3. available + consumed = produced + Sum(Spare, AllFronts)
    BY <2>2 DEF SumInv, Covered
  <2>4. available \in Nat /\ consumed \in Nat
    BY <1>1 DEF EnergyTypeOK
  <2>5. available' + consumed' = available + consumed
    BY <2>1, <2>2, <2>4
  <2> QED BY <2>2, <2>3, <2>5 DEF Covered
<1>13. CASE BeginUse
  <2>1. /\ phase = "consume" /\ phase' = "use" /\ front' = {} /\ Spare' = Spare
        /\ todo' = IF consumed > produced THEN Storage ELSE {}
        /\ left' = consumed - produced
    BY <1>6, <1>13 DEF BeginUse, Loop
  <2>2. available + consumed = produced + Sum(Spare, AllFronts)
    BY <2>1 DEF SumInv, Covered
  <2>3. available \in Nat /\ consumed \in Nat /\ produced \in Nat
    BY <1>1 DEF EnergyTypeOK
  <2>4. Unasked' = IF consumed > produced THEN AllFronts ELSE {}
    BY <2>1 DEF Unasked, AllFronts
  <2>5. left' <= Sum(Spare', Unasked')
    BY <1>2, <1>4, <1>5, <2>1, <2>2, <2>3, <2>4
  <2> QED BY <2>1, <2>5 DEF Covered
<1>14. ASSUME NEW c \in Cell, DrainCell(c) PROVE Covered'
  <2> DEFINE used == Consumed(energy[c], left, CellBandwidth[c])
             enough == left - used <= 0
  <2>1. /\ phase = "use" /\ phase' = "use" /\ c \in front
        /\ left' = left - used
        /\ energy' = [energy EXCEPT ![c] = @ - used]
        /\ front' = IF enough THEN {} ELSE front \ {c}
        /\ todo' = IF enough THEN {} ELSE todo
    BY <1>14 DEF DrainCell, TakeCell, GoOnInFront
  <2>2. /\ todo \subseteq Storage /\ \A s \in todo : Front[s] \cap front = {}
        /\ left <= Sum(Spare, Unasked)
    BY <2>1 DEF SumInv, Covered
  <2>3. left \in Nat
    BY <1>1, <2>1 DEF EnergyTypeOK, Ledger, Counts
  <2>4. used = Least(Usable(c), left) /\ Usable(c) \in Nat
    BY <1>1, <2>3, EnergyAssumption DEF EnergyTypeOK, Consumed, Usable, Least
  <2> HIDE DEF used
  <2>5. CASE enough
    <3>1. Unasked' = {} /\ left' <= 0 /\ todo' = {}
      BY <2>1, <2>5 DEF Unasked
    <3>2. left' <= Sum(Spare', Unasked')
      BY <1>1, <1>5, <3>1 DEF EnergyTypeOK
    <3> QED BY <2>1, <3>1, <3>2 DEF Covered
  <2>6. CASE ~enough
    <3>1. left' = left - Usable(c)
      BY <2>1, <2>3, <2>4, <2>6 DEF Least
    <3>2. c \in Unasked /\ Unasked' = Unasked \ {c} /\ todo' = todo /\ front' = front \ {c}
      BY <2>1, <2>2, <2>6 DEF Unasked
    <3>3. \A d \in Unasked \ {c} : Spare'[d] = Spare[d]
      BY <1>1, <1>2, <2>1 DEF EnergyTypeOK, Spare, Usable
    <3>4. Sum(Spare', Unasked \ {c}) = Sum(Spare, Unasked \ {c})
      BY <3>3, SumOfSame
    <3>5. Sum(Spare, Unasked) = Sum(Spare, Unasked \ {c}) + Usable(c)
      BY <1>2, <1>3, <3>2, SumOfSome DEF Spare
    <3>6. left' <= Sum(Spare', Unasked')
      BY <1>2, <1>4, <2>2, <2>3, <2>4, <3>1, <3>2, <3>4, <3>5
    <3> QED BY <2>1, <2>2, <3>2, <3>6 DEF Covered
  <2> QED BY <2>5, <2>6
<1>15. CASE BeginReceive
  <2>1. /\ phase = "use" /\ phase' = "receive" /\ todo = {} /\ front = {}
        /\ todo' \subseteq Storage /\ UNCHANGED <<given, consumed, produced>>
    BY <1>15 DEF BeginReceive, Loop
  <2>2. Unasked = {} /\ left <= Sum(Spare, Unasked)
    BY <2>1 DEF Unasked, SumInv, Covered
  <2>3. given + left = consumed - produced
    BY <1>1, <2>1 DEF Ledger, Counts
  <2>4. given >= consumed - produced
    BY <1>1, <1>5, <2>2, <2>3 DEF EnergyTypeOK
  <2> QED BY <2>1, <2>4 DEF Covered
<1>16. ASSUME NEW c \in Cell, ChargeCell(c) PROVE Covered'
  BY <1>16 DEF ChargeCell, TakeCell, GoOnInFront, SumInv, Covered
<1>17. CASE BeginWork \/ EndTick \/ \E n \in Consumer : Work(n)
  BY <1>17 DEF BeginWork, EndTick, Work, Loop, Take, GoOn, SumInv, Covered
<1>18. CASE UNCHANGED vars
  BY <1>6, <1>18 DEF vars, Unasked, SumInv, Covered
<1> QED
  BY <1>7, <1>8, <1>9, <1>10, <1>11, <1>12, <1>13, <1>14, <1>15, <1>16, <1>17, <1>18 DEF Next

\* Where no two storages front the same cells, they pay for everything that
\* was consumed beyond the production, as energy_system.lua:181 says: what
\* calc_energy_stored promised is there when run_use_stored_energy collects
\* it, in whatever order both ask.
THEOREM RestAlwaysComesFromStorage ==
  ASSUME NobodyShares, IsFiniteSet(Cell)
  PROVE  Spec => []RestComesFromStorage
<1>1. SumInv => RestComesFromStorage
  BY DEF SumInv, Covered, RestComesFromStorage
<1>2. SumInv /\ [Next]_vars => SumInv'
  BY SumNextInv, NextInv DEF SumInv
<1> QED BY <1>1, <1>2, SumInitInv, PTL DEF Spec

=============================================================================
