----------------------------- MODULE EnergySystem -----------------------------
(***************************************************************************)
(* yatm_cluster_energy/energy_system.lua: one tick of the energy of one    *)
(* cluster.  Producers are asked what they yield and storages what they    *)
(* can spare, consumers take from the sum, storages pay for what was       *)
(* consumed beyond the production, or share what was not.  pairs() gives   *)
(* the nodes in any order, so each loop takes them one by one.             *)
(*                                                                         *)
(* A storage keeps its energy in cells: an energy cell in itself, an array *)
(* controller in the array cells of its cluster, which other controllers   *)
(* may front as well.  Amounts are whole units per tick, the rates already *)
(* multiplied with the time step.                                          *)
(***************************************************************************)
EXTENDS Integers

CONSTANTS
  Producer, Consumer, Storage,   \* the nodes of the groups; storages also receive
  Cell,                          \* where the energy is
  Front,                         \* [Storage -> SUBSET Cell]
  CellCapacity, CellBandwidth,   \* [Cell -> Nat]
  Yield,                         \* what produce_energy may answer; nil counts as 0
  PassiveLost,                   \* passive_lost of a consumer
  ChargeBandwidth,               \* network_charge_bandwidth of a consumer
  BufferCapacity                 \* capacity of a consumer's buffer

ASSUME EnergyAssumption ==
  /\ Front \in [Storage -> SUBSET Cell]
  /\ CellCapacity \in [Cell -> Nat] /\ CellBandwidth \in [Cell -> Nat]
  /\ Yield \subseteq Nat
  /\ PassiveLost \in Nat /\ ChargeBandwidth \in Nat /\ BufferCapacity \in Nat

VARIABLES
  energy,      \* [Cell -> Nat], the energy in the metadata of each cell
  buffer,      \* [Consumer -> Nat], the energy buffer of each consumer
  phase,       \* the loop of update that runs
  todo,        \* the nodes the loop has not come to
  front,       \* the cells the storage at hand has not come to
  produced, available, consumed,   \* energy_produced, energy_available, energy_consumed
  left,        \* energy_storage_consumed or energy_left of the loop that runs
  given,       \* history: what the cells paid in this tick
  received     \* history: what the cells were charged with in this tick

vars == <<energy, buffer, phase, todo, front, produced, available, consumed, left, given, received>>

Phase == {"idle", "produce", "store", "consume", "use", "receive", "work"}

EnergyTypeOK ==
  /\ energy \in [Cell -> Nat] /\ \A c \in Cell : energy[c] <= CellCapacity[c]
  /\ buffer \in [Consumer -> Nat] /\ \A n \in Consumer : buffer[n] <= BufferCapacity
  /\ phase \in Phase
  /\ todo \subseteq Producer \cup Consumer \cup Storage
  /\ front \subseteq Cell
  /\ produced \in Nat /\ available \in Nat /\ consumed \in Nat
  /\ left \in Int /\ given \in Nat /\ received \in Nat

Init ==
  /\ energy = [c \in Cell |-> 0]
  /\ buffer = [n \in Consumer |-> 0]
  /\ phase = "idle" /\ todo = {} /\ front = {}
  /\ produced = 0 /\ available = 0 /\ consumed = 0
  /\ left = 0 /\ given = 0 /\ received = 0

Least(a, b) == IF a <= b THEN a ELSE b

(***************************************************************************)
(* energy.lua: what moves when `amount` is offered or asked for.           *)
(***************************************************************************)

\* mutant: the bandwidth of the cell is not looked at
Usable_IgnoresBandwidth(c) == energy[c]

\* get_meta_energy_throughput
Usable(c) == Least(energy[c], CellBandwidth[c])

\* mutant: the capacity is not looked at
Received_IgnoresCapacity(stored, amount, bandwidth, capacity) == Least(amount, bandwidth)

\* calc_received_energy
Received(stored, amount, bandwidth, capacity) ==
  Least(stored + Least(amount, bandwidth), capacity) - stored

\* calc_consumed_energy
Consumed(stored, amount, bandwidth) == Least(stored, Least(amount, bandwidth))

\* device_passive_consume_energy: what the device loses comes off the offer
\* first, and its buffer is charged with the rest.
Lost == Least(available, PassiveLost)

Charged(n) == Received(buffer[n], available - Lost, ChargeBandwidth, BufferCapacity)

(***************************************************************************)
(* The loops.                                                              *)
(***************************************************************************)
Loop(from, to, nodes) ==
  /\ phase = from /\ todo = {} /\ front = {}
  /\ phase' = to /\ todo' = nodes /\ front' = {}

Take(loop, n) == phase = loop /\ front = {} /\ n \in todo

\* A node is handled; the loop goes on, or it breaks off.
GoOn(n, enough) == todo' = IF enough THEN {} ELSE todo \ {n}

\* A storage goes through its cells.
OpenStorage(s) ==
  /\ \E loop \in {"store", "use", "receive"} : Take(loop, s)
  /\ todo' = todo \ {s}
  /\ front' = Front[s]
  /\ UNCHANGED <<energy, buffer, phase, produced, available, consumed, left, given, received>>

TakeCell(loop, c) == phase = loop /\ c \in front

\* A cell is handled; nothing more is asked of anyone once it is enough.
GoOnInFront(c, enough) ==
  /\ front' = IF enough THEN {} ELSE front \ {c}
  /\ todo' = IF enough THEN {} ELSE todo

\* calc_energy_produced
BeginTick ==
  /\ Loop("idle", "produce", Producer)
  /\ produced' = 0 /\ available' = 0 /\ consumed' = 0
  /\ left' = 0 /\ given' = 0 /\ received' = 0
  /\ UNCHANGED <<energy, buffer>>

Produce(n) ==
  /\ Take("produce", n) /\ GoOn(n, FALSE)
  /\ \E amount \in Yield : produced' = produced + amount
  /\ UNCHANGED <<energy, buffer, phase, front, available, consumed, left, given, received>>

\* calc_energy_stored; the sum is built up in energy_available
BeginStore ==
  /\ Loop("produce", "store", Storage)
  /\ available' = produced
  /\ UNCHANGED <<energy, buffer, produced, consumed, left, given, received>>

CountCell(c) ==
  /\ TakeCell("store", c) /\ GoOnInFront(c, FALSE)
  /\ available' = available + Usable(c)
  /\ UNCHANGED <<energy, buffer, phase, produced, consumed, left, given, received>>

\* run_consume_energy
BeginConsume ==
  /\ Loop("store", "consume", IF available > 0 THEN Consumer ELSE {})
  /\ UNCHANGED <<energy, buffer, produced, available, consumed, left, given, received>>

Consume(n) ==
  LET amount == Lost + Charged(n)
  IN /\ Take("consume", n) /\ GoOn(n, available - amount <= 0)
     /\ buffer' = [buffer EXCEPT ![n] = @ + Charged(n)]
     /\ available' = available - amount
     /\ consumed' = consumed + amount
     /\ UNCHANGED <<energy, phase, front, produced, left, given, received>>

\* run_use_stored_energy
BeginUse ==
  /\ Loop("consume", "use", IF consumed > produced THEN Storage ELSE {})
  /\ left' = consumed - produced
  /\ UNCHANGED <<energy, buffer, produced, available, consumed, given, received>>

\* mutant: the cell pays without keeping count of what is still owed
DrainCell_NotCounted(c) ==
  LET used == Consumed(energy[c], left, CellBandwidth[c])
  IN /\ TakeCell("use", c) /\ GoOnInFront(c, left - used <= 0)
     /\ energy' = [energy EXCEPT ![c] = @ - used]
     /\ given' = given + used
     /\ UNCHANGED <<buffer, phase, produced, available, consumed, left, received>>

DrainCell(c) ==
  LET used == Consumed(energy[c], left, CellBandwidth[c])
  IN /\ TakeCell("use", c) /\ GoOnInFront(c, left - used <= 0)
     /\ energy' = [energy EXCEPT ![c] = @ - used]
     /\ left' = left - used
     /\ given' = given + used
     /\ UNCHANGED <<buffer, phase, produced, available, consumed, received>>

\* mutant: everything that is still available counts as surplus
BeginReceive_Available ==
  /\ Loop("use", "receive", IF available > 0 THEN Storage ELSE {})
  /\ left' = available
  /\ UNCHANGED <<energy, buffer, produced, available, consumed, given, received>>

\* run_receive_energy, of the production that nobody consumed
BeginReceive ==
  /\ Loop("use", "receive", IF available > 0 /\ produced > consumed THEN Storage ELSE {})
  /\ left' = produced - consumed
  /\ UNCHANGED <<energy, buffer, produced, available, consumed, given, received>>

\* mutant: what was offered counts as taken
ChargeCell_CountsOffered(c) ==
  LET used == Received(energy[c], left, CellBandwidth[c], CellCapacity[c])
  IN /\ TakeCell("receive", c) /\ GoOnInFront(c, left - used <= 0)
     /\ energy' = [energy EXCEPT ![c] = @ + used]
     /\ left' = left - Least(left, CellBandwidth[c])
     /\ received' = received + used
     /\ UNCHANGED <<buffer, phase, produced, available, consumed, given>>

ChargeCell(c) ==
  LET used == Received(energy[c], left, CellBandwidth[c], CellCapacity[c])
  IN /\ TakeCell("receive", c) /\ GoOnInFront(c, left - used <= 0)
     /\ energy' = [energy EXCEPT ![c] = @ + used]
     /\ left' = left - used
     /\ received' = received + used
     /\ UNCHANGED <<buffer, phase, produced, available, consumed, given>>

\* run_has_update: every machine may spend of its own buffer
BeginWork ==
  /\ Loop("receive", "work", Consumer)
  /\ UNCHANGED <<energy, buffer, produced, available, consumed, left, given, received>>

Work(n) ==
  /\ Take("work", n) /\ GoOn(n, FALSE)
  /\ \E kept \in 0..buffer[n] : buffer' = [buffer EXCEPT ![n] = kept]
  /\ UNCHANGED <<energy, phase, front, produced, available, consumed, left, given, received>>

EndTick ==
  /\ Loop("work", "idle", {})
  /\ UNCHANGED <<energy, buffer, produced, available, consumed, left, given, received>>

Next ==
  \/ BeginTick
  \/ \E n \in Producer : Produce(n)
  \/ BeginStore
  \/ \E s \in Storage : OpenStorage(s)
  \/ \E c \in Cell : CountCell(c)
  \/ BeginConsume
  \/ \E n \in Consumer : Consume(n)
  \/ BeginUse
  \/ \E c \in Cell : DrainCell(c)
  \/ BeginReceive
  \/ \E c \in Cell : ChargeCell(c)
  \/ BeginWork
  \/ \E n \in Consumer : Work(n)
  \/ EndTick

Spec == Init /\ [][Next]_vars

(***************************************************************************)
(* What a tick owes to the energy it moves.                                *)
(***************************************************************************)

\* "if we went over the produced, then the rest must be taken from the
\* storage" (energy_system.lua:181): when the storages are through, they have
\* paid for everything that was consumed beyond the production.
RestComesFromStorage ==
  phase \in {"receive", "work"} => given >= consumed - produced

\* The storages never pay more than is owed, nor are charged with more than
\* was left over.
NobodyOverpays ==
  /\ given > 0 => given <= consumed - produced
  /\ received > 0 => received <= produced - consumed

\* The running count of a loop is what is still owed: it never falls below
\* zero while anyone is asked, and what the cells paid, or were charged with,
\* makes up the difference.  Storages are only asked to pay before any is
\* charged, and none is charged once one paid.
Counts(paid, owed) ==
  /\ paid + left = owed
  /\ paid > 0 \/ todo # {} \/ front # {} => left >= 0

Ledger ==
  /\ phase \in {"produce", "store", "consume"} => given = 0 /\ received = 0
  /\ phase = "use" => Counts(given, consumed - produced) /\ received = 0
  /\ phase = "receive" => /\ Counts(received, produced - consumed)
                          /\ todo # {} \/ front # {} => given = 0

\* No cell is charged in a tick in which one paid: energy does not go in
\* circles between storages.
NoCircles == given = 0 \/ received = 0

=============================================================================
