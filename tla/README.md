# Verification of mt-yatm

mt-yatm is a modpack of machines, pipes, cables and computers for a voxel world
engine. Nearly all of its control logic is about *networks of nodes*: blocks in
the world that find each other, form a cluster, elect a controller, share
energy, heat, items or data, and have to survive being dug, replaced, unloaded
with their map block and loaded again. This directory holds TLA+ models of that
core, the TLC configurations that check them and proofs checked by TLAPS.

All paths below are relative to `src/`.

## 1. Inventory

Everything runs on one server thread. There is no preemption inside a handler;
what makes the system hard is that the world changes *between* server steps,
that handlers only see queued events and the world as it is when they run, that
map blocks leave memory without telling anybody, and that nothing is persisted.

| Part | State | Operations | Talks to |
|---|---|---|---|
| Cluster registry, `yatm_clusters/clusters.lua` | `m_clusters`, `m_cluster_id`, `m_node_clusters`, `m_group_clusters`, `m_active_blocks`, the event queue | create, merge, destroy; add, update, remove a node; change groups; mark and expire blocks; `update` once per server step | owns the update loop; calls group handlers and systems |
| Simple clusters, `yatm_clusters/simple_cluster.lua`, `node_tracing.lua` | none of its own beyond the group name | handlers of `add_node`, `load_node`, `update_node`, `remove_node`; scan for branches | scheduled by node callbacks, changes the registry |
| Device cluster, `yatm_cluster_devices/init.lua`, `yatm_machines_api/api.lua` | `assigns` of a cluster: generation, controller, state; the names of the nodes, and `up_state` in their metadata | adds `refresh_controller`, `transition_state`; machines and engines that start, stop and idle | schedules events from handlers; swaps nodes, by election and by what a device decides in its own update, called by the energy system |
| Energy system, `yatm_cluster_energy/` | energy in node metadata | one tick: produce, count, consume, pay, charge, work | called by the registry for every energy cluster |
| Thermal cluster, `yatm_cluster_thermal/` | heat in node metadata | a simple cluster and a system | as energy |
| Generic transport, `yatm_clusters/generic_transport_network.lua` | `m_members`, `m_members_by_type`, `m_block_members`, `m_networks`, the queue of positions, `m_invalid_networks` | register, update and unregister a member; unload a block; `update`: drop invalid members, flood from what is queued, update the networks | called by nodes and by the expiry of blocks in the registry; flows are left to subclasses |
| Fluid and item transport, `yatm_fluid_pipes/fluid_transport_network.lua`, `yatm_item_ducts/item_transport_network.lua` | nothing beside the networks; the fluid is in the tanks | `update_network`: extractors offer, inserters take | tanks beside extractors and inserters |
| DATA network, `yatm_data_network/data_network.lua`, `api.lua` | `m_members`, `m_networks` with sub networks, `ready_to_send`, `ready_to_receive`; `m_queued_refreshes` | add, upsert, remove a node; unload a block; send a value, bind a port; `update`: flood, dispatch in rounds, update the devices | called by nodes, loading modifiers and the expiry of blocks; calls `receive_pdu` and `update` of DATA logic nodes, which send again |
| Oku machines, `yatm_oku/` | registers, memory, stack of a chip; `active` of a computer | fetch, decode, execute (C and Lua); reset, load a program, insert a floppy, save and load | stepped by the server; DATA network |
| Spacetime, reactors, storage, security, machines, frames and rails, content, tools | see `PROJECT.json` | | |

What is hard, and which properties make each part correct:

* **Registry.** Five tables say the same thing in different directions. A method
  that forgets one of them does not fail; a later iteration skips a node,
  dereferences a missing cluster, or never notices that a block unloaded. The
  properties are about agreement of the tables in every order of calls, and about
  what a call may never lose.
* **Simple clusters.** Handlers run late: several events of one update see a
  world ahead of them. Correctness is about the shape of clusters (blobs), one
  cluster per node, an index that finds the members, and that the update loop eventually collects,
  expires and joins.
* **Device cluster.** Events schedule events; a state decided in one update is
  applied in the next; a generation counter suppresses work; and machines swap
  themselves, whatever was elected. Correct when the election is about the present
  members, devices show its outcome or what they decided themselves, and the chain
  of events ends.
* **Energy.** Amounts are promised in one loop and collected in another.
  Correct when consumption is paid for, nobody overpays, and stored energy is
  not used to charge storage.
* **Transport networks.** Building and digging only queues positions; a later flood
  makes networks of what it then finds, moving members out of networks that other
  code still refers to. Six tables must agree after every order of calls, networks
  must settle on the connected parts of the map, and what flows must follow the
  pipes that are there, not those that were there when the network was built.
* **Fluids.** An offer of one loop is taken up by another: correct when nothing is
  lost, nothing is taken out that was not put in, and what is connected flows.
* **DATA network.** As the transport network, with ports on top: each cable
  colour has a range of ports, a value goes out on a global port and comes in on a
  local one. Correct when values only follow wires, keep arriving, and when
  delivering one never meets a receiver that is no longer attached.
* **Oku.** Every byte is an `int8_t`, and each operand function widens, masks
  and adds it in its own way. Correct when an instruction works on the address
  its mode is documented to have, sums and overflow are right for all signs,
  the stack stays in its page and what goes onto it comes back.

The hazards are listed one by one, at their lines, in `PROJECT.json`.

## 2. Modules and how they correspond to the code

| Module | Models | Uses |
|---|---|---|
| `ClusterRegistry` | the classes `Cluster` and `Clusters` as pure operators on one record `reg`: every method is an operator from registry to registry; declares the state its two clients share, `reg` and the loaded blocks | |
| `Clusters` | the registry under *any* client: each public method is an action, in any order, with blocks that unload and load | `ClusterRegistry` |
| `Blobs` | abstract specification of a simple cluster: registered nodes are partitioned into connected parts, a new node joins what it touches | |
| `SimpleCluster` | world, event queue, update loop and the handlers of `SimpleCluster`; shown to implement `Blobs` | `ClusterRegistry`, `Blobs` |
| `DeviceCluster` | the handlers that `DeviceCluster` overrides and adds: election and propagation of the state; the swaps of devices that work | `SimpleCluster` |
| `EnergySystem` | one tick after another of the energy of one cluster | |
| `TransportNetwork` | the tables of the generic transport network, the flood, the world and blocks around it, the update loop with an abstract `UpdateNetwork` | |
| `FluidTransport` | the fluid network on top of it: offers of extractors to inserters, tanks, valves; one offer is one step | `TransportNetwork` |
| `DataNetwork` | the DATA network: queue, flood, networks and sub networks, port translation, listeners, dispatch in rounds, devices that send on their own or when they receive | |
| `RegistryProofs` | what every method keeps, and with it the inductive invariant of the registry under any client | `Clusters`, TLAPS |
| `DeviceProofs` | simple and device clusters keep the registry typed and its indexes in step; the node index is exact while blocks stay loaded; only removals lose devices; no update crashes where devices that swap themselves are not dug; while devices are only placed and work: no loss, no doubles, the refinement of `Blobs`, the election and what the devices show | `DeviceCluster`, `RegistryProofs`, `BlobsProofs`, TLAPS |
| `FiniteProofs` | lemmas the others share: iterated functions, walks through a finite set, sums over a set | TLAPS |
| `EnergyProofs` | the inductive invariant of a tick | `EnergySystem`, `FiniteProofs` |
| `TransportProofs` | the tables of a transport network agree and its networks settle on the connected parts of the map; the fluid network implements the generic one, and its fluid follows pipes and is kept | `FluidTransport`, `FiniteProofs` |
| `DataProofs` | the tables of a DATA network agree, its networks settle on what is wired, values follow the wires | `DataNetwork`, `FiniteProofs` |
| `BlobsProofs` | the blobs are the connected components | `Blobs`, TLAPS |
| `Opcodes6502` | the instruction table: for every opcode its operand function and its operation | |
| `Oku6502` | the 6502 chip as operators on a machine: memory, stack, operand functions, flags, operations, the reset sequence, one step | `Opcodes6502` |
| `OkuComputer` | a computer with that chip: stepped while its surroundings reset it, load a program, change the floppy or replace it | `Oku6502` |
| `OkuProofs` | the chip is typed, writes in place and returns from interrupts; its sums and its plain addresses | `OkuComputer`, TLAPS |
| `MC*` | small instances | |

**State.** `reg` is a record with the fields of `Clusters` under their names.
`m_clusters` is a function from live ids to clusters; a cluster has its nodes
(a function from positions to names), the groups, the group and block indexes
and `assigns`. Nested Lua tables used as sets are sets of pairs. A node id is
the position; entries keep the node's name (`Kind`), which decides groups,
colour and variants. `Placeable` are the names of the default states. `VariantOf`
are the names an election may give a device for a state: none, one, or several
where the metadata decides (`up_state` is "on" or "idle",
`yatm_machines_api/api.lua:164`). `OwnNames` are those a device takes by itself.

**Time and atomicity.** In `Clusters` a method is one step, as it is for any
caller on a single thread. In `SimpleCluster` the update loop is split at every
point where one handler ends and the next begins (`BeginUpdate`, one step per
event, `DestroyEmptyCluster`, `EndUpdate`) with `phase` saying where the update
is; the world only moves while `phase = "idle"`. `EndShortUpdate` is a server
step whose accumulated time does not reach the interval. The queue is swapped
out at the start of an update, so events scheduled by handlers wait for the next
one; in `DeviceCluster` this is what lets a decision go stale.

**Order of `pairs()`.** Lua does not say in which order a table is traversed.
Where the order matters (the walk over six directions in the branch scan, the
list of merged clusters, the nodes of an energy group) it is a
nondeterministic choice.

**Outside the sources.** The engine's map, unloading of map blocks and node
callbacks are modelled from how the mods use them: placing, digging and
swapping run the `schedule_*` calls of the node's callbacks; a block leaves
memory silently and `get_node` then answers "ignore", which is no device; a
block that becomes active again runs `schedule_load_node` for its devices.

**Devices that work.** After the events of an update the energy system calls the
`update` of each device (`yatm_cluster_energy/energy_system.lua:266`). A machine
then goes off when its energy is used up, comes back at its threshold
(`WorkContext:run`, `yatm_machines_api/api.lua:391`) and changes between "on" and
"idle" (`set_up_state`, `:463`); engines and generators do so with their fuel or
steam (`yatm_machines/nodes/coal_generator.lua:105`). All of them swap the node and
schedule `update_node` (`device_swap_node_by_state`, `:108`), at any time as far as
the clusters can tell: this is the action `Work`, and energy and fuel are left open. It
comes before the empty cluster is destroyed, in the code after it; the two touch
nothing in common. It may also come in a short update, in which the code runs no
systems, so that the model has more behaviours there. `update` is given the node as the
*energy* cluster has it, which may lag behind the map: a machine may decide by a name it
no longer has, so that every swap between the names of `OwnNames` is allowed.

**Energy.** A loop of `update` is a phase; nodes are taken from `todo` in any
order and the loop breaks off by clearing it. The cells behind a storage are
taken from `front`. `given` and `received` are history variables. Devices
spend any part of their buffer in their own update. Rates are already
multiplied with the time step, and amounts are whole.

**Transport.** `gtn` is a record of the class's tables. A member's record is
referred to from six places in the code; here every index holds the position and
`members` holds the record, which is the same because a record is never copied.
The flood and the regrouping of one queued position are one step, as the order
of `pairs()` over the queue is open. Networks that run empty go at once: in the code
`gc_networks` takes them at the end of the next update, and until then nothing
refers to them and `update_networks` passes them by. A network is updated at most
once per server step; the code repeats a network's update when a step takes longer
than its wait of 0.25 s, which is the same as another step. `UpdateNetwork` in
`TransportNetwork` says only what any subclass may do to the tables; it belongs
to `Spec`, which the proofs and the refinement are about, while the run checks
`FluidSpec`, where `BeginFlow`, `MoveFluid` and `EndFlow` take its place.

**DATA network.** The code draws ids of networks at random until they are new.
Members only ever leave a network, so the positions it was founded with name it
as well; a sub network is named by its wires and a direction by the position it
leads to. One value is sent and every listener is bound as "active", since no
property tells values apart. A round of the dispatch is one step. `crashed` is
the phase after an assert failed: the server has stopped. `table_equals` belongs to another
mod and the sources do not say whether an empty table equals none, so that both
answers are allowed. `missed` is a history variable: the members a refresh passed by
while their block was out of memory (section 6). `heard` holds what the last
round delivered.

**Oku.** `machine` is the chip's struct under its field names, with its memory
and the code the last step returned. A step of the chip is one action, as one
call of `oku_6502_chip_step` is. Bytes are 0..255 and read as signed (`S8`)
exactly where the C code computes with an `int8_t`; the operand is as wide as
in C and may be negative, which is how an address leaves the memory. The
status is overwritten by every access, as in the code, so that only the last
one decides what a step returns. An instruction is the operand function, then
the operation, both from the table. The cycle counter and the address bus are
never read by the chip and are left out. Of a program that does not fit only the
program counter is set, and memory stays; a disk is cut off at 64 KiB
(`FloppySize`), after all of memory has been cleared.

## 3. Runs

| Run | Question | Bounds |
|---|---|---|
| `Clusters_any` | do the tables agree under any client, does a merge or an update lose nodes, does expiry find everybody | 2 nodes in 2 blocks, ids up to 3, 2 live clusters, a mark is good for 1 tick |
| `Simple_index` | with digging and swapping: does the node index lead to the members and to nothing else, whatever waits; are devices lost while a removal is handled and never otherwise | line of 3, 2 names, 2 queued events, ids up to 3 |
| `Devices_grow` | is the election about present members, do devices show the state of their cluster or what they decided themselves, is every device in one cluster and no other, do late handlers implement `Blobs` with several placed, and machines at work, between updates | line of 3, tiers 1 and 2, cables of 2 colours, a machine that starts and stops by itself, 3 queued events |
| `Devices_reload` | absence of the nil error, and with digging, unloading and loading: do empty clusters go, unloaded nodes leave, is every placed or loaded device taken into a cluster, do chains of events end | 2 nodes in 2 blocks, a controller and a machine that elections put on, idle or off, 2 queued events, ids up to 2 |
| `Energy_cells` | is what was promised paid, are the counts right, no circles | a producer, 2 machines, 2 storages, cells of different rate and capacity |
| `Pipes` | do the tables agree and the networks settle on what is connected; does fluid follow pipes, is none lost, does it arrive; do unloaded members leave | line of 3 in 2 blocks, 5 kinds, 2 tanks |
| `Data` | do networks settle on what is wired and coloured alike, do values follow wires to a listener of the same port without an assert failing, do they keep arriving | line of 4 in 2 blocks, a pulser, a buffer, 3 buses, 2 rounds |
| `Oku_step` | does an instruction work on its documented address, are sums and overflow right, do writes stay in place, does RTI undo BRK, does a reset end | every opcode (and one that hangs), 10 operands, 3 accumulators, 2 indexes, 3 status registers; 2 instructions, 1 reset, load or floppy |
| `Simple_split`, `Simple_twice`, `Energy_shared`, `Oku_address` | disagreements, section 6 | as small as shows them |

Why these bounds are enough. The registry relates one cluster to another and
one node to another, so two nodes, two blocks and two live clusters (a third id
shows reuse) exhibit every pair of roles; the theorems of section 4 remove the
bound for the agreement of the tables. A line of three is the smallest world
in which adding a node merges two clusters and removing one separates two. A
queue of two holds a change and its reversal between updates. `MaxClusterId`
and `MaxQueue` only stop the *world*: the update loop still runs to its end.
Marks are good for one tick instead of three (`BlockTimeout`), which keeps the
boundary and drops two identical ticks. Two
storages with cells of different bandwidth let either be asked first and be
enough or not; the yields 0, 1, 3 and 6 lie below, between and above what two
machines take.

`Oku_step` starts from machines saved in front of an instruction. The operands,
the accumulator and the index are chosen at the edges the code can get wrong:
below, at and above the sign bit, at the end of the zero page (`LDA $FF,X`, a
pointer at `$FF`), with the stack pointer one step from its wrap; the status
registers switch carry, decimal mode and overflow on and off. `MaxInstructions`
is two, so that what an instruction left behind (a wrapped stack, a segmentation
fault, a jump out of the program) is stepped on from, and `MaxVisits` one, so
that a reset, a program or a disk comes at every point of the reset sequence.
The memory has its default size, 64 KiB, in this run, and any size in the proofs; no assumption is made on its contents
elsewhere: a computer that is reset starts at whatever the reset vector names.

`Pipes` has an extractor beside a well at one end, an inserter beside a basin in the
middle or at the other end, valves and a second extractor between. Three positions are the
least where digging, closing or unloading the middle separates the ends and
the middle itself may be source or target. The well holds 3 and the basin 2, and the
well starts with 3 (more than fits) or 1 (so that two extractors promise the
same unit); extractors move 2 and inserters 1, so that an offer outlasts one inserter.
The middle is in a block of its own, which unloads.

`Data` is a pulser, two buses and a buffer in a line. The bus next to the pulser matches
any colour or is white, the other is grey, so that replacing one cuts the wire
without a hole in it; ranges and offsets of the ports differ between them, so that a port of
one is another number on the other. A buffer also hears itself, which is what
makes a second round. Either block unloads. `MaxAttempts` is 1 instead of 16: the
cut-off is met, and the rounds between do not differ. The code's test makes it 17
rounds where the head of the file says "up to 16". The
branch of `UpdateDevices` in which an id in the group "updatable" leads to a
device without `update` needs a second kind of device at the same position; a
larger instance with one, and a cable between the buses, was explored to 3.5 million
states without an error, but takes too long for a run. `Data` allows deadlock because a
server that failed an assert has stopped.

`Simple_index` allows deadlock because the handler of `update_node` ends the
server with a nil error when the group has no cluster left (see section 6),
and a stopped server does not step.

**Fairness.** `FairSpec` assumes `WF(Update)`: the engine calls the step
function forever, and a step in progress continues, since nothing blocks. It
also assumes `SF(EndUpdate)`: the time of steps adds up, so an update that is
long enough comes again and again although each single one may be short. `OkuComputer` assumes `WF(StartupStep)`: the server steps every computer whose
`active` is above zero in each of its own steps, whatever the step before
returned. In `Pipes` and `Data`, `UpdatesGoOn` says that updates begin and end
again and again (or the server has crashed). Beyond that, `Pipes` has strong fairness of
`BeginFlow`, since the wait of a network runs down with every step, and of `ExpireBlock`,
since the mark of a block does; `Data` has it of a pulser's sending, since
its timer runs down with every update of the network. No
fairness is assumed of players, of block loading or unloading: a device may
never be placed, a block may stay unloaded forever. `DevicesJoin` and
`UnloadedNodesLeave` therefore speak of what happens *unless* the world undoes
the condition. `DevicesJoin` is about devices with an event waiting: it says that
each is taken into a cluster, not that it stays there. A removal may lose it again
(section 6), and `DevicesStay` says that nothing else does.

## 4. What is proved

`RegistryProofs` proves, for any number of nodes, blocks, groups and clusters
and any client:

* `ClustersTypeCorrect`, `IndexesAlwaysStayInStep`, `UnloadsAreAlwaysNoticed`
  (invariants), and `NoIdIsEverInherited`, `ExpiryIsAlwaysComplete`,
  `NodesOnlyLeaveWhenTold` (action properties).

The argument is one inductive invariant, `ClustersInv == Consistent(reg) /\
loaded \subseteq Block`. `Consistent` says that the tables are well formed, that ids
and node index entries stay below the counter, and that the indexes agree with
the clusters *entry by entry*. The properties the runs check are about whole tables; they
are not inductive one by one. A method first looks up a cluster and its entries, so every
step needs the tables well formed; that the block and group indexes of a *merged*
cluster are right needs those of all the clusters it is built from; that a new id
inherits nothing needs the bound on every id in the node index, stale entries
included, which no other table implies. The node index is required to contain every
member, not to contain nothing else, because expiry really leaves entries
behind (section 6).

The lemmas it rests on say for each operator that it returns a registry,
what it does to each table, and that it keeps `Consistent`; an operator
that changes one cluster is handled by one lemma (`ReplaceCluster`), so that
adding, updating and removing nodes only have to show what they do to the cluster.

`DeviceProofs` carries this to the clients the mods really use, whose handlers run
behind the world: `SimpleTablesAlwaysAgree`, `DeviceTypeCorrect` and
`DeviceTablesAlwaysAgree`, for any map, names, colours, tiers and order of traversal. The
invariant `IInv(E)` takes the set of events of the specification, so that the
steps both share are proved once. It adds to `Consistent` the types of
the world and the queues, and that only finitely many positions hold a device,
without which the nodes of a block, or the branches of a removed node, would be no
sequence. The handlers compose registry operators: each is the chain of their
lemmas, with the id a handler goes on with shown to be live at every link.

It also proves the other direction of the node index, `IndexIsExact`, under
the hypothesis that nothing is unloaded (`"unload" \notin Environment`): every entry
that leads to a live cluster leads to a member (`IsExact`). The hypothesis is
used once: the set of loaded blocks stays whole, so that nothing expires. A
cluster that is destroyed may leave entries behind; they do no harm because
ids are not given out again, which `Consistent` says of the counter. Run
`Simple_index` checks it with two events waiting; the theorem holds of any number.

`OnlyRemovalsLoseDevices` proves `DevicesStay` of simple and of device clusters in
*every* world. Run `Simple_index` checks it where devices are lost at all, with
digging on a line of three. Every step that is not the handling of a removal keeps
the members whose block is loaded (`KeepsNodes`): a merge all of them, an expiry
those of blocks that are there, the collection of a cluster everybody because it is
empty. That rests on consistent tables in which every cluster is in the group
(`OwnedInv`), without which the handlers would not find the clusters they merge.

`UpdatesNeverCrash`: no `update_node` event finds the group empty, which would end
the server. The reason is not in the handler but in what can be on its way, and it
does not hold of every world. It assumes that devices do not swap themselves *or*
that nothing is dug (`"work" \notin Environment \/ "dig" \notin Environment`):

* Without devices that work, nodes of device clusters are swapped by an election
  only, and an election is that of a live cluster. `SafeInv` says that while updates
  wait for the next server step there is a visible node that is a member or will be
  one when the batch is handled, that a removal of a node that is there again is
  followed by its addition, and that clusters are destroyed only where others are
  founded. Devices are placed, dug, unloaded and loaded in any order.
* Without digging, a device in a loaded block is a member or has its addition
  waiting, before any update of its own (`KeptInv`), so that what swaps itself is, or
  will be, in a cluster. Devices are placed, unloaded, loaded and at work in
  any order. `DevicesAreClustered` follows from the same invariant.

With both, a machine in a lost branch swaps itself and meets an empty group
(section 6).

The second part of `DeviceProofs` is about the world in which devices are placed, in any number
between two updates, and at work, and nothing is dug, unloaded or loaded again (`Environment
\subseteq {"place", "work"}`, as in run `Devices_grow`). The hypothesis is what the code
needs and not what the proof needs: runs `Simple_split` and `Simple_twice` show
that what the first two theorems say fails once something is dug.

* `ClustersStayApart`: no device is in two clusters. `GrowInv` adds to `SafeInv` that clusters are disjoint,
  that every waiting event is the first addition of a node or an update in the
  colour the node has, and that each device of the world is registered or has its
  addition waiting.
* `DevicesImplementBlobs`: every step is a `Join`, a `Rename` or none of
  `Blobs`. The refinement mapping looks at the registry through two functions, the
  nodes and the blobs; each handler is first reduced to what it does to them. The
  step that adds a node has to show that the clusters it merges are exactly those
  it touches, though it looks for neighbours in the world and then for their
  clusters in the node index, which is exact by `IndexIsExact`.
* `ClustersAreComponents`: since the registry implements `Blobs`, what
  `BlobsProofs` proves of blobs is true of clusters: they are the connected
  components of the registered devices. `ClustersHoldTogether` is part of it, the
  property run `Simple_split` refutes where nodes are dug.
* `ElectionsAreCurrent` and `DevicesFollow`: the election chain of events. `ElectInv`
  says of each cluster that a refresh waits for it in the queue, or waits in the batch
  and was not yet done in this update (the generation counter), or that its
  last election is about its present members and its transition is applied or
  waits behind all others. That needs the name under which a node is registered
  to elect like the node in the world, though one may be behind the other. What a
  device shows is the outcome of the last transition or one of its `OwnNames`: a
  device without these always shows the state of its cluster, and one with them is
  free in between, which the variants sharing their states makes
  harmless to the election.

`BlobsProofs` proves, for any positions, names and links, that the abstract
specification means what it says: `BlobsAreComponents`, the blobs are
exactly the connected components of the registered nodes. The argument needs
no induction over paths, because "connected" is that no part can be cut off
without cutting a link. Gluing keeps it: sets that hold together and share a
node hold together. Falling apart keeps it: what is left of a blob is replaced
by *all* its components, every node lies in one (the union of the connected sets
around it), and two of them that share a node are one. The only hypothesis is
that links go both ways (`LinksGoBothWays`), which the compatibility of colours in
`find_compatible_neighbours` is: without it, "touching" would depend on which
node came last.

`EnergyProofs` proves, for any nodes, cells, rates and capacities, and with or
without shared cells, `EnergyTypeCorrect`, `LedgerAlwaysBalances`,
`NobodyEverOverpays` and `NoCirclesEver`. The invariant is the conjunction of
types, `Ledger` and `NobodyOverpays`: that the amounts stay natural numbers needs
that the count of what is owed never falls below zero while a cell is asked,
which needs the bounds on what cells pay, which need the types.

`RestAlwaysComesFromStorage` says that what consumers got is paid by
producers and storage, when no two nodes report the same cell and there are
finitely many cells; `Energy_shared` shows that the first hypothesis is needed. It
compares sums built up in different loops. They are counted as units of energy
(a cell with n of them is n pairs), so that a loop that pays from one cell adds or
removes a finite set, and no induction over a sum is needed.

`TransportProofs` proves `TablesAlwaysAgree` for any map, kinds, colours and
blocks: whatever is registered, dug, switched, unloaded, expired or regrouped, the
tables agree entry by entry. `TablesAgree` is nearly inductive; the invariant adds
the type of the world, and that the networks still due exist and are due only
while networks are updated. Each change of the tables is a lemma about its operator
(`Unregister`, `Update`, `Regroup`), which goes position by position: a member
leaves the table of the type it is recorded with, which is right as long as the
index and the record agree. Nothing is asked of the flood here, whose members are
registered ones by definition.
`FluidIsATransportNetwork` says that every step of `FluidSpec` is a step of
`Spec` or leaves its variables alone, so that `FluidTablesAlwaysAgree` follows.

What a flood reaches is the subject of `NetworksBecomeComponents`: once nothing is
queued and no block is on its way (`IsSettled`), the networks are the parts that pipes
connect on the map as it is. The flood is a recursive function on the natural
numbers, cut off after as many rounds as there are positions. `FiniteProofs` shows
that such a definition has a value (`IterationExists`) and that a walk through
a finite set comes, in that many rounds, to the least set that contains its start
and is closed (`WalkIsClosure`): a round that adds nothing ends it, and each that adds
something uses up a node. The library's induction theorems take an operator as
a parameter, which the provers cannot instantiate; both proofs use instead that a
set of natural numbers that is not empty has a least element. The invariant is `SettleInv`. The
property speaks of states in which everything has settled and says nothing of the
others; the invariant has to say in *every* state what is already right. That is
`CleanAreWhole`: if no pipe a flood from p would find now is queued or beside a node
whose block is on its way, the network of p is what that flood would find. It is local,
so that a step has to be looked at only where it changes the world: whoever builds,
digs or switches queues the neighbourhood, and what was connected through it is not
clean any more. `FluidNetworksBecomeComponents` follows by refinement.

The fluid theorems rest on `FluidInv`, which adds `FlowIsSound`: while offers of a
network are open, the world stands still, each offer was made by an extractor and is
taken by an inserter of this network, and what is offered of a tank is there, unless
two extractors offered the same tank. `FluidTypeCorrect` says that no tank leaves
its range. `FluidAlwaysFollowsPipes` uses that the two ends of an offer
are in one network and that networks are connected. `FluidIsAlwaysKept` compares the
sum of all tanks before and after a step, counted as units like energy: nothing is
ever lost, and a gain needs two extractors beside one tank.

`DataProofs` proves of the DATA network, for any finite map, kinds, ports and blocks:

* `DataTablesAlwaysAgree`: members and networks agree, no network is empty or has a
  member it was not founded with, and the block of every member is marked. That last
  part is what makes unloading noticed at all. A network of the same founding
  positions is never there twice because a refresh takes its members out of all
  others first.
* `DataNetworksAreWhole`: with nothing queued, a network is what is wired together.
  `WholeInv` says what is right before everything has been refreshed. Two
  members that are joined on the map share their network unless one of them waits
  (`JoinedShare`). A part of a network that is cut off from the rest of it and
  in which nothing waits is the whole network as it was founded (`RestIsWhole`): this is
  what is left of "networks are connected" while one falls apart. And as long as a
  network has all its founding members, its lists are those it was founded with
  (`AsFounded`). Waiting are the positions in the queue, in the batch, and those a
  refresh passed by because their block was away. Digging needs that neighbours are
  queued, a refresh that the flood is closed and the least such set.
* `PDUsAlwaysFollowWires`: values follow wires, and no assert fails. While networks are
  updated nothing waits but what was passed by, so that without such members every
  network is as founded, also after any number of dispatches, which only
  change what is ready to send: entries of members, for their ports.

`OkuProofs` proves, of a computer with any size of memory that `OKU:new` accepts, any
saved machines, programs and disks:

* `MachineIsTyped`: the type invariant is inductive as it stands. A step of the chip
  is an operand function and then an operation, out of a table of 256. Two notions
  split it. An operand function *prepares* (`Prepares`): it returns a machine with
  the memory, the registers, the stack pointer and the flags it was given. An
  operation *keeps* (`Keeps`): it returns a machine with the operand it was given,
  and memory changed at most there and in the page of the stack. Each operand function
  and each group of operations that share their code has a lemma, and one about the table
  (`Decoded`) says that every opcode leads to one of them. What is not obvious is
  where the C types narrow a value; each such place is a lemma about bytes,
  words, bits and signs.
* `WritesDoStayInPlace` follows from `Keeps`: an operation writes at its operand
  or pushes, and a push stays in its page because the stack pointer is a byte.
* `InterruptsDoReturn`, for a memory of at least 512 bytes, so that the page of
  the stack is in it: the three places `BRK` pushes to are different
  ones (`StackPlaces`), also where the stack pointer wraps, so that `RTI` reads what
  was written. The two halves of the program counter make up the whole only if
  the low one is below 128. The hypothesis holds of every computer with this chip
  that the sources create (1, 16 or 64 KiB); `OKU:new` accepts less, down to
  4 bytes (`yatm_oku/oku.lua:88`).
* `SumsAreIndeedSigned`: of every two bytes and carry. The overflow flag is a
  comparison of three sign bits in the code; the lemmas `SignedSum` and
  `SignedDifference` say it tells exactly the sums that a signed byte cannot hold.
* `PlainAddressesAreIndeedRight`: of every address mode and machine. The functions
  have the right value where no byte that enters is read as negative
  (`SignedBytes`); which bytes those are differs from mode to mode, and the proof uses
  each of them.

Assumptions: only those on the constants (`RegistryAssumption`,
`ClustersAssumption`, `ComputerAssumption`, `MemSizeAssumption`, `EnergyAssumption`, `TransportAssumption`,
`FluidAssumption`, `DataAssumption`, `SimpleClusterAssumption`,
`DeviceAssumption`, `VariantAssumption`, `MapAssumption`), which TLC evaluates on every
run. Five of them say something about the code beyond types. Positions are vectors of
integers, so that neighbourhood is symmetric. The map of a world is bounded, so that
positions, and tanks with them, are finite (`MapAssumption`, `FluidAssumption`): a flood
ends, and there is a sum of all fluid. And the variants of a device, those it takes by itself included, differ in nothing an election reads (`VariantAssumption`), because
`register_stateful_network_device` (`yatm_machines_api/api.lua:635`) makes all of
them from one `yatm_network`. A memory has between 4 bytes and 1 MiB
(`MemSizeAssumption`, the check of `yatm_oku/oku.lua:87`), and a machine that was saved is
one a computer can be in (`ComputerAssumption`): it was saved by a computer.

## 5. What is only model-checked

Liveness and everything that depends on fairness (`FairSpec`, `FairFluidSpec`,
`UpdatesGoOn`): the provers here do not handle ENABLED. The properties
that runs refute, where there is nothing to prove. Every invariant and action
property of a passing run is proved, for every value of the constants.

Some properties hold only in a restricted world, and the configurations say
which (`Environment`, `Hasty`). `AtMostOneCluster`, `DevicesFollowCluster` and the
refinement of `Blobs` need that nothing is dug or loaded again,
`EveryDeviceIsClustered` that nothing is dug; the exact node index needs that
nothing is unloaded. `NeverCrashes` needs that devices do not swap themselves or
that nothing is dug: `Devices_reload` digs and has no devices at work. What
`DevicesFollowCluster` says of a device that works is little: it may show any of its own names. `ElectionIsCurrent` is not claimed with digging, when the
branch scan may leave a controller in a cluster it no longer touches.
`NetworksAreWhole` and `PDUsFollowWires` exclude networks a refresh
passed by members of (`missed`); `FluidFollowsPipes` excludes steps while a block is
between loading and the run of its loading modifiers.
`PlainAddressesAreRight` is about addresses without a top bit. These are
not weaknesses of the model: outside of the stated world the code does
something else, and section 6 says what.

## 6. Where code and documentation disagree

* **A cut cluster stays one cluster** (`Simple_split`). When a node is dug,
  `scan_for_branches` adds each direction to a position it overwrites
  (`yatm_clusters/simple_cluster.lua:433`), so the scan wanders off and cannot look
  at two opposite neighbours.
* **A producer is asked twice** (`Simple_twice`). The handler of a removed node
  destroys, for each branch it found, the cluster of the first node in it and
  founds one of all nodes of the branch (`yatm_clusters/simple_cluster.lua:517`).
  A branch it did not find loses its cluster: its nodes are registered nowhere until
  something is placed beside them. One that lies between two clusters joins both
  in the next scan; only one of them is destroyed, and the nodes of the other are
  in two. Four nodes in a row are enough, each change handled before the next; a
  node dug and placed again between two updates gets there with less.
* **Array cells are promised twice** (`Energy_shared`). Each array controller
  reports all array cells of its cluster as its own
  (`yatm_energy_storage_array/nodes/array_energy_controller.lua:108`). With two
  controllers, consumers get energy no storage pays for.
* **Addresses are signed** (`Oku_address`). `opr_absolute_i16` and its
  siblings put an address together from `int8_t` values
  (`yatm_oku/ext/oku_6502.c:194`), so that `STA $8001` works on -32767 and `LDA
  $90` on -112, and both return a segmentation fault in a memory of 64 KiB. The
  table of address modes at the head of the file says `$HHLL` and "hi-byte is
  zero".

Seen while modelling, with no statement in the sources to hold them against:

* `_handle_update_node` iterates over the clusters of the group without a check
  and fails when the last one is gone (`yatm_clusters/simple_cluster.lua:359`). In a
  device cluster it takes a machine in a branch that a removal lost: three in a line,
  the middle one and then the other end are dug, no cluster is left, and the machine
  changes its name. `NeverCrashes` does not hold on a line of three where devices are
  placed, dug and at work.
* A machine, a generator or an engine does not ask what state its cluster is in. A
  machine that is starved is off in a cluster that is up, and one with energy comes
  back in a cluster that is down (`yatm_machines_api/api.lua:391`); only a machine that shows
  a conflict stays as it is. Generators show "on" or "idle" in a conflict, too
  (`yatm_machines/nodes/coal_generator.lua:109`).
* `move_nodes_from_cluster` passes arguments in the wrong order
  (`clusters.lua:771`); nothing calls it, so it is not in the model.
* Expiry of a block takes nodes out of their clusters, not out of
  `m_node_clusters` (`clusters.lua:1168`); after reloading, the node index still
  leads to the old cluster as well.
* A cluster whose controller was unloaded keeps its state until its next change
  (`yatm_cluster_devices/init.lua:226`), and only the first node of an expired
  block is told that it unloads (`:228`).
* Two extractors beside one tank each offer its whole content. When both offers
  are taken up, inserters are filled with more than the tank gives
  (`FluidIsKept` says that this is the only way fluid appears).
* A refresh of the DATA network does not see members whose block is out of
  memory. They keep their old network, with its listeners; the others found a new one.
  Dispatch in the old one then hands a value to a listener that has moved on, and
  `net_port_to_local_port` asserts in vain that it is attached
  (`yatm_data_network/data_network.lua:170`); and when the block comes back before it expires,
  `upsert_member` finds nothing changed (`yatm_data_network/api.lua:37`) and the
  network stays split. The `Data` run reaches both.
* In the 6502: `JSR` reads its target behind the operand it was given, and
  `RTS` returns to the second byte of that target; `BIT` looks at the byte
  behind the instruction; `ASL A` writes nothing; `TAY` writes x; `ROR A` keeps
  the sign of a negative accumulator; opcode `0x91` (`STA ind,Y`) is given the
  operand function of `X,ind`; `BRK` reads only the low byte of its vector;
  carry is bit 8 of a signed sum; a hanging opcode returns `HANG_CODE` and
  leaves the chip running.
* A computer is created with `active = 0` (`yatm_oku/computers.lua:342`) and
  nothing raises it: only computers saved by the first version of the format are
  stepped.
* The drive of a floppy is a computer of its own with `MAX_DISK_SIZE = 0x4000` bytes of
  memory, "64k" in the comment (`yatm_oku/nodes/floppy_disk_drive.lua:71`); a disk of
  more than these 16 KiB clears the memory and is then not copied.
* `load_com_binary` sets the program counter of a chip that has not started yet,
  and the reset sequence then overwrites it.

## 7. What is not modelled, and the plan

`PROJECT.json` lists every part with its status. Next, in this order:

1. **Item transport**: `update_network` of the item network moves stacks
   through inventories; its membership is `TransportNetwork` already.
2. **DATA network, continued**: mounted cables and buses with their
   accessible directions, listeners for one value, unbinding.
3. **Oku, continued**: the Lua chip
   (`yatm_oku/lib/oku/isa/mos_6502/impl/lua.lua`) as a second implementation
   of the same table, saving to files.
4. **Thermal system** and **reactors**: systems over simple clusters.
5. **Spacetime** addresses and **battery banks** with modes and cached sums.

Not worth modelling: `oku_sm8.c` and `oku_sm6502.c` are called by nothing, and the
Makefile builds only `oku_6502.so`; `oku_8086.c` and `oku_65816.c` are headers and
stubs without behaviour.

Left out on purpose: observers and tracing (they change nothing the clusters
read), info texts and forms, node, item and craft registrations, recipes,
entities driven by the engine, and fractions of energy units, whose rounding is
done by a metadata library outside this repository.
