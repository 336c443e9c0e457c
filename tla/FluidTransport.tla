--------------------------- MODULE FluidTransport ---------------------------
(***************************************************************************)
(* yatm_fluid_pipes/fluid_transport_network.lua on top of the generic      *)
(* network: an update of a network first asks the tanks beside its         *)
(* extractors what they could give, without taking it, and then offers     *)
(* every inserter's tanks every entry of that list.  What a tank accepts   *)
(* is drained from the tank the entry came from, and nobody looks at how   *)
(* much that yields.  There is one fluid.                                  *)
(***************************************************************************)
EXTENDS TransportNetwork, Sequences

CONSTANTS
  Tank,
  Outlet, Inlet,       \* the tanks with fluid_interface_out and fluid_interface_in
  TankBeside,          \* [Pos -> SUBSET Tank]
  TankBlock,           \* [Tank -> Block]
  Capacity,            \* [Tank -> Nat]
  TankBandwidth,       \* the bandwidth of a tank's own interface
  ExtractorBandwidth, InserterBandwidth,
  InitialLevels        \* the levels the tanks may start from

ASSUME FluidAssumption ==
  /\ IsFiniteSet(Tank) /\ Outlet \subseteq Tank /\ Inlet \subseteq Tank
  /\ TankBeside \in [Pos -> SUBSET Tank] /\ TankBlock \in [Tank -> Block]
  /\ Capacity \in [Tank -> Nat] /\ InitialLevels \subseteq [Tank -> Nat]
  /\ \A l \in InitialLevels, t \in Tank : l[t] <= Capacity[t]
  /\ {TankBandwidth, ExtractorBandwidth, InserterBandwidth} \subseteq Nat

VARIABLES
  level,   \* [Tank -> Nat], the fluid in the metadata of each tank
  flow     \* the update_network that runs, or Nil

fluidvars == <<vars, level, flow>>

\* An entry of fluids_available is found under the extractor and the tank.
Entry == Pos \X Tank

\* An inserter, one of its tanks, and the entry that is offered to it.
Offer == Pos \X Tank \X Pos \X Tank

FluidTypeOK ==
  /\ level \in [Tank -> Nat] /\ \A t \in Tank : level[t] <= Capacity[t]
  /\ flow # Nil =>
       /\ flow.network \in NetworkId
       /\ DOMAIN flow.available \subseteq Entry
       /\ \A e \in DOMAIN flow.available : flow.available[e] \in Nat
       /\ flow.left \subseteq Offer /\ flow.last \in Offer \cup {Nil}

FluidInit == Init /\ level \in InitialLevels /\ flow = Nil

Least(S) == CHOOSE n \in S : \A m \in S : n <= m

IsTankLoaded(t) == TankBlock[t] \in loaded

\* What a tank gives when `amount` is asked of it: FluidTanks.drain_fluid
\* down to FluidMeta.decrease_amount.
Drained(t, amount) ==
  IF t \in Outlet /\ IsTankLoaded(t) THEN Least({amount, TankBandwidth, level[t]}) ELSE 0

\* mutant: the capacity is not looked at
Filled_Overflows(t, amount) ==
  IF t \in Inlet /\ IsTankLoaded(t) THEN Least({amount, TankBandwidth}) ELSE 0

\* What a tank takes of `amount`: FluidTanks.fill_fluid down to
\* FluidMeta.increase_amount.
Filled(t, amount) ==
  IF t \in Inlet /\ IsTankLoaded(t)
    THEN Least({amount, TankBandwidth, Capacity[t] - level[t]})
    ELSE 0

(***************************************************************************)
(* update_network                                                          *)
(***************************************************************************)
TableOf(n, y) ==
  IF y \in DOMAIN gtn.networks[n].by_type THEN gtn.networks[n].by_type[y] ELSE {}

\* check_network_member
IsPresent(p) == NodeAt(p) = gtn.members[p].name

\* What update_extractor_duct may find beside x: tank after tank in the
\* order of `walk` is asked for what is left of the bandwidth.
Found(x, walk) ==
  LET Asked[i \in 1..Len(walk) + 1] ==
        IF i = 1 THEN ExtractorBandwidth ELSE Asked[i - 1] - Drained(walk[i - 1], Asked[i - 1])
  IN [e \in {<<x, walk[i]>> : i \in 1..Len(walk)} |->
        LET i == CHOOSE j \in 1..Len(walk) : walk[j] = e[2] IN Drained(walk[i], Asked[i])]

\* The orders pairs() may go through a set, and through the tanks of each
\* extractor of X.
Walks(S) == {s \in [1..Cardinality(S) -> S] : IsInjective(s)}
TankWalks(X) ==
  {v \in [X -> UNION {Walks(TankBeside[x]) : x \in X}] : \A x \in X : v[x] \in Walks(TankBeside[x])}

Positive(f) == Restrict(f, {e \in DOMAIN f : f[e] > 0})

\* Everything update_extractor_duct may add to fluids_available for the
\* extractors of X.
EntriesOf(X) == UNION {{x} \X TankBeside[x] : x \in X}
Available(X) ==
  {Positive([e \in EntriesOf(X) |-> Found(e[1], w[e[1]])[e]]) : w \in TankWalks(X)}

\* The tanks of the inserters I are each offered every entry.
Offers(I, available) ==
  {o \in Offer : o[1] \in I /\ o[2] \in TankBeside[o[1]] /\ <<o[3], o[4]>> \in DOMAIN available}

BeginFlow(n) ==
  LET extractors == TableOf(n, "extractor")
      inserters  == TableOf(n, "inserter")
      both       == {"extractor", "inserter"} \subseteq DOMAIN gtn.networks[n].by_type
      checked    == extractors \cup inserters
      present    == {p \in checked : IsPresent(p)}
  IN /\ phase = "networks" /\ n \in due /\ flow = Nil
     /\ both
     /\ invalid' = IF present = checked THEN invalid ELSE invalid \cup {n}
     /\ \E f \in Available(extractors \cap present) :
          flow' = [network |-> n, available |-> f, last |-> Nil, left |-> Offers(inserters \cap present, f)]
     /\ due' = due \ {n}
     /\ UNCHANGED <<world, loaded, activated, overlooked, marked, gtn, phase, batch, level>>

\* How many loops of update_network, from the outermost, are in the same
\* pass for two offers.
Shared(o, r) == CHOOSE k \in 0..4 : /\ \A i \in 1..k : o[i] = r[i]
                                    /\ k < 4 => o[k + 1] # r[k + 1]

\* The loops over the inserters, their tanks, the extractors and their
\* entries are nested: an inner loop ends before an outer one goes on.
IsNext(o) ==
  flow.last # Nil => \A r \in flow.left : Shared(flow.last, r) <= Shared(flow.last, o)

Remaining(available, e, used) == [available EXCEPT ![e] = @ - used]

\* mutant: the entry's tank is drained of what was offered
Drain_Offered(used, offered) == offered

\* The amount drain_fluid is called with after a tank was filled.
Drain(used, offered) == used

\* update_inserter_duct, one entry offered to one tank
MoveFluid(o) ==
  LET target  == o[2]
      source  == o[4]
      entry   == <<o[3], o[4]>>
      offered == Least({flow.available[entry], InserterBandwidth})
      used    == Filled(target, offered)
      filled  == [level EXCEPT ![target] = @ + used]
  IN /\ flow # Nil /\ o \in flow.left /\ IsNext(o)
     /\ level' = [filled EXCEPT ![source] =
                    @ - Least({Drain(used, offered), TankBandwidth, filled[source]})]
     /\ flow' = [flow EXCEPT !.available = Remaining(@, entry, used), !.left = @ \ {o}, !.last = o]
     /\ UNCHANGED vars

EndFlow ==
  /\ flow # Nil /\ flow.left = {}
  /\ flow' = Nil
  /\ UNCHANGED <<vars, level>>

FluidNext ==
  \/ Environment /\ UNCHANGED <<level, flow>>
  \/ BeginUpdate /\ UNCHANGED <<level, flow>>
  \/ \E p \in Pos : ResolvePosition(p) /\ UNCHANGED <<level, flow>>
  \/ BeginNetworks /\ UNCHANGED <<level, flow>>
  \/ \E n \in NetworkId : BeginFlow(n)
  \/ \E o \in (IF flow = Nil THEN {} ELSE flow.left) : MoveFluid(o)
  \/ EndFlow
  \/ flow = Nil /\ EndUpdate /\ UNCHANGED <<level, flow>>

FluidSpec == FluidInit /\ [][FluidNext]_fluidvars

\* The server keeps stepping: every update begins and comes to its end.
UpdatesGoOn == []<>(phase = "idle") /\ []<>(phase = "networks")

\* The wait of a network, and that of the blocks, runs out again and again.
FairFluidSpec ==
  /\ FluidSpec /\ UpdatesGoOn
  /\ SF_flow(\E n \in NetworkId : BeginFlow(n))
  /\ \A b \in Volatile : SF_marked(ExpireBlock(b))

(***************************************************************************)
(* Properties.                                                             *)
(***************************************************************************)
\* All the fluid there is: the number of units, a tank t that holds n of them
\* contributing the pairs of t with 1..n.
Total == Cardinality(UNION {{t} \X (1..level[t]) : t \in Tank})

\* An extractor beside the tank s and an inserter beside the tank t that the
\* pipes on the map lead to from it.
IsPiped(s, t) ==
  /\ IsTankLoaded(s) /\ IsTankLoaded(t)
  /\ \E x, i \in Pos :
       /\ IsDevice(x) /\ TypeOf[world[x]] = "extractor" /\ s \in TankBeside[x]
       /\ IsDevice(i) /\ TypeOf[world[i]] = "inserter" /\ t \in TankBeside[i]
       /\ i \in Flood(x, Seen)

\* While no block is on its way, fluid rises in a tank only if pipes lead to it
\* from another tank: what was dug, closed or replaced since the networks were
\* built no longer counts, and a tank beside both ends does not fill itself.
FluidFollowsPipes ==
  [][BlocksAreSettled =>
       \A t \in Tank : level'[t] > level[t] => \E s \in Tank \ {t} : IsPiped(s, t)]_level

\* No fluid is lost on the way, and what appears from nowhere does so only
\* where two extractors of the network have offered the same tank.
FluidIsKept ==
  [][/\ Total' >= Total
     /\ Total' > Total =>
          \E x, y \in Pos, s \in Tank :
            x # y /\ {<<x, s>>, <<y, s>>} \subseteq DOMAIN flow.available]_level

\* Fluid arrives: a tank that stays connected to another one fills up, or
\* the other one runs dry.
FluidArrives ==
  \A s \in Outlet, t \in Inlet :
    <>[](IsPiped(s, t) /\ loaded = activated) => []<>(level[s] = 0 \/ level[t] = Capacity[t])

=============================================================================
