----------------------------- MODULE DataProofs -----------------------------
(***************************************************************************)
(* On any map, after any building, digging, loading, expiry, refresh and   *)
(* dispatch: the tables of the DATA network agree; with nothing left to    *)
(* refresh, its networks are the components of the map; and values follow  *)
(* the wires.                                                              *)
(***************************************************************************)
EXTENDS DataNetwork, FiniteProofs

IInv ==
  /\ AreTables(members, networks, marked)
  /\ world \in [Pos -> Kind \cup {Air}]
  /\ queued \subseteq Pos /\ batch \subseteq Pos
  /\ phase = "queue" => \A p \in batch : IsDevice(p)

(***************************************************************************)
(* What a refresh computes.                                                *)
(***************************************************************************)
LEMMA ReachedStaysInside ==
  ASSUME NEW p, NEW S, NEW node
  PROVE  p \in Reached(p, S, node) /\ Reached(p, S, node) \subseteq S \cup {p}
BY DEF Reached

LEMMA FoundAreDevices ==
  ASSUME NEW p \in Pos, IsDevice(p)
  PROVE  /\ p \in Found(p, Seen) /\ Found(p, Seen) \subseteq Pos
         /\ \A q \in Found(p, Seen) : Seen[q] \in Kind
<1>1. Seen[p] \in Kind
  BY DEF Seen, IsDevice
<1> QED BY <1>1, ReachedStaysInside DEF Found

LEMMA AttachedIsTyped ==
  ASSUME NEW S \in SUBSET Pos, NEW node, \A q \in S : node[q] \in Kind, NEW p \in S
  PROVE  /\ DOMAIN AttachedTo(p, S, node) \subseteq Beside[p]
         /\ \A d \in DOMAIN AttachedTo(p, S, node) : AttachedTo(p, S, node)[d] \in Attached
<1> DEFINE D == {q \in S \cap Beside[p] : TypeOf[node[p]] = "device" /\ TypeOf[node[q]] = "bus"}
<1>1. DOMAIN AttachedTo(p, S, node) = D
  BY DEF AttachedTo
<1>2. ASSUME NEW d \in D
      PROVE  AttachedTo(p, S, node)[d] \in Attached
  <2>1. AttachedTo(p, S, node)[d] = [color |-> ColorOf[node[d]], sub |-> Wires(d, S, node)]
    BY <1>2 DEF AttachedTo
  <2>2. Wires(d, S, node) \subseteq Pos
    BY <1>2, ReachedStaysInside DEF Wires
  <2>3. ColorOf[node[d]] \in Color
    BY <1>2, DataAssumption
  <2> QED BY <2>1, <2>2, <2>3 DEF Attached
<1> QED BY <1>1, <1>2

LEMMA EntriesAreTyped ==
  ASSUME NEW p \in Pos, NEW a, DOMAIN a \subseteq Beside[p],
         \A d \in DOMAIN a : a[d] \in Attached, NEW ports \in SUBSET Nat
  PROVE  EntriesOf(p, a, ports) \subseteq Entry
<1> SUFFICES ASSUME NEW e \in EntriesOf(p, a, ports) PROVE e \in Entry
  OBVIOUS
<1>1. PICK d \in DOMAIN a : e \in {a[d].sub} \X GlobalPorts(a[d], ports) \X {p} \X {d}
  BY DEF EntriesOf
<1>2. d \in Pos
  BY <1>1, DataAssumption
<1>3. a[d].sub \in SUBSET Pos /\ a[d].color \in Color
  BY <1>1 DEF Attached
<1>4. GlobalPorts(a[d], ports) \subseteq Nat
  BY <1>3, DataAssumption DEF GlobalPorts
<1> QED BY <1>1, <1>2, <1>3, <1>4 DEF Entry

(***************************************************************************)
(* What becomes of the tables.                                             *)
(***************************************************************************)
LEMMA FoundersOnly ==
  ASSUME AreTables(members, networks, marked), NEW n \in Networks
  PROVE  networks[n].members = MembersOf(n) /\ MembersOf(n) \subseteq n
BY DEF AreTables, Networks, MembersOf, Registered

\* What left its network is gone from it, and the rest is there as it was.
LEMMA LeftIsExact ==
  ASSUME AreTables(members, networks, marked), NEW S
  PROVE  /\ DOMAIN Left(S) = {n \in Networks : MembersOf(n) \ S # {}}
         /\ \A n \in DOMAIN Left(S) :
              IsNetwork(Left(S)[n]) /\ Left(S)[n].members = MembersOf(n) \ S
<1> DEFINE L == [n \in Networks |-> [networks[n] EXCEPT !.members = @ \ S]]
<1>1. ASSUME NEW n \in Networks
      PROVE  IsNetwork(L[n]) /\ L[n].members = MembersOf(n) \ S
  <2>1. IsNetwork(networks[n]) /\ networks[n].members = MembersOf(n)
    BY DEF AreTables, Networks, MembersOf, Registered
  <2>2. L[n] = [members |-> MembersOf(n) \ S, updatable |-> networks[n].updatable,
                send |-> networks[n].send, receive |-> networks[n].receive]
    BY <2>1 DEF IsNetwork
  <2> QED BY <2>1, <2>2 DEF IsNetwork
<1>2. DOMAIN Left(S) = {n \in Networks : L[n].members # {}} /\ \A n \in DOMAIN Left(S) : Left(S)[n] = L[n]
  BY DEF Left, Restrict
<1> QED BY <1>1, <1>2

\* Members leave, if the marks of the others stay.
LEMMA RemovingKeepsTables ==
  ASSUME AreTables(members, networks, marked), NEW S,
         members' = Restrict(members, Registered \ S), networks' = Left(S),
         \A p \in Registered \ S : BlockOf[p] \in marked'
  PROVE  AreTables(members', networks', marked')
<1>1. DOMAIN members' = Registered \ S /\ \A p \in Registered \ S : members'[p] = members[p]
  BY DEF Restrict
<1>2. \A p \in Registered : IsMember(p, members[p]) /\ members[p].network \in Networks \cup {Nil}
  BY DEF AreTables, Registered, Networks
<1>3. Registered \subseteq Pos /\ Networks \subseteq NetworkId
  BY DEF AreTables, Registered, Networks
<1>4. ASSUME NEW p \in Registered \ S
      PROVE  members[p].network \in DOMAIN networks' \cup {Nil}
  BY <1>2, LeftIsExact DEF MembersOf
<1>5. ASSUME NEW n \in DOMAIN networks'
      PROVE  /\ IsNetwork(networks'[n]) /\ networks'[n].members # {}
             /\ networks'[n].members = {p \in DOMAIN members' : members'[p].network = n}
             /\ networks'[n].members \subseteq n
  <2>1. n \in Networks /\ networks'[n].members = MembersOf(n) \ S /\ MembersOf(n) \ S # {}
        /\ IsNetwork(networks'[n])
    <3>1. n \in DOMAIN Left(S)
      BY <1>5
    <3> QED BY <3>1, LeftIsExact
  <2>2. {p \in DOMAIN members' : members'[p].network = n} = MembersOf(n) \ S
    BY <1>1 DEF MembersOf
  <2>3. MembersOf(n) \subseteq n
    BY <2>1, FoundersOnly
  <2> QED BY <2>1, <2>2, <2>3
<1>6. DOMAIN networks' \subseteq Networks
  BY LeftIsExact
<1> QED BY <1>1, <1>2, <1>3, <1>4, <1>5, <1>6 DEF AreTables

LEMMA RefreshKeepsTables ==
  ASSUME AreTables(members, networks, marked), NEW S \in SUBSET Pos, S # {},
         \A p \in S : Seen[p] \in Kind, Refresh(S)
  PROVE  AreTables(members', networks', marked')
<1> DEFINE A     == [p \in S |-> AttachedTo(p, S, Seen)]
           New   == [p \in S |-> [kind |-> Seen[p], network |-> S, attached |-> A[p]]]
           First == [members |-> S, updatable |-> {p \in S : Seen[p] \in Updatable},
                     send |-> {}, receive |-> Listens(S, A, Seen)]
<1>1. /\ DOMAIN members' = Registered \cup S
      /\ \A p \in S : members'[p] = New[p]
      /\ \A p \in Registered \ S : members'[p] = members[p]
  BY DEF Refresh
<1>2. /\ DOMAIN networks' = DOMAIN Left(S) \cup {S} /\ networks'[S] = First
      /\ \A n \in DOMAIN Left(S) \ {S} : networks'[n] = Left(S)[n]
  BY DEF Refresh
<1>3. marked' = marked \cup {BlockOf[p] : p \in S}
  BY DEF Refresh
<1>4. \A p \in Registered : IsMember(p, members[p]) /\ members[p].network \in Networks \cup {Nil}
                            /\ BlockOf[p] \in marked
  BY DEF AreTables, Registered, Networks
<1>5. Registered \subseteq Pos /\ Networks \subseteq NetworkId
  BY DEF AreTables, Registered, Networks
<1>6. ASSUME NEW p \in S
      PROVE  /\ DOMAIN A[p] \subseteq Beside[p] /\ \A d \in DOMAIN A[p] : A[p][d] \in Attached
             /\ IsMember(p, New[p])
  <2>1. DOMAIN A[p] \subseteq Beside[p] /\ \A d \in DOMAIN A[p] : A[p][d] \in Attached
    BY AttachedIsTyped
  <2> QED BY <2>1 DEF IsMember
<1>7. IsNetwork(First)
  <2>1. ASSUME NEW p \in S
        PROVE  EntriesOf(p, A[p], Input[Seen[p]]) \subseteq Entry
    <3>1. Input[Seen[p]] \in SUBSET Nat
      BY DataAssumption
    <3> QED BY <3>1, <1>6, EntriesAreTyped
  <2>2. Listens(S, A, Seen) \subseteq Entry
    BY <2>1 DEF Listens
  <2> QED BY <2>2 DEF IsNetwork
<1>8. ASSUME NEW n \in DOMAIN networks'
      PROVE  /\ IsNetwork(networks'[n]) /\ networks'[n].members # {}
             /\ networks'[n].members = {p \in DOMAIN members' : members'[p].network = n}
             /\ networks'[n].members \subseteq n
  <2>1. CASE n = S
    <3>1. \A p \in Registered \ S : members[p].network # S
      <4> SUFFICES ASSUME NEW p \in Registered \ S, members[p].network = S PROVE FALSE
        OBVIOUS
      <4>1. S \in Networks
        BY <1>4, DataAssumption
      <4> QED BY <4>1, FoundersOnly DEF MembersOf
    <3>2. {p \in DOMAIN members' : members'[p].network = n} = S
      BY <1>1, <2>1, <3>1
    <3>3. First.members = S
      OBVIOUS
    <3> HIDE DEF First
    <3> QED BY <1>2, <1>7, <2>1, <3>2, <3>3
  <2>2. CASE n # S
    <3>1. /\ n \in Networks /\ MembersOf(n) \ S # {}
          /\ IsNetwork(networks'[n]) /\ networks'[n].members = MembersOf(n) \ S
      BY <1>2, <2>2, LeftIsExact
    <3>2. {p \in DOMAIN members' : members'[p].network = n} = MembersOf(n) \ S
      BY <1>1, <2>2 DEF MembersOf
    <3>3. MembersOf(n) \subseteq n
      BY <3>1, FoundersOnly
    <3> QED BY <3>1, <3>2, <3>3
  <2> QED BY <2>1, <2>2
<1>9. ASSUME NEW p \in DOMAIN members'
      PROVE  /\ IsMember(p, members'[p]) /\ members'[p].network \in DOMAIN networks' \cup {Nil}
             /\ BlockOf[p] \in marked'
  <2>1. CASE p \in S
    BY <1>1, <1>2, <1>3, <1>6, <2>1
  <2>2. CASE p \in Registered \ S
    <3>1. members[p].network \in DOMAIN Left(S) \cup {Nil}
      BY <1>4, <2>2, LeftIsExact DEF MembersOf
    <3> QED BY <1>1, <1>2, <1>3, <1>4, <2>2, <3>1
  <2> QED BY <1>1, <2>1, <2>2
<1>10. DOMAIN members' \subseteq Pos /\ DOMAIN networks' \subseteq NetworkId
  <2>1. DOMAIN Left(S) \subseteq Networks
    BY LeftIsExact
  <2> QED BY <1>1, <1>2, <1>5, <2>1 DEF NetworkId
<1> QED BY <1>8, <1>9, <1>10 DEF AreTables

\* What devices send is put into the tables of networks that stay otherwise.
LEMMA SentIsTyped ==
  ASSUME AreTables(members, networks, marked), NEW n, NEW S
  PROVE  Sent(n, S) \subseteq Entry
<1>1. ASSUME NEW p \in Registered
      PROVE  EntriesOf(p, members[p].attached, Output[members[p].kind]) \subseteq Entry
  <2>1. p \in Pos /\ IsMember(p, members[p])
    BY <1>1 DEF AreTables, Registered
  <2>2. Output[members[p].kind] \in SUBSET Nat
    BY <2>1, DataAssumption DEF IsMember
  <2> QED BY <2>1, <2>2, EntriesAreTyped DEF IsMember
<1> QED BY <1>1 DEF Sent

\* Networks whose ready tables grow, and whose lists of updatable ids shrink.
LEMMA FillingKeepsTables ==
  ASSUME AreTables(members, networks, marked), NEW N, DOMAIN N = Networks,
         \A n \in Networks : IsNetwork(N[n]) /\ N[n].members = networks[n].members
  PROVE  AreTables(members, N, marked)
BY DEF AreTables, Networks

LEMMA SendingKeepsNetworks ==
  ASSUME AreTables(members, networks, marked), NEW n, NEW kept, NEW S,
         n \in Networks => kept \subseteq Entry
  PROVE  /\ DOMAIN Sending(n, kept, S) = Networks
         /\ \A m \in Networks :
              IsNetwork(Sending(n, kept, S)[m]) /\ Sending(n, kept, S)[m].members = networks[m].members
<1>1. ASSUME NEW m \in Networks
      PROVE  IsNetwork(Sending(n, kept, S)[m]) /\ Sending(n, kept, S)[m].members = networks[m].members
  <2> DEFINE send == (IF m = n THEN kept ELSE networks[m].send) \cup Sent(m, S)
  <2>1. IsNetwork(networks[m])
    BY DEF AreTables, Networks
  <2>2. send \subseteq Entry
    BY <2>1, SentIsTyped DEF IsNetwork
  <2>3. Sending(n, kept, S)[m] = [networks[m] EXCEPT !.send = send]
    BY DEF Sending
  <2>4. Sending(n, kept, S)[m] =
          [members |-> networks[m].members, updatable |-> networks[m].updatable,
           send |-> send, receive |-> networks[m].receive]
    <3> HIDE DEF send
    <3> QED BY <2>1, <2>3 DEF IsNetwork
  <2> HIDE DEF send
  <2> QED BY <2>1, <2>2, <2>4 DEF IsNetwork
<1> QED BY <1>1 DEF Sending

(***************************************************************************)
(* Every step keeps the invariant.                                         *)
(***************************************************************************)
LEMMA InitIsGood == Init => IInv
BY DEF Init, IInv, AreTables, Empty

\* Everything but the tables.
Rest == /\ world \in [Pos -> Kind \cup {Air}]
        /\ queued \subseteq Pos /\ batch \subseteq Pos
        /\ phase = "queue" => \A p \in batch : IsDevice(p)

LEMMA QueueStaysOnTheMap ==
  ASSUME queued \subseteq Pos, NEW S \in SUBSET Pos
  PROVE  QueueRefresh(S) \subseteq Pos
BY DataAssumption DEF QueueRefresh

LEMMA PlaceNodeKeeps ==
  ASSUME IInv, NEW p \in Pos, NEW k \in Kind, PlaceNode(p, k)
  PROVE  IInv'
<1>1. Rest'
  <2>1. queued' \subseteq Pos
    BY QueueStaysOnTheMap DEF IInv, PlaceNode, tables
  <2> QED BY <2>1 DEF IInv, PlaceNode, IsActive, Rest
<1>2. AreTables(members', networks', marked')
  <2>1. CASE p \in Registered
    BY <2>1 DEF PlaceNode, tables, IInv
  <2>2. CASE p \notin Registered
    <3> DEFINE new == [kind |-> k, network |-> Nil, attached |-> Empty]
    <3>1. /\ DOMAIN members' = Registered \cup {p} /\ members'[p] = new
          /\ \A q \in Registered : members'[q] = members[q]
          /\ networks' = networks /\ marked' = marked \cup {BlockOf[p]}
      BY <2>2 DEF PlaceNode
    <3>2. IsMember(p, new)
      BY DEF IsMember, Empty
    <3>3. ASSUME NEW n \in Networks
          PROVE  {q \in DOMAIN members' : members'[q].network = n} = {q \in Registered : members[q].network = n}
      <4>1. new.network # n
        BY DataAssumption DEF IInv, AreTables, Networks, NetworkId
      <4> QED BY <3>1, <4>1
    <3> HIDE DEF new
    <3>4. new.network = Nil
      BY DEF new
    <3> QED BY <3>1, <3>2, <3>3, <3>4 DEF IInv, AreTables, Registered, Networks
  <2> QED BY <2>1, <2>2
<1> QED BY <1>1, <1>2 DEF IInv, Rest

LEMMA DigNodeKeeps ==
  ASSUME IInv, NEW p \in Pos, DigNode(p)
  PROVE  IInv'
<1>1. Rest'
  <2>1. queued' \subseteq Pos
    BY QueueStaysOnTheMap DEF IInv, DigNode, RemoveNodes
  <2> QED BY <2>1 DEF IInv, DigNode, IsActive, Rest
<1>2. AreTables(members', networks', marked')
  BY RemovingKeepsTables DEF IInv, DigNode, RemoveNodes, AreTables, Registered
<1> QED BY <1>1, <1>2 DEF IInv, Rest

LEMMA ExpireBlockKeeps ==
  ASSUME IInv, NEW b \in Block, ExpireBlock(b)
  PROVE  IInv'
<1> DEFINE S == {p \in Registered : BlockOf[p] = b}
<1>1. S \subseteq Pos
  BY DEF IInv, AreTables, Registered
<1>2. Rest'
  <2>1. queued' \subseteq Pos
    BY <1>1, QueueStaysOnTheMap DEF IInv, ExpireBlock, RemoveNodes
  <2> QED BY <2>1 DEF IInv, ExpireBlock, Rest, mapvars
<1>3. \A p \in Registered \ S : BlockOf[p] \in marked'
  BY DEF IInv, AreTables, Registered, ExpireBlock
<1>4. AreTables(members', networks', marked')
  BY <1>3, RemovingKeepsTables DEF IInv, ExpireBlock, RemoveNodes
<1> QED BY <1>2, <1>4 DEF IInv, Rest

LEMMA ActivateBlockKeeps ==
  ASSUME IInv, NEW b \in Block, ActivateBlock(b)
  PROVE  IInv'
<1> DEFINE nodes == {p \in Pos : BlockOf[p] = b /\ IsDevice(p)}
           known == nodes \cap Registered
           Marks(n) == UNION {EntriesOf(p, members[p].attached, Input[world[p]]) :
                                p \in {q \in known : members[q].network = n}}
           new(p) == [kind |-> world[p], network |-> Nil, attached |-> Empty]
<1>1. \A p \in nodes : world[p] \in Kind
  <2>1. \A p \in nodes : NodeAt(p) \in Kind /\ NodeAt(p) \in {world[p], Nil}
    BY DEF IsDevice, NodeAt
  <2> QED BY <2>1, DataAssumption
<1>2. Rest'
  <2>1. PICK changed \in {{}, {p \in known : world[p] \notin Updatable}} :
          queued' = QueueRefresh((nodes \ known) \cup changed
                      \cup {p \in known : IsWire(world[p]) /\ members[p].network = Nil})
    BY DEF ActivateBlock
  <2>2. queued' \subseteq Pos
    BY <2>1, QueueStaysOnTheMap DEF IInv
  <2> QED BY <2>2 DEF IInv, ActivateBlock, Rest
<1>3. \A p \in Registered : /\ p \in Pos /\ IsMember(p, members[p]) /\ BlockOf[p] \in marked
                            /\ members[p].network \in Networks \cup {Nil}
  BY DEF IInv, AreTables, Registered, Networks
<1>4. /\ DOMAIN members' = Registered \cup nodes
      /\ \A p \in known : members'[p] = [members[p] EXCEPT !.kind = world[p]]
      /\ \A p \in nodes \ known : members'[p] = new(p)
      /\ \A p \in Registered \ nodes : members'[p] = members[p]
  BY DEF ActivateBlock
<1>5. /\ DOMAIN networks' = Networks
      /\ \A n \in Networks : networks'[n] = [networks[n] EXCEPT !.receive = @ \cup Marks(n)]
      /\ marked' = marked \cup {BlockOf[p] : p \in nodes}
  BY DEF ActivateBlock
<1>6. ASSUME NEW p \in Registered \cup nodes
      PROVE  /\ IsMember(p, members'[p]) /\ BlockOf[p] \in marked'
             /\ members'[p].network \in Networks \cup {Nil}
             /\ p \in Registered => members'[p].network = members[p].network
             /\ p \notin Registered => members'[p].network = Nil
  <2>1. CASE p \in known
    <3>1. members'[p] = [kind |-> world[p], network |-> members[p].network, attached |-> members[p].attached]
      BY <1>3, <1>4, <2>1 DEF IsMember
    <3>2. IsMember(p, members'[p])
      <4>1. world[p] \in Kind /\ IsMember(p, members[p])
        BY <1>1, <1>3, <2>1
      <4> HIDE DEF nodes, known, new, Marks
      <4>2. members'[p].kind = world[p] /\ members'[p].attached = members[p].attached
            /\ members'[p].network = members[p].network
        BY <3>1
      <4> QED BY <3>1, <4>1, <4>2 DEF IsMember
    <3>3. BlockOf[p] \in marked' /\ members'[p].network = members[p].network
      BY <1>3, <1>5, <2>1, <3>1
    <3> QED BY <1>3, <2>1, <3>2, <3>3
  <2>2. CASE p \in nodes \ known
    <3>1. members'[p] = new(p)
      BY <1>4, <2>2
    <3>2. IsMember(p, new(p))
      BY <1>1, <2>2 DEF IsMember, Empty
    <3> QED BY <1>5, <2>2, <3>1, <3>2
  <2>3. CASE p \in Registered \ nodes
    BY <1>3, <1>4, <1>5, <2>3
  <2> QED BY <2>1, <2>2, <2>3
<1>7. ASSUME NEW n \in Networks
      PROVE  IsNetwork(networks'[n]) /\ networks'[n].members = networks[n].members
  <2>1. ASSUME NEW p \in known
        PROVE  EntriesOf(p, members[p].attached, Input[world[p]]) \subseteq Entry
    <3>1. Input[world[p]] \in SUBSET Nat
      BY <1>1, <2>1, DataAssumption
    <3> QED BY <1>3, <2>1, <3>1, EntriesAreTyped DEF IsMember
  <2>2. Marks(n) \subseteq Entry
    BY <2>1
  <2>3. IsNetwork(networks[n])
    BY DEF IInv, AreTables, Networks
  <2> HIDE DEF Marks
  <2>4. networks'[n] = [members |-> networks[n].members, updatable |-> networks[n].updatable,
                        send |-> networks[n].send, receive |-> networks[n].receive \cup Marks(n)]
    BY <1>5, <2>3 DEF IsNetwork
  <2> QED BY <2>2, <2>3, <2>4 DEF IsNetwork
<1>8. ASSUME NEW n \in Networks
      PROVE  {p \in DOMAIN members' : members'[p].network = n} = {p \in Registered : members[p].network = n}
  <2>1. n # Nil
    BY DataAssumption DEF IInv, AreTables, Networks, NetworkId
  <2> QED BY <1>4, <1>6, <2>1
<1>9. AreTables(members', networks', marked')
  <2> HIDE DEF nodes
  <2>1. nodes \subseteq Pos
    BY DEF nodes
  <2> QED BY <1>3, <1>4, <1>5, <1>6, <1>7, <1>8, <2>1 DEF IInv, AreTables, Registered, Networks
<1> QED BY <1>2, <1>9 DEF IInv, Rest

LEMMA ResolvePositionKeeps ==
  ASSUME IInv, NEW p \in batch, ResolvePosition(p)
  PROVE  IInv'
<1>1. p \in Pos /\ IsDevice(p)
  BY DEF IInv, ResolvePosition
<1>2. AreTables(members', networks', marked')
  <2>1. /\ Found(p, Seen) \in SUBSET Pos /\ Found(p, Seen) # {}
        /\ \A q \in Found(p, Seen) : Seen[q] \in Kind
    BY <1>1, FoundAreDevices
  <2> QED BY <2>1, RefreshKeepsTables DEF IInv, ResolvePosition
<1> QED BY <1>2 DEF IInv, ResolvePosition, mapvars, IsDevice, NodeAt

LEMMA DispatchRoundKeeps ==
  ASSUME IInv, DispatchRound
  PROVE  IInv'
<1>1. members' = members /\ marked' = marked
  BY DEF DispatchRound
<1>2. AreTables(members, networks', marked)
  <2>1. CASE networks' = networks
    BY <2>1 DEF IInv
  <2>2. ASSUME NEW S, networks' = Sending(current, {}, S)
        PROVE  AreTables(members, networks', marked)
    BY <2>2, SendingKeepsNetworks, FillingKeepsTables DEF IInv
  <2> QED BY <2>1, <2>2 DEF DispatchRound
<1> QED BY <1>1, <1>2 DEF IInv, DispatchRound, mapvars

LEMMA UpdateDevicesKeeps ==
  ASSUME IInv, NEW senders, UpdateDevices(senders)
  PROVE  IInv'
<1>1. members' = members /\ marked' = marked
  BY DEF UpdateDevices
<1>2. AreTables(members, networks', marked)
  <2>1. CASE networks' = networks
    BY <2>1 DEF IInv
  <2>2. CASE networks' = [Sending(current, networks[current].send, senders)
                            EXCEPT ![current].updatable = @ \cap Registered]
    <3> DEFINE N == Sending(current, networks[current].send, senders)
    <3>1. CASE current \in Networks
      <4>1. networks[current].send \subseteq Entry
        BY <3>1 DEF IInv, AreTables, IsNetwork, Networks
      <4>2. /\ DOMAIN N = Networks
            /\ \A n \in Networks : IsNetwork(N[n]) /\ N[n].members = networks[n].members
        BY <4>1, SendingKeepsNetworks DEF IInv
      <4> HIDE DEF N
      <4>3. /\ DOMAIN networks' = Networks
            /\ \A n \in Networks \ {current} : networks'[n] = N[n]
            /\ networks'[current] = [N[current] EXCEPT !.updatable = @ \cap Registered]
        BY <2>2, <3>1, <4>2 DEF N
      <4>4. IsNetwork(networks'[current]) /\ networks'[current].members = networks[current].members
        <5>1. networks'[current] = [members |-> N[current].members, updatable |-> N[current].updatable \cap Registered,
                                    send |-> N[current].send, receive |-> N[current].receive]
          BY <3>1, <4>2, <4>3 DEF IsNetwork
        <5> QED BY <3>1, <4>2, <5>1 DEF IsNetwork
      <4> QED BY <4>2, <4>3, <4>4, FillingKeepsTables DEF IInv
    <3>2. CASE current \notin Networks
      <4>1. networks' = N
        BY <2>2, <3>2 DEF Sending
      <4>2. /\ DOMAIN N = Networks
            /\ \A n \in Networks : IsNetwork(N[n]) /\ N[n].members = networks[n].members
        BY <3>2, SendingKeepsNetworks DEF IInv
      <4> HIDE DEF N
      <4> QED BY <4>1, <4>2, FillingKeepsTables DEF IInv
    <3> QED BY <3>1, <3>2
  <2> QED BY <2>1, <2>2 DEF UpdateDevices
<1> QED BY <1>1, <1>2 DEF IInv, UpdateDevices, mapvars

LEMMA OthersKeep ==
  ASSUME IInv,
         \/ \E b \in Block : UnloadBlock(b) \/ LoadBlock(b)
         \/ BeginUpdate \/ BeginNetworks \/ (\E n \in due : BeginDispatch(n)) \/ EndUpdate
         \/ UNCHANGED vars
  PROVE  IInv'
<1>1. ASSUME NEW b \in Block, UnloadBlock(b) \/ LoadBlock(b) PROVE IInv'
  BY <1>1 DEF UnloadBlock, LoadBlock, IInv, tables
<1>2. CASE BeginUpdate
  BY <1>2 DEF BeginUpdate, IInv, mapvars, IsDevice, NodeAt
<1>3. CASE BeginNetworks \/ (\E n \in due : BeginDispatch(n)) \/ EndUpdate
  BY <1>3 DEF BeginNetworks, BeginDispatch, EndUpdate, IInv, mapvars, tables
<1>4. CASE UNCHANGED vars
  BY <1>4 DEF vars, mapvars, tables, IInv, IsDevice, NodeAt
<1> QED BY <1>1, <1>2, <1>3, <1>4

LEMMA NextKeeps == IInv /\ [Next]_vars => IInv'
<1> SUFFICES ASSUME IInv, [Next]_vars PROVE IInv'
  OBVIOUS
<1>1. ASSUME NEW p \in Pos, NEW k \in Kind, PlaceNode(p, k) PROVE IInv'
  BY <1>1, PlaceNodeKeeps
<1>2. ASSUME NEW p \in Pos, DigNode(p) PROVE IInv'
  BY <1>2, DigNodeKeeps
<1>3. ASSUME NEW b \in Block, ActivateBlock(b) PROVE IInv'
  BY <1>3, ActivateBlockKeeps
<1>4. ASSUME NEW b \in Block, ExpireBlock(b) PROVE IInv'
  BY <1>4, ExpireBlockKeeps
<1>5. ASSUME NEW p \in batch, ResolvePosition(p) PROVE IInv'
  BY <1>5, ResolvePositionKeeps
<1>6. CASE DispatchRound
  BY <1>6, DispatchRoundKeeps
<1>7. ASSUME NEW S \in SUBSET Timers, UpdateDevices(S) PROVE IInv'
  BY <1>7, UpdateDevicesKeeps
<1> QED BY <1>1, <1>2, <1>3, <1>4, <1>5, <1>6, <1>7, OthersKeep DEF Next, Update

\* Whatever is built, dug, loaded, dropped, refreshed and sent, the members
\* and the networks of a DATA network agree, no network is empty, and the map
\* block of every member carries a mark, so that its unloading is noticed.
THEOREM DataTablesAlwaysAgree == Spec => []AreTables(members, networks, marked)
<1>1. Init => IInv
  BY InitIsGood
<1>2. IInv /\ [Next]_vars => IInv'
  BY NextKeeps
<1>3. IInv => AreTables(members, networks, marked)
  BY DEF IInv
<1> QED BY <1>1, <1>2, <1>3, PTL DEF Spec

(***************************************************************************)
(* What a walk over the nodes of S comes to.                               *)
(***************************************************************************)
Joins(p, q, node) == q \in Beside[p] /\ Connects(node[p], node[q])

\* C goes as far as it can inside S.
IsClosed(C, S, node) == \A p \in C, q \in S : Joins(p, q, node) => q \in C

LEMMA JoinsBothWays ==
  ASSUME NEW p \in Pos, NEW q \in Pos, NEW node, Joins(p, q, node)
  PROVE  Joins(q, p, node)
BY MapAssumption DEF Joins, Connects, CompatibleColors

LEMMA ReachedIsWalk ==
  ASSUME NEW S, IsFiniteSet(S), NEW node, NEW p \in S
  PROVE  LET next == [q \in S |-> {r \in S : Joins(q, r, node)}]
         IN \E V \in [Nat -> SUBSET S] : WalkFrom(p, next, V) /\ Reached(p, S, node) = V[Cardinality(S)]
<1> DEFINE next == [q \in S |-> {r \in S : Joins(q, r, node)}]
           Further(seen) == seen \cup {q \in S : \E o \in seen : q \in Beside[o] /\ Connects(node[o], node[q])}
           Visited[i \in Nat] ==
             IF i = 0 THEN {p}
             ELSE LET seen == Visited[i - 1]
                  IN seen \cup {q \in S : \E o \in seen : q \in Beside[o] /\ Connects(node[o], node[q])}
           Body(f) == [i \in Nat |-> IF i = 0 THEN {p} ELSE Further(f[i - 1])]
           step == [x \in Nat \X SUBSET S |-> Further(x[2])]
           Sets == SUBSET S
<1>1. Reached(p, S, node) = {p} \cup (S \cap Visited[Cardinality(S)])
  BY DEF Reached
<1>2. Visited = CHOOSE f : f = Body(f)
  BY DEF Visited
<1> HIDE DEF Visited
<1>3. /\ {p} \in Sets /\ step \in [Nat \X Sets -> Sets]
      /\ \A n \in Nat, v \in Sets : step[<<n, v>>] = Further(v)
  OBVIOUS
<1>4. ASSUME NEW v \in Sets
      PROVE  Further(v) = v \cup UNION {next[q] : q \in v} /\ Further(v) \in Sets
  <2>1. \A o \in v : next[o] = {q \in S : q \in Beside[o] /\ Connects(node[o], node[q])}
    BY DEF Joins
  <2> HIDE DEF next
  <2>2. UNION {next[o] : o \in v} = {q \in S : \E o \in v : q \in Beside[o] /\ Connects(node[o], node[q])}
    BY <2>1
  <2> QED BY <2>2
<1> HIDE DEF Sets, Further, next, step, Body
<1>5. PICK g \in [Nat -> Sets] : Iterates(g, {p}, step)
  <2>1. step \in Steps(Sets)
    BY <1>3 DEF Steps
  <2> QED BY <1>3, <2>1, IterationExists
<1>6. ASSUME NEW n \in Nat PROVE g[n] \in Sets /\ g[n + 1] = Further(g[n])
  BY <1>3, <1>5 DEF Iterates
<1>7. g = Body(g)
  <2>1. ASSUME NEW n \in Nat, n # 0 PROVE g[n] = Further(g[n - 1])
    <3>1. n - 1 \in Nat /\ (n - 1) + 1 = n
      BY <2>1
    <3> QED BY <3>1, <1>6
  <2> QED BY <1>5, <2>1 DEF Body, Iterates
<1>8. Visited = Body(Visited)
  BY <1>2, <1>7
<1>9. Visited[0] = {p}
  BY <1>8 DEF Body
<1>10. ASSUME NEW n \in Nat PROVE Visited[n + 1] = Further(Visited[n])
  <2>1. n + 1 \in Nat /\ n + 1 # 0 /\ (n + 1) - 1 = n
    OBVIOUS
  <2> QED BY <1>8, <2>1 DEF Body
<1>11. ASSUME NEW n \in Nat PROVE Visited[n] \in Sets
  <2> DEFINE G == {m \in Nat : Visited[m] \in Sets}
  <2>1. 0 \in G
    BY <1>3, <1>9
  <2>2. ASSUME NEW m \in Nat, m \in G PROVE m + 1 \in G
    BY <1>4, <1>10, <2>2
  <2>3. Nat \subseteq G
    <3> HIDE DEF G
    <3> QED BY <2>1, <2>2, NatSetInduction
  <2> QED BY <2>3
<1>12. Visited \in [Nat -> SUBSET S]
  BY <1>8, <1>11 DEF Body, Sets
<1>13. WalkFrom(p, next, Visited)
  BY <1>4, <1>9, <1>10, <1>11 DEF WalkFrom
<1> QED
  <2>1. \A n \in Nat : p \in Visited[n]
    <3> DEFINE G == {n \in Nat : p \in Visited[n]}
    <3>1. 0 \in G
      BY <1>9
    <3>2. ASSUME NEW n \in Nat, n \in G PROVE n + 1 \in G
      BY <1>4, <1>10, <1>11, <3>2
    <3>3. Nat \subseteq G
      <4> HIDE DEF G
      <4> QED BY <3>1, <3>2, NatSetInduction
    <3> QED BY <3>3
  <2>2. Cardinality(S) \in Nat
    BY FS_CardinalityType
  <2>3. Reached(p, S, node) = Visited[Cardinality(S)]
    BY <1>1, <1>12, <2>1, <2>2
  <2> QED BY <1>12, <1>13, <2>3 DEF next

\* It comes to p, to all it is joined with, and to nothing else.
LEMMA ReachedIsClosure ==
  ASSUME NEW S \in SUBSET Pos, NEW node, NEW p \in S
  PROVE  /\ p \in Reached(p, S, node) /\ Reached(p, S, node) \subseteq S
         /\ IsClosed(Reached(p, S, node), S, node)
         /\ \A C : p \in C /\ IsClosed(C \cap S, S, node) => Reached(p, S, node) \subseteq C
<1> DEFINE next == [q \in S |-> {r \in S : Joins(q, r, node)}]
<1>1. IsFiniteSet(S)
  BY MapAssumption, FS_Subset
<1>2. next \in [S -> SUBSET S]
  OBVIOUS
<1>3. PICK V \in [Nat -> SUBSET S] : WalkFrom(p, next, V) /\ Reached(p, S, node) = V[Cardinality(S)]
  BY <1>1, ReachedIsWalk
<1>4. \A q \in S : next[q] = {r \in S : Joins(q, r, node)}
  OBVIOUS
<1> HIDE DEF next
<1>5. /\ p \in Reached(p, S, node) /\ Reached(p, S, node) \subseteq S
      /\ \A q \in Reached(p, S, node) : next[q] \subseteq Reached(p, S, node)
      /\ \A C : p \in C /\ (\A q \in C \cap S : next[q] \subseteq C) => Reached(p, S, node) \subseteq C
  BY <1>1, <1>2, <1>3, WalkIsClosure
<1>6. IsClosed(Reached(p, S, node), S, node)
  BY <1>4, <1>5 DEF IsClosed
<1>7. ASSUME NEW C, p \in C, IsClosed(C \cap S, S, node)
      PROVE  Reached(p, S, node) \subseteq C
  <2>1. \A q \in C \cap S : next[q] \subseteq C
    BY <1>4, <1>7 DEF IsClosed
  <2> QED BY <1>5, <1>7, <2>1
<1> QED BY <1>5, <1>6, <1>7

\* A walk over more nodes comes further, and it depends on these nodes only.
LEMMA ReachedGrows ==
  ASSUME NEW S \in SUBSET Pos, NEW T \in SUBSET Pos, S \subseteq T,
         NEW node, NEW other, \A q \in S : node[q] = other[q], NEW p \in S
  PROVE  Reached(p, S, node) \subseteq Reached(p, T, other)
<1> DEFINE C == Reached(p, T, other)
<1>1. p \in C /\ IsClosed(C, T, other)
  BY ReachedIsClosure
<1>2. IsClosed(C \cap S, S, node)
  BY <1>1 DEF IsClosed, Joins
<1> HIDE DEF C
<1>3. Reached(p, S, node) \subseteq C
  BY <1>1, <1>2, ReachedIsClosure
<1> QED BY <1>3 DEF C

LEMMA AttachedDependsOnNodes ==
  ASSUME NEW S \in SUBSET Pos, NEW node, NEW other, \A q \in S : node[q] = other[q] /\ node[q] \in Kind,
         NEW p \in S
  PROVE  AttachedTo(p, S, node) = AttachedTo(p, S, other)
<1> DEFINE D == {q \in S \cap Beside[p] : TypeOf[node[p]] = "device" /\ TypeOf[node[q]] = "bus"}
           W == {q \in S : IsWire(node[q])}
<1>1. D = {q \in S \cap Beside[p] : TypeOf[other[p]] = "device" /\ TypeOf[other[q]] = "bus"}
  OBVIOUS
<1>2. W = {q \in S : IsWire(other[q])} /\ W \in SUBSET Pos
  OBVIOUS
<1>3. ASSUME NEW d \in D PROVE Wires(d, S, node) = Wires(d, S, other) /\ ColorOf[node[d]] = ColorOf[other[d]]
  <2>1. d \in W
    BY DEF IsWire
  <2>2. \A q \in W : node[q] = other[q] /\ other[q] = node[q]
    OBVIOUS
  <2>3. Wires(d, S, node) = Reached(d, W, node) /\ Wires(d, S, other) = Reached(d, W, other)
    BY <1>2 DEF Wires
  <2> HIDE DEF W, D
  <2>4. W \in SUBSET Pos /\ W \subseteq W
    BY <1>2
  <2>5. Reached(d, W, node) \subseteq Reached(d, W, other)
    BY <2>1, <2>2, <2>4, ReachedGrows
  <2>6. Reached(d, W, other) \subseteq Reached(d, W, node)
    BY <2>1, <2>2, <2>4, ReachedGrows
  <2>7. Reached(d, W, node) = Reached(d, W, other)
    BY <2>5, <2>6
  <2>8. d \in S
    BY DEF D
  <2> QED BY <2>3, <2>7, <2>8
<1> QED BY <1>1, <1>3 DEF AttachedTo

(***************************************************************************)
(* The inductive invariant.  Of a network that nothing waits to refresh    *)
(* and that no refresh passed by a member of, all that was found is there, *)
(* as it was found; of another one, what is cut off from the nodes that    *)
(* wait has to be all of it.                                               *)
(***************************************************************************)
Waiting == missed \cup queued \cup batch

NamesAreKnown == \A p \in Registered : members[p].kind = world[p]

ActiveAreKnown ==
  /\ activated \subseteq loaded
  /\ \A p \in Pos : world[p] \in Kind /\ BlockOf[p] \in activated => p \in Registered

PhasesInOrder ==
  /\ phase \in {"idle", "queue", "networks", "crashed"}
  /\ phase # "queue" => batch = {}
  /\ phase # "idle" => queued = {}
  /\ phase \in {"idle", "queue"} => current = Nil
  /\ phase = "networks" => due \subseteq Networks /\ current \in Networks \cup {Nil}
  /\ phase = "crashed" => missed # {}

JoinedShare ==
  \A p, q \in Registered \ Waiting : Joins(p, q, world) => members[p].network = members[q].network

RestIsWhole ==
  \A n \in Networks : \A C \in SUBSET MembersOf(n) :
     C # {} /\ IsClosed(C, MembersOf(n), world) /\ C \cap Waiting = {} => C = n

\* The entries of the nodes n for the ports they are set to.
EntriesOfAll(n, Ports) == UNION {EntriesOf(p, AttachedTo(p, n, world), Ports[world[p]]) : p \in n}

AsFounded ==
  \A n \in Networks : MembersOf(n) = n =>
     /\ \A p \in n : members[p].attached = AttachedTo(p, n, world)
     /\ networks[n].updatable = {p \in n : world[p] \in Updatable}
     /\ networks[n].receive = EntriesOfAll(n, Input)
     /\ networks[n].send \subseteq EntriesOfAll(n, Output)

Whereabouts == JoinedShare /\ RestIsWhole /\ AsFounded

WholeInv == IInv /\ NamesAreKnown /\ ActiveAreKnown /\ PhasesInOrder /\ Whereabouts

LEMMA TablesAreTyped ==
  ASSUME WholeInv
  PROVE  /\ Registered \subseteq Pos /\ \A p \in Registered : world[p] \in Kind /\ IsMember(p, members[p])
         /\ \A n \in Networks : n \in SUBSET Pos /\ n # Nil /\ MembersOf(n) \subseteq n /\ MembersOf(n) # {}
         /\ \A n \in Networks : networks[n].members = MembersOf(n)
BY DataAssumption DEF WholeInv, IInv, AreTables, NamesAreKnown, IsMember, Registered, Networks, NetworkId, MembersOf

\* New nodes wait, and nothing that waited is forgotten.
LEMMA GrowingStep ==
  ASSUME WholeInv, NEW S \in SUBSET Pos,
         DOMAIN members' = Registered \cup S, S \cap Registered = {},
         \A p \in Registered : /\ members'[p].network = members[p].network
                               /\ members'[p].attached = members[p].attached
                               /\ world'[p] = world[p],
         \A p \in S : members'[p].network = Nil,
         S \subseteq Waiting', Waiting \cap Registered \subseteq Waiting',
         DOMAIN networks' = Networks,
         \A n \in Networks : MembersOf(n) = n =>
            /\ networks'[n].updatable = networks[n].updatable
            /\ networks'[n].receive = networks[n].receive
            /\ networks'[n].send \subseteq EntriesOfAll(n, Output)
  PROVE  Whereabouts'
<1>1. /\ \A n \in Networks : n \in SUBSET Pos /\ n # Nil /\ MembersOf(n) \subseteq Registered
      /\ \A p \in Registered : world[p] \in Kind
  BY TablesAreTyped DEF MembersOf
<1>2. Networks' = Networks /\ Registered' = Registered \cup S
  BY DEF Networks, Registered
<1>3. ASSUME NEW n \in Networks PROVE MembersOf(n)' = MembersOf(n)
  BY <1>1, <1>2 DEF MembersOf
<1>4. \A p, q \in Registered : Joins(p, q, world') <=> Joins(p, q, world)
  BY DEF Joins
<1>5. JoinedShare'
  <2> SUFFICES ASSUME NEW p \in Registered' \ Waiting', NEW q \in Registered' \ Waiting', Joins(p, q, world')
               PROVE  members'[p].network = members'[q].network
    BY DEF JoinedShare
  <2>1. p \in Registered \ Waiting /\ q \in Registered \ Waiting
    BY <1>2
  <2>2. members[p].network = members[q].network
    BY <1>4, <2>1 DEF WholeInv, Whereabouts, JoinedShare
  <2> QED BY <2>1, <2>2
<1>6. RestIsWhole'
  <2> SUFFICES ASSUME NEW n \in Networks, NEW C \in SUBSET MembersOf(n), C # {},
                      IsClosed(C, MembersOf(n), world'), C \cap Waiting' = {}
               PROVE  C = n
    BY <1>2, <1>3 DEF RestIsWhole
  <2>1. C \subseteq Registered /\ MembersOf(n) \subseteq Registered
    BY <1>1
  <2>2. IsClosed(C, MembersOf(n), world)
    BY <1>4, <2>1 DEF IsClosed
  <2>3. C \cap Waiting = {}
    BY <2>1
  <2> QED BY <2>2, <2>3 DEF WholeInv, Whereabouts, RestIsWhole
<1>7. AsFounded'
  <2> SUFFICES ASSUME NEW n \in Networks, MembersOf(n) = n
               PROVE  /\ \A p \in n : members'[p].attached = AttachedTo(p, n, world')
                      /\ networks'[n].updatable = {p \in n : world'[p] \in Updatable}
                      /\ networks'[n].receive = EntriesOfAll(n, Input)'
                      /\ networks'[n].send \subseteq EntriesOfAll(n, Output)'
    BY <1>2, <1>3 DEF AsFounded
  <2>1. n \subseteq Registered /\ n \in SUBSET Pos
    BY <1>1
  <2>2. \A p \in n : world[p] = world'[p] /\ world[p] \in Kind
    BY <1>1, <2>1
  <2>3. \A p \in n : AttachedTo(p, n, world') = AttachedTo(p, n, world)
    BY <2>1, <2>2, AttachedDependsOnNodes
  <2>4. EntriesOfAll(n, Input)' = EntriesOfAll(n, Input) /\ EntriesOfAll(n, Output)' = EntriesOfAll(n, Output)
    BY <2>2, <2>3 DEF EntriesOfAll
  <2>5. /\ \A p \in n : members[p].attached = AttachedTo(p, n, world)
        /\ networks[n].updatable = {p \in n : world[p] \in Updatable}
        /\ networks[n].receive = EntriesOfAll(n, Input)
    BY DEF WholeInv, Whereabouts, AsFounded
  <2> QED BY <2>1, <2>2, <2>3, <2>4, <2>5
<1> QED BY <1>5, <1>6, <1>7 DEF Whereabouts

\* The networks that lost members keep their lists.
LEMMA LeftKeepsLists ==
  ASSUME AreTables(members, networks, marked), NEW S, NEW n \in DOMAIN Left(S)
  PROVE  /\ n \in Networks /\ Left(S)[n].updatable = networks[n].updatable
         /\ Left(S)[n].send = networks[n].send /\ Left(S)[n].receive = networks[n].receive
<1>1. n \in Networks /\ Left(S)[n] = [networks[n] EXCEPT !.members = @ \ S]
  BY DEF Left, Restrict
<1>2. IsNetwork(networks[n])
  BY <1>1 DEF AreTables, Networks
<1>3. networks[n] = [members |-> networks[n].members, updatable |-> networks[n].updatable,
                     send |-> networks[n].send, receive |-> networks[n].receive]
  BY <1>2 DEF IsNetwork
<1> QED BY <1>1, <1>3

\* What an intact network lists stays true as long as the map does not change
\* under it.
LEMMA IntactStays ==
  ASSUME WholeInv, NEW n \in Networks, MembersOf(n) = n, \A p \in n : world'[p] = world[p]
  PROVE  /\ \A p \in n : members[p].attached = AttachedTo(p, n, world')
         /\ networks[n].updatable = {p \in n : world'[p] \in Updatable}
         /\ networks[n].receive = EntriesOfAll(n, Input)'
         /\ networks[n].send \subseteq EntriesOfAll(n, Output)'
<1>1. n \in SUBSET Pos /\ \A p \in n : world[p] \in Kind
  BY TablesAreTyped DEF MembersOf
<1>2. \A p \in n : AttachedTo(p, n, world') = AttachedTo(p, n, world)
  BY <1>1, AttachedDependsOnNodes
<1>3. EntriesOfAll(n, Input)' = EntriesOfAll(n, Input) /\ EntriesOfAll(n, Output)' = EntriesOfAll(n, Output)
  BY <1>2 DEF EntriesOfAll
<1>4. /\ \A p \in n : members[p].attached = AttachedTo(p, n, world)
      /\ networks[n].updatable = {p \in n : world[p] \in Updatable}
      /\ networks[n].receive = EntriesOfAll(n, Input)
      /\ networks[n].send \subseteq EntriesOfAll(n, Output)
  BY DEF WholeInv, Whereabouts, AsFounded
<1> QED BY <1>2, <1>3, <1>4

\* Nodes leave, and what was joined to them waits.
LEMMA LeavingStep ==
  ASSUME WholeInv, NEW S \in SUBSET Pos, RemoveNodes(S), batch' = batch,
         \A p \in Registered \ S : world'[p] = world[p]
  PROVE  Whereabouts'
<1>1. /\ \A n \in Networks : n \in SUBSET Pos /\ MembersOf(n) \subseteq Registered
      /\ Registered \subseteq Pos /\ \A p \in Registered : world[p] \in Kind
  BY TablesAreTyped DEF MembersOf
<1>2. /\ Registered' = Registered \ S /\ \A p \in Registered \ S : members'[p] = members[p]
      /\ networks' = Left(S) /\ queued' = QueueRefresh(S) /\ missed' = missed \ S
  BY DEF RemoveNodes, Registered, Restrict
<1>3. AreTables(members, networks, marked)
  BY DEF WholeInv, IInv
<1>4. Networks' \subseteq Networks
  BY <1>2, <1>3, LeftIsExact DEF Networks
<1>5. ASSUME NEW n \in Networks PROVE MembersOf(n)' = MembersOf(n) \ S
  BY <1>2 DEF MembersOf
<1>6. \A p \in Registered \ S : p \in Waiting => p \in Waiting'
  BY <1>2 DEF Waiting, QueueRefresh
<1>7. \A p, q \in Registered \ S : Joins(p, q, world') <=> Joins(p, q, world)
  BY DEF Joins
<1>8. ASSUME NEW p \in Registered \ S, NEW q \in S, Joins(p, q, world) PROVE p \in Waiting'
  <2>1. p \in Beside[q]
    BY <1>1, <1>8, MapAssumption DEF Joins
  <2> QED BY <1>2, <2>1 DEF Waiting, QueueRefresh
<1>9. JoinedShare'
  <2> SUFFICES ASSUME NEW p \in Registered' \ Waiting', NEW q \in Registered' \ Waiting', Joins(p, q, world')
               PROVE  members'[p].network = members'[q].network
    BY DEF JoinedShare
  <2>1. p \in Registered \ S /\ q \in Registered \ S /\ p \notin Waiting /\ q \notin Waiting
    BY <1>2, <1>6
  <2>2. members[p].network = members[q].network
    BY <1>7, <2>1 DEF WholeInv, Whereabouts, JoinedShare
  <2> QED BY <1>2, <2>1, <2>2
<1>10. RestIsWhole'
  <2> SUFFICES ASSUME NEW n \in Networks, NEW C \in SUBSET (MembersOf(n) \ S), C # {},
                      IsClosed(C, MembersOf(n) \ S, world'), C \cap Waiting' = {}
               PROVE  C = n
    BY <1>4, <1>5 DEF RestIsWhole
  <2>1. C \subseteq Registered \ S /\ MembersOf(n) \subseteq Registered
    BY <1>1
  <2>2. IsClosed(C, MembersOf(n), world)
    <3> SUFFICES ASSUME NEW p \in C, NEW q \in MembersOf(n), Joins(p, q, world) PROVE q \in C
      BY DEF IsClosed
    <3>1. q \notin S
      BY <1>8, <2>1
    <3> QED BY <1>7, <2>1, <3>1 DEF IsClosed
  <2>3. C \cap Waiting = {}
    BY <1>6, <2>1
  <2> QED BY <2>2, <2>3 DEF WholeInv, Whereabouts, RestIsWhole
<1>11. AsFounded'
  <2> SUFFICES ASSUME NEW n \in Networks', MembersOf(n)' = n
               PROVE  /\ \A p \in n : members'[p].attached = AttachedTo(p, n, world')
                      /\ networks'[n].updatable = {p \in n : world'[p] \in Updatable}
                      /\ networks'[n].receive = EntriesOfAll(n, Input)'
                      /\ networks'[n].send \subseteq EntriesOfAll(n, Output)'
    BY DEF AsFounded
  <2>1. n \in Networks /\ n = MembersOf(n) \ S /\ MembersOf(n) \subseteq n
    BY <1>4, <1>5, TablesAreTyped
  <2>2. MembersOf(n) = n /\ n \subseteq Registered \ S
    BY <1>1, <2>1
  <2>3. /\ networks'[n].updatable = networks[n].updatable
        /\ networks'[n].receive = networks[n].receive /\ networks'[n].send = networks[n].send
    BY <1>2, <1>3, LeftKeepsLists DEF Networks
  <2>4. \A p \in n : world'[p] = world[p] /\ members'[p] = members[p]
    BY <1>2, <2>2
  <2> QED BY <2>1, <2>2, <2>3, <2>4, IntactStays
<1> QED BY <1>9, <1>10, <1>11 DEF Whereabouts

\* What a flood finds founds a network; what it could not come to because it
\* is not in memory has been passed by.
LEMMA RefreshStep ==
  ASSUME WholeInv, NEW p \in Pos, IsDevice(p), NEW S, S = Found(p, Seen), Refresh(S),
         batch' = batch \ S, queued = {}, queued' = {}, world' = world
  PROVE  Whereabouts'
<1> DEFINE D == {q \in Pos : Seen[q] \in Kind}
<1>1. /\ \A n \in Networks : n \in SUBSET Pos /\ n # Nil /\ MembersOf(n) \subseteq n /\ MembersOf(n) \subseteq Registered
      /\ Registered \subseteq Pos /\ \A q \in Registered : world[q] \in Kind
  BY TablesAreTyped DEF MembersOf
<1>2. /\ p \in S /\ S \subseteq D /\ IsClosed(S, D, Seen)
      /\ \A C : p \in C /\ IsClosed(C \cap D, D, Seen) => S \subseteq C
  <2>1. p \in D
    BY DEF IsDevice, Seen
  <2>2. S = Reached(p, D, Seen) /\ D \in SUBSET Pos
    BY DEF Found
  <2> HIDE DEF D
  <2> QED BY <2>1, <2>2, ReachedIsClosure
<1>3. \A q \in D : q \in Pos /\ Seen[q] = world[q] /\ world[q] \in Kind
  BY DataAssumption DEF Seen, NodeAt
<1>4. \A q \in Pos : world[q] \in Kind /\ q \notin D => BlockOf[q] \notin loaded
  BY DEF Seen, NodeAt
<1> DEFINE A == [q \in S |-> AttachedTo(q, S, Seen)]
           founded == [members |-> S, updatable |-> {q \in S : Seen[q] \in Updatable},
                       send |-> {}, receive |-> Listens(S, A, Seen)]
<1>5. /\ Registered' = Registered \cup S
      /\ \A q \in S : members'[q] = [kind |-> Seen[q], network |-> S, attached |-> A[q]]
      /\ \A q \in Registered \ S : members'[q] = members[q]
      /\ networks' = [n \in DOMAIN Left(S) \cup {S} |-> IF n = S THEN founded ELSE Left(S)[n]]
      /\ missed \ S \subseteq missed'
      /\ \A q \in Registered \ S : (\E o \in S : q \in Beside[o]) /\ BlockOf[q] \notin loaded => q \in missed'
  BY DEF Refresh, Registered
<1>6. AreTables(members, networks, marked)
  BY DEF WholeInv, IInv
<1>7. AreTables(members', networks', marked')
  <2>1. S \in SUBSET Pos /\ S # {} /\ \A q \in S : Seen[q] \in Kind
    BY <1>2
  <2> QED BY <1>6, <2>1, RefreshKeepsTables
<1> HIDE DEF A
<1>15. ASSUME NEW q \in S PROVE members'[q].network = S /\ members'[q].attached = A[q]
  <2>1. members'[q] = [kind |-> Seen[q], network |-> S, attached |-> A[q]]
    BY <1>5
  <2> QED BY <2>1
<1> HIDE DEF D, founded
\* A node joined to the new network and not in it is not in memory.
<1>8. ASSUME NEW q \in Registered \ S, NEW o \in S, Joins(q, o, world) \/ Joins(o, q, world)
      PROVE  q \in missed'
  <2>1. q \in Pos /\ o \in Pos /\ o \in D
    BY <1>1, <1>2, <1>3
  <2>2. Joins(o, q, world)
    BY <1>8, <2>1, JoinsBothWays
  <2>3. q \notin D
    <3> SUFFICES ASSUME q \in D PROVE FALSE
      OBVIOUS
    <3>1. Joins(o, q, Seen)
      BY <1>3, <2>1, <2>2 DEF Joins
    <3> QED BY <1>2, <1>8, <3>1 DEF IsClosed
  <2> QED BY <1>1, <1>4, <1>5, <2>1, <2>2, <2>3 DEF Joins
<1>9. \A q \in Registered \ S : q \in Waiting => q \in Waiting'
  BY <1>5 DEF Waiting
<1>10. JoinedShare'
  <2> SUFFICES ASSUME NEW q \in Registered' \ Waiting', NEW r \in Registered' \ Waiting', Joins(q, r, world)
               PROVE  members'[q].network = members'[r].network
    BY DEF JoinedShare
  <2>1. CASE q \in S /\ r \in S
    BY <1>15, <2>1
  <2>2. CASE q \in Registered \ S /\ r \in Registered \ S
    <3>1. q \notin Waiting /\ r \notin Waiting
      BY <1>9, <2>2
    <3> QED BY <1>5, <2>2, <3>1 DEF WholeInv, Whereabouts, JoinedShare
  <2>3. CASE q \in S /\ r \in Registered \ S
    BY <1>8, <2>3 DEF Waiting
  <2>4. CASE q \in Registered \ S /\ r \in S
    BY <1>8, <2>4 DEF Waiting
  <2> QED BY <1>5, <2>1, <2>2, <2>3, <2>4
<1>11. /\ S \in Networks' /\ MembersOf(S)' = S /\ networks'[S] = founded
       /\ \A n \in Networks' \ {S} : n \in Networks /\ n \in DOMAIN Left(S) /\ networks'[n] = Left(S)[n]
  <2>1. DOMAIN Left(S) \subseteq Networks
    BY <1>6, LeftIsExact
  <2>2. S \in Networks' /\ networks'[S] = founded
    BY <1>5 DEF Networks
  <2>3. networks'[S].members = S
    BY <2>2 DEF founded
  <2>4. MembersOf(S)' = networks'[S].members
    BY <1>7, <2>2 DEF AreTables, MembersOf, Networks, Registered
  <2> QED BY <1>5, <2>1, <2>2, <2>3, <2>4 DEF Networks
<1>12. ASSUME NEW n \in Networks, n # S PROVE MembersOf(n)' = MembersOf(n) \ S
  BY <1>5, <1>12, <1>15 DEF MembersOf
<1>13. RestIsWhole'
  <2>1. ASSUME NEW C \in SUBSET S, C # {}, IsClosed(C, S, world) PROVE C = S
    <3>1. \A q, r \in S : Joins(q, r, world) <=> Joins(q, r, Seen)
      BY <1>2, <1>3 DEF Joins
    <3>2. \A q, r \in S : Joins(q, r, world) => Joins(r, q, world)
      BY <1>2, <1>3, JoinsBothWays
    <3>3. IsClosed(S \ C, S, world)
      BY <2>1, <3>2 DEF IsClosed
    <3>4. ASSUME NEW B \in SUBSET S, IsClosed(B, S, world) PROVE IsClosed(B \cap D, D, Seen)
      <4> SUFFICES ASSUME NEW q \in B, NEW r \in D, Joins(q, r, Seen) PROVE r \in B
        BY <1>2 DEF IsClosed
      <4>1. r \in S
        BY <1>2 DEF IsClosed
      <4> QED BY <3>1, <3>4, <4>1 DEF IsClosed
    <3>5. p \in C
      <4> SUFFICES ASSUME p \in S \ C PROVE FALSE
        BY <1>2
      <4>1. S \subseteq S \ C
        BY <1>2, <3>3, <3>4
      <4> QED BY <2>1, <4>1
    <3> QED BY <1>2, <2>1, <3>4, <3>5
  <2>2. ASSUME NEW n \in Networks, n # S, NEW C \in SUBSET (MembersOf(n) \ S), C # {},
               IsClosed(C, MembersOf(n) \ S, world), C \cap Waiting' = {}
        PROVE  C = n
    <3>1. C \subseteq Registered \ S /\ MembersOf(n) \subseteq Registered
      BY <1>1
    <3>2. IsClosed(C, MembersOf(n), world)
      <4> SUFFICES ASSUME NEW q \in C, NEW r \in MembersOf(n), Joins(q, r, world) PROVE r \in C
        BY DEF IsClosed
      <4>1. r \notin S
        BY <1>8, <2>2, <3>1 DEF Waiting
      <4> QED BY <2>2, <4>1 DEF IsClosed
    <3>3. C \cap Waiting = {}
      BY <1>9, <2>2, <3>1
    <3> QED BY <2>2, <3>2, <3>3 DEF WholeInv, Whereabouts, RestIsWhole
  <2> QED BY <1>11, <1>12, <2>1, <2>2 DEF RestIsWhole
<1>14. AsFounded'
  <2>1. ASSUME NEW n \in Networks' \ {S}, MembersOf(n)' = n
        PROVE  /\ \A q \in n : members'[q].attached = AttachedTo(q, n, world')
               /\ networks'[n].updatable = {q \in n : world'[q] \in Updatable}
               /\ networks'[n].receive = EntriesOfAll(n, Input)'
               /\ networks'[n].send \subseteq EntriesOfAll(n, Output)'
    <3>1. n \in Networks /\ n = MembersOf(n) \ S /\ MembersOf(n) \subseteq n
      BY <1>1, <1>11, <1>12, <2>1
    <3>2. MembersOf(n) = n /\ n \subseteq Registered \ S
      BY <1>1, <3>1
    <3>3. /\ networks'[n].updatable = networks[n].updatable
          /\ networks'[n].receive = networks[n].receive /\ networks'[n].send = networks[n].send
      BY <1>6, <1>11, <2>1, LeftKeepsLists
    <3>4. \A q \in n : world'[q] = world[q] /\ members'[q] = members[q]
      BY <1>5, <3>2
    <3> QED BY <3>1, <3>2, <3>3, <3>4, IntactStays
  <2>2. /\ \A q \in S : members'[q].attached = AttachedTo(q, S, world')
        /\ networks'[S].updatable = {q \in S : world'[q] \in Updatable}
        /\ networks'[S].receive = EntriesOfAll(S, Input)'
        /\ networks'[S].send \subseteq EntriesOfAll(S, Output)'
    <3>1. S \in SUBSET Pos /\ \A q \in S : Seen[q] = world[q] /\ Seen[q] \in Kind
      BY <1>2, <1>3
    <3>2. \A q \in S : AttachedTo(q, S, Seen) = AttachedTo(q, S, world)
      BY <3>1, AttachedDependsOnNodes
    <3>3. \A q \in S : A[q] = AttachedTo(q, S, world)
      BY <3>2 DEF A
    <3>4. Listens(S, A, Seen) = EntriesOfAll(S, Input)
      BY <3>1, <3>3 DEF Listens, EntriesOfAll
    <3>5. EntriesOfAll(S, Input)' = EntriesOfAll(S, Input)
      BY DEF EntriesOfAll
    <3>6. \A q \in S : members'[q].attached = AttachedTo(q, S, world')
      BY <1>15, <3>3
    <3>7. /\ networks'[S].updatable = {q \in S : Seen[q] \in Updatable}
          /\ networks'[S].receive = Listens(S, A, Seen) /\ networks'[S].send = {}
      BY <1>11 DEF founded
    <3>8. {q \in S : Seen[q] \in Updatable} = {q \in S : world[q] \in Updatable}
      BY <3>1
    <3> QED BY <3>4, <3>5, <3>6, <3>7, <3>8
  <2> QED BY <1>11, <2>1, <2>2 DEF AsFounded
<1> QED BY <1>10, <1>13, <1>14 DEF Whereabouts

(***************************************************************************)
(* Every step keeps it.                                                    *)
(***************************************************************************)
LEMMA PlaceNodeIsWhole ==
  ASSUME WholeInv, NEW p \in Pos, NEW k \in Kind, PlaceNode(p, k)
  PROVE  WholeInv'
<1>1. /\ \A q \in Registered : world[q] \in Kind /\ IsMember(q, members[q])
      /\ Registered \subseteq Pos
  BY TablesAreTyped
<1>2. p \notin Registered
  BY <1>1, DataAssumption DEF PlaceNode
<1> DEFINE new == [kind |-> k, network |-> Nil, attached |-> Empty]
<1>3. /\ DOMAIN members' = Registered \cup {p} /\ members'[p] = new
      /\ \A q \in Registered : members'[q] = members[q]
      /\ networks' = networks /\ queued' = QueueRefresh({p})
      /\ missed' = missed /\ batch' = batch /\ phase' = phase /\ due' = due /\ current' = current
      /\ loaded' = loaded /\ activated' = activated /\ phase = "idle"
  BY <1>2 DEF PlaceNode, IsActive
<1>4. world'[p] = k /\ \A q \in Pos \ {p} : world'[q] = world[q]
  BY DEF PlaceNode, WholeInv, IInv
<1>5. \A q \in Registered : world'[q] = world[q]
  BY <1>1, <1>2, <1>4
<1>6. new.kind = k /\ new.network = Nil
  OBVIOUS
<1> HIDE DEF new
<1>7. IInv'
  BY PlaceNodeKeeps DEF WholeInv
<1>8. NamesAreKnown'
  BY <1>3, <1>4, <1>5, <1>6 DEF WholeInv, NamesAreKnown, Registered
<1>9. ActiveAreKnown'
  BY <1>3, <1>4 DEF WholeInv, ActiveAreKnown, Registered
<1>10. PhasesInOrder'
  BY <1>3 DEF WholeInv, PhasesInOrder, Networks
<1>11. Whereabouts'
  <2>1. p \in Waiting' /\ Waiting \subseteq Waiting'
    BY <1>3 DEF Waiting, QueueRefresh
  <2>2. \A n \in Networks : MembersOf(n) = n =>
          networks'[n].updatable = networks[n].updatable /\ networks'[n].receive = networks[n].receive
          /\ networks'[n].send \subseteq EntriesOfAll(n, Output)
    BY <1>3 DEF WholeInv, Whereabouts, AsFounded
  <2>3. DOMAIN networks' = Networks
    BY <1>3 DEF Networks
  <2>4. members'[p].network = Nil
    BY <1>3, <1>6
  <2>5. {p} \in SUBSET Pos /\ {p} \cap Registered = {} /\ {p} \subseteq Waiting'
        /\ (\A q \in {p} : members'[q].network = Nil) /\ Waiting \cap Registered \subseteq Waiting'
    BY <1>2, <2>1, <2>4
  <2> QED BY <1>3, <1>5, <2>2, <2>3, <2>5, GrowingStep
<1> QED BY <1>7, <1>8, <1>9, <1>10, <1>11 DEF WholeInv

LEMMA DigNodeIsWhole ==
  ASSUME WholeInv, NEW p \in Pos, DigNode(p)
  PROVE  WholeInv'
<1>1. Registered \subseteq Pos
  BY TablesAreTyped
<1>2. world'[p] = Air /\ \A q \in Pos \ {p} : world'[q] = world[q]
  BY DEF DigNode, WholeInv, IInv
<1>3. /\ Registered' = Registered \ {p} /\ \A q \in Registered \ {p} : members'[q] = members[q]
      /\ batch' = batch /\ phase' = phase /\ due' = due /\ current' = current
      /\ loaded' = loaded /\ activated' = activated /\ phase = "idle"
  BY DEF DigNode, IsActive, RemoveNodes, Registered, Restrict
<1>4. IInv'
  BY DigNodeKeeps DEF WholeInv
<1>5. NamesAreKnown'
  BY <1>1, <1>2, <1>3 DEF WholeInv, NamesAreKnown
<1>6. ActiveAreKnown'
  BY <1>2, <1>3, DataAssumption DEF WholeInv, ActiveAreKnown
<1>7. PhasesInOrder'
  BY <1>3 DEF WholeInv, PhasesInOrder
<1>8. Whereabouts'
  <2>1. {p} \in SUBSET Pos /\ RemoveNodes({p}) /\ \A q \in Registered \ {p} : world'[q] = world[q]
    BY <1>1, <1>2 DEF DigNode
  <2> QED BY <1>3, <2>1, LeavingStep
<1> QED BY <1>4, <1>5, <1>6, <1>7, <1>8 DEF WholeInv

LEMMA ExpireBlockIsWhole ==
  ASSUME WholeInv, NEW b \in Block, ExpireBlock(b)
  PROVE  WholeInv'
<1>1. PICK S : S = {p \in Registered : BlockOf[p] = b}
  OBVIOUS
<1>2. S \in SUBSET Pos /\ RemoveNodes(S)
  BY <1>1, TablesAreTyped DEF ExpireBlock
<1>3. /\ Registered' = Registered \ S /\ \A q \in Registered \ S : members'[q] = members[q]
      /\ batch' = batch /\ phase' = phase /\ due' = due /\ current' = current /\ world' = world
      /\ loaded' = loaded /\ activated' = activated /\ phase = "idle" /\ b \notin loaded
  BY <1>2 DEF ExpireBlock, RemoveNodes, Registered, Restrict, mapvars
<1>4. IInv'
  BY ExpireBlockKeeps DEF WholeInv
<1>5. NamesAreKnown'
  BY <1>3 DEF WholeInv, NamesAreKnown
<1>6. ActiveAreKnown'
  BY <1>1, <1>3 DEF WholeInv, ActiveAreKnown
<1>7. PhasesInOrder'
  BY <1>3 DEF WholeInv, PhasesInOrder
<1>8. Whereabouts'
  BY <1>2, <1>3, LeavingStep
<1> QED BY <1>4, <1>5, <1>6, <1>7, <1>8 DEF WholeInv

LEMMA ResolvePositionIsWhole ==
  ASSUME WholeInv, NEW p \in batch, ResolvePosition(p)
  PROVE  WholeInv'
<1>1. PICK S : S = Found(p, Seen)
  OBVIOUS
<1>2. p \in Pos /\ IsDevice(p)
  BY DEF WholeInv, IInv, ResolvePosition
<1>3. S \subseteq Pos /\ \A q \in S : Seen[q] \in Kind
  BY <1>1, <1>2, FoundAreDevices
<1>4. \A q \in S : Seen[q] = world[q]
  <2>1. \A q \in S : Seen[q] \in {world[q], Nil} /\ Nil \notin Kind
    BY <1>3, DataAssumption DEF Seen, NodeAt
  <2> QED BY <1>3, <2>1
<1>5. /\ Registered' = Registered \cup S
      /\ \A q \in S : members'[q] = [kind |-> Seen[q], network |-> S, attached |-> AttachedTo(q, S, Seen)]
      /\ \A q \in Registered \ S : members'[q] = members[q]
      /\ batch' = batch \ S /\ phase' = phase /\ current' = current /\ queued' = queued /\ world' = world
      /\ loaded' = loaded /\ activated' = activated /\ phase = "queue"
  BY <1>1 DEF ResolvePosition, Refresh, Registered, mapvars
<1>6. IInv'
  BY ResolvePositionKeeps DEF WholeInv
<1>7. NamesAreKnown'
  <2>1. ASSUME NEW q \in S PROVE members'[q].kind = Seen[q]
    <3>1. members'[q] = [kind |-> Seen[q], network |-> S, attached |-> AttachedTo(q, S, Seen)]
      BY <1>5
    <3> QED BY <3>1
  <2> QED BY <1>4, <1>5, <2>1 DEF WholeInv, NamesAreKnown
<1>8. ActiveAreKnown'
  BY <1>5 DEF WholeInv, ActiveAreKnown
<1>9. PhasesInOrder'
  BY <1>5 DEF WholeInv, PhasesInOrder
<1>10. Whereabouts'
  <2>1. Refresh(S)
    BY <1>1 DEF ResolvePosition
  <2>2. queued = {} /\ queued' = {}
    BY <1>5 DEF WholeInv, PhasesInOrder
  <2> QED BY <1>1, <1>2, <1>5, <2>1, <2>2, RefreshStep
<1> QED BY <1>6, <1>7, <1>8, <1>9, <1>10 DEF WholeInv

LEMMA ActivateBlockIsWhole ==
  ASSUME WholeInv, NEW b \in Block, ActivateBlock(b)
  PROVE  WholeInv'
<1> DEFINE Marks(n, known) == UNION {EntriesOf(p, members[p].attached, Input[world[p]]) :
                                       p \in {q \in known : members[q].network = n}}
<1>1. PICK nodes : nodes = {p \in Pos : BlockOf[p] = b /\ IsDevice(p)}
  OBVIOUS
<1>2. PICK known : known = nodes \cap Registered
  OBVIOUS
<1>3. \A p \in nodes : world[p] \in Kind
  BY <1>1, DataAssumption DEF IsDevice, NodeAt
<1>4. \A p \in Registered : IsMember(p, members[p])
  BY TablesAreTyped
<1>5. /\ DOMAIN members' = Registered \cup nodes
      /\ \A p \in known : members'[p] = [members[p] EXCEPT !.kind = world[p]]
      /\ \A p \in nodes \ known : members'[p] = [kind |-> world[p], network |-> Nil, attached |-> Empty]
      /\ \A p \in Registered \ nodes : members'[p] = members[p]
  BY <1>1, <1>2 DEF ActivateBlock
<1>6. /\ DOMAIN networks' = Networks
      /\ \A n \in Networks : networks'[n] = [networks[n] EXCEPT !.receive = @ \cup Marks(n, known)]
  BY <1>1, <1>2 DEF ActivateBlock
<1>7. /\ world' = world /\ missed' = missed /\ batch' = batch /\ phase' = phase /\ due' = due /\ current' = current
      /\ loaded' = loaded /\ activated' = activated \cup {b} /\ phase = "idle" /\ b \in loaded
  BY DEF ActivateBlock
<1>8. queued \cup (nodes \ known) \subseteq queued'
  <2>1. PICK changed : queued' = QueueRefresh((nodes \ known) \cup changed
                      \cup {p \in known : IsWire(world[p]) /\ members[p].network = Nil})
    BY <1>1, <1>2 DEF ActivateBlock
  <2> QED BY <2>1 DEF QueueRefresh
<1> HIDE DEF Marks
<1>9. ASSUME NEW p \in Registered
      PROVE  /\ members'[p].network = members[p].network /\ members'[p].attached = members[p].attached
             /\ members'[p].kind \in {members[p].kind, world[p]}
  <2>1. CASE p \in known
    <3>1. members'[p] = [kind |-> world[p], network |-> members[p].network, attached |-> members[p].attached]
      BY <1>4, <1>5, <2>1 DEF IsMember
    <3> QED BY <3>1
  <2>2. CASE p \notin known
    <3>1. members'[p] = members[p]
      BY <1>2, <1>5, <2>2
    <3> QED BY <3>1
  <2> QED BY <2>1, <2>2
<1>10. ASSUME NEW p \in nodes \ known PROVE members'[p].network = Nil /\ members'[p].kind = world[p]
  <2>1. members'[p] = [kind |-> world[p], network |-> Nil, attached |-> Empty]
    BY <1>5
  <2> QED BY <2>1
<1>11. IInv'
  BY ActivateBlockKeeps DEF WholeInv
<1>12. NamesAreKnown'
  BY <1>2, <1>5, <1>7, <1>9, <1>10 DEF WholeInv, NamesAreKnown, Registered
<1>13. ActiveAreKnown'
  <2>1. \A p \in Pos : world[p] \in Kind /\ BlockOf[p] = b => p \in nodes
    BY <1>1, <1>7 DEF IsDevice, NodeAt
  <2> QED BY <1>5, <1>7, <2>1 DEF WholeInv, ActiveAreKnown, Registered
<1>14. PhasesInOrder'
  BY <1>7 DEF WholeInv, PhasesInOrder
<1>15. Whereabouts'
  <2>1. ASSUME NEW n \in Networks, MembersOf(n) = n
        PROVE  /\ networks'[n].updatable = networks[n].updatable
               /\ networks'[n].receive = networks[n].receive
               /\ networks'[n].send \subseteq EntriesOfAll(n, Output)
    <3>1. /\ \A p \in n : members[p].attached = AttachedTo(p, n, world)
          /\ networks[n].receive = EntriesOfAll(n, Input)
          /\ networks[n].send \subseteq EntriesOfAll(n, Output)
      BY <2>1 DEF WholeInv, Whereabouts, AsFounded
    <3>2. ASSUME NEW p \in known, members[p].network = n
          PROVE  EntriesOf(p, members[p].attached, Input[world[p]]) \subseteq EntriesOfAll(n, Input)
      <4>1. p \in n
        BY <1>2, <2>1, <3>2 DEF MembersOf
      <4> QED BY <3>1, <4>1 DEF EntriesOfAll
    <3>3. Marks(n, known) \subseteq networks[n].receive
      BY <3>1, <3>2 DEF Marks
    <3>4. IsNetwork(networks[n])
      BY <2>1 DEF WholeInv, IInv, AreTables, Networks
    <3>5. networks'[n] = [members |-> networks[n].members, updatable |-> networks[n].updatable,
                          send |-> networks[n].send, receive |-> networks[n].receive \cup Marks(n, known)]
      BY <1>6, <2>1, <3>4 DEF IsNetwork
    <3> QED BY <3>1, <3>3, <3>5
  <2>2. Waiting \cup (nodes \ known) \subseteq Waiting'
    BY <1>7, <1>8 DEF Waiting
  <2>3. /\ nodes \ known \in SUBSET Pos /\ DOMAIN members' = Registered \cup (nodes \ known)
        /\ (nodes \ known) \cap Registered = {}
    BY <1>1, <1>2, <1>5
  <2>4. PICK new : new = nodes \ known
    OBVIOUS
  <2>5. /\ \A p \in Registered : /\ members'[p].network = members[p].network
                                 /\ members'[p].attached = members[p].attached /\ world'[p] = world[p]
        /\ \A p \in new : members'[p].network = Nil
        /\ new \subseteq Waiting' /\ Waiting \cap Registered \subseteq Waiting'
    BY <1>7, <1>9, <1>10, <2>2, <2>4
  <2>6. new \in SUBSET Pos /\ DOMAIN members' = Registered \cup new /\ new \cap Registered = {}
    BY <2>3, <2>4
  <2> QED BY <1>6, <2>1, <2>5, <2>6, GrowingStep
<1> QED BY <1>11, <1>12, <1>13, <1>14, <1>15 DEF WholeInv

\* While the networks are updated, and no member was passed by, all are as
\* they were founded.
LEMMA AllAreWhole ==
  ASSUME WholeInv, phase = "networks", missed = {}, NEW n \in Networks
  PROVE  MembersOf(n) = n
<1>1. Waiting = {}
  BY DEF Waiting, WholeInv, PhasesInOrder
<1>2. MembersOf(n) # {}
  BY TablesAreTyped
<1>3. IsClosed(MembersOf(n), MembersOf(n), world)
  BY DEF IsClosed
<1> QED BY <1>1, <1>2, <1>3 DEF WholeInv, Whereabouts, RestIsWhole

LEMMA SentIsExpected ==
  ASSUME WholeInv, NEW n \in Networks, MembersOf(n) = n, NEW S
  PROVE  Sent(n, S) \subseteq EntriesOfAll(n, Output)
<1>1. \A p \in n : members[p].attached = AttachedTo(p, n, world) /\ members[p].kind = world[p]
  BY DEF WholeInv, Whereabouts, AsFounded, NamesAreKnown, MembersOf
<1>2. ASSUME NEW p \in S \cap Registered, members[p].network = n
      PROVE  EntriesOf(p, members[p].attached, Output[members[p].kind]) \subseteq EntriesOfAll(n, Output)
  <2>1. p \in n
    BY <1>2 DEF MembersOf
  <2> QED BY <1>1, <2>1 DEF EntriesOfAll
<1> QED BY <1>2 DEF Sent

\* Where an entry comes from.
LEMMA EntryIsAttached ==
  ASSUME NEW n \in SUBSET Pos, NEW Ports, NEW e \in EntriesOfAll(n, Ports)
  PROVE  /\ e[3] \in n /\ e[4] \in n \cap Beside[e[3]]
         /\ TypeOf[world[e[3]]] = "device" /\ TypeOf[world[e[4]]] = "bus"
         /\ e[1] = Wires(e[4], n, world) /\ e[4] \in DOMAIN AttachedTo(e[3], n, world)
         /\ e[2] \in {Offset[ColorOf[world[e[4]]]] + i :
                        i \in Ports[world[e[3]]] \cap (1..PortRange[ColorOf[world[e[4]]]])}
<1>1. PICK p \in n : e \in EntriesOf(p, AttachedTo(p, n, world), Ports[world[p]])
  BY DEF EntriesOfAll
<1> DEFINE A == AttachedTo(p, n, world)
<1>2. PICK d \in DOMAIN A : e \in {A[d].sub} \X GlobalPorts(A[d], Ports[world[p]]) \X {p} \X {d}
  BY <1>1 DEF EntriesOf
<1>3. /\ d \in n \cap Beside[p] /\ TypeOf[world[p]] = "device" /\ TypeOf[world[d]] = "bus"
      /\ A[d] = [color |-> ColorOf[world[d]], sub |-> Wires(d, n, world)]
  BY <1>2 DEF AttachedTo
<1>4. A[d].color = ColorOf[world[d]] /\ A[d].sub = Wires(d, n, world)
  BY <1>3
<1> HIDE DEF A
<1>5. e[1] = A[d].sub /\ e[2] \in GlobalPorts(A[d], Ports[world[p]]) /\ e[3] = p /\ e[4] = d
  BY <1>2
<1> QED BY <1>2, <1>3, <1>4, <1>5 DEF GlobalPorts, A

\* What a network hands over goes along its wires.
LEMMA DeliveriesAreWired ==
  ASSUME NEW n \in SUBSET Pos, \A q \in n : world[q] \in Kind,
         NEW s \in EntriesOfAll(n, Output), NEW r \in EntriesOfAll(n, Input), s[1] = r[1], s[2] = r[2]
  PROVE  AreWired(s[3], s[4], r[3], r[4]) /\ s[2] \in Shared(s[3], s[4], r[3], r[4])
<1>1. /\ s[3] \in n /\ s[4] \in n \cap Beside[s[3]]
      /\ TypeOf[world[s[3]]] = "device" /\ TypeOf[world[s[4]]] = "bus"
      /\ s[1] = Wires(s[4], n, world)
      /\ s[2] \in {Offset[ColorOf[world[s[4]]]] + i :
                     i \in Output[world[s[3]]] \cap (1..PortRange[ColorOf[world[s[4]]]])}
  BY EntryIsAttached
<1>2. /\ r[3] \in n /\ r[4] \in n \cap Beside[r[3]]
      /\ TypeOf[world[r[3]]] = "device" /\ TypeOf[world[r[4]]] = "bus"
      /\ r[1] = Wires(r[4], n, world)
      /\ r[2] \in {Offset[ColorOf[world[r[4]]]] + i :
                     i \in Input[world[r[3]]] \cap (1..PortRange[ColorOf[world[r[4]]]])}
  BY EntryIsAttached
<1>3. PICK K : K = {x \in Pos : world[x] \in Kind}
  OBVIOUS
<1>4. PICK V : V = {q \in n : IsWire(world[q])}
  OBVIOUS
<1>5. PICK W : W = {q \in K : IsWire(world[q])}
  OBVIOUS
<1>6. V \in SUBSET Pos /\ W \in SUBSET Pos /\ V \subseteq W /\ s[4] \in V
  BY <1>1, <1>3, <1>4, <1>5 DEF IsWire
<1>7. Wires(s[4], n, world) = Reached(s[4], V, world) /\ Wires(s[4], K, world) = Reached(s[4], W, world)
  BY <1>4, <1>5 DEF Wires
<1>8. Reached(s[4], V, world) \subseteq Reached(s[4], W, world)
  BY <1>6, ReachedGrows
<1>9. r[4] \in Wires(r[4], n, world)
  BY ReachedStaysInside DEF Wires
<1>10. r[4] \in Wires(s[4], {x \in Pos : world[x] \in Kind}, world)
  BY <1>1, <1>2, <1>3, <1>7, <1>8, <1>9
<1>11. AreWired(s[3], s[4], r[3], r[4])
  BY <1>1, <1>2, <1>10 DEF AreWired
<1>12. s[2] \in Shared(s[3], s[4], r[3], r[4])
  BY <1>1, <1>2 DEF Shared
<1> QED BY <1>11, <1>12

\* In a network that is as it was founded, a delivery is between two of its
\* members, and the receiver is attached in the direction it listens in.
LEMMA DeliveriesAreSafe ==
  ASSUME WholeInv, NEW n \in Networks, MembersOf(n) = n, NEW d \in Deliveries(n)
  PROVE  /\ d[2][4] \in DOMAIN members[d[2][3]].attached
         /\ AreWired(d[1][3], d[1][4], d[2][3], d[2][4])
         /\ d[1][2] \in Shared(d[1][3], d[1][4], d[2][3], d[2][4])
<1>1. n \in SUBSET Pos /\ \A q \in n : world[q] \in Kind
  BY TablesAreTyped DEF MembersOf
<1>2. /\ d[1] \in networks[n].send /\ d[2] \in networks[n].receive
      /\ d[1][1] = d[2][1] /\ d[1][2] = d[2][2]
  BY DEF Deliveries
<1>3. /\ \A p \in n : members[p].attached = AttachedTo(p, n, world)
      /\ d[1] \in EntriesOfAll(n, Output) /\ d[2] \in EntriesOfAll(n, Input)
  BY <1>2 DEF WholeInv, Whereabouts, AsFounded
<1>4. PICK s \in EntriesOfAll(n, Output) : s = d[1]
  BY <1>3
<1>5. PICK r \in EntriesOfAll(n, Input) : r = d[2]
  BY <1>3
<1>6. AreWired(s[3], s[4], r[3], r[4]) /\ s[2] \in Shared(s[3], s[4], r[3], r[4])
  BY <1>1, <1>2, <1>4, <1>5, DeliveriesAreWired
<1>7. r[3] \in n /\ r[4] \in DOMAIN AttachedTo(r[3], n, world)
  BY <1>1, EntryIsAttached
<1> QED BY <1>3, <1>4, <1>5, <1>6, <1>7

\* Only what waits to be sent changes in a dispatch.
LEMMA SendingStep ==
  ASSUME WholeInv, phase = "networks", current # Nil, NEW kept, NEW S, NEW U,
         kept \subseteq networks[current].send,
         U = networks[current].updatable \/ U = networks[current].updatable \cap Registered,
         DOMAIN networks' = Networks,
         \A n \in Networks :
            /\ networks'[n].updatable = (IF n = current THEN U ELSE networks[n].updatable)
            /\ networks'[n].receive = networks[n].receive
            /\ networks'[n].send = (IF n = current THEN kept ELSE networks[n].send) \cup Sent(n, S),
         members' = members, world' = world, UNCHANGED <<missed, queued, batch>>
  PROVE  Whereabouts'
<1>1. current \in Networks
  BY DEF WholeInv, PhasesInOrder
<1>2. ASSUME NEW n \in Networks, MembersOf(n) = n
      PROVE  /\ networks'[n].updatable = networks[n].updatable
             /\ networks'[n].receive = networks[n].receive
             /\ networks'[n].send \subseteq EntriesOfAll(n, Output)
  <2>1. networks[n].updatable = {p \in n : world[p] \in Updatable} /\ networks[n].send \subseteq EntriesOfAll(n, Output)
    BY <1>2 DEF WholeInv, Whereabouts, AsFounded
  <2>2. networks[n].updatable \subseteq Registered
    BY <1>2, <2>1 DEF MembersOf
  <2>3. Sent(n, S) \subseteq EntriesOfAll(n, Output)
    BY <1>2, SentIsExpected
  <2> QED BY <2>1, <2>2, <2>3
<1>3. /\ DOMAIN members' = Registered \cup {} /\ {} \cap Registered = {} /\ {} \in SUBSET Pos
      /\ \A p \in Registered : /\ members'[p].network = members[p].network
                               /\ members'[p].attached = members[p].attached /\ world'[p] = world[p]
      /\ (\A p \in {} : members'[p].network = Nil) /\ {} \subseteq Waiting'
      /\ Waiting \cap Registered \subseteq Waiting'
  BY DEF Registered, Waiting
<1> QED BY <1>2, <1>3, GrowingStep

LEMMA DispatchRoundIsWhole ==
  ASSUME WholeInv, DispatchRound
  PROVE  WholeInv'
<1>1. /\ phase = "networks" /\ current # Nil /\ current \in Networks
      /\ members' = members /\ world' = world /\ loaded' = loaded /\ activated' = activated
      /\ UNCHANGED <<missed, queued, batch, due, current>>
  BY DEF DispatchRound, mapvars, WholeInv, PhasesInOrder
<1>2. IInv'
  BY DispatchRoundKeeps DEF WholeInv
<1>3. NamesAreKnown' /\ ActiveAreKnown'
  BY <1>1 DEF WholeInv, NamesAreKnown, ActiveAreKnown, Registered
<1>4. CASE \A d \in Deliveries(current) : d[2][4] \in DOMAIN members[d[2][3]].attached
  <2>1. PICK S : networks' = Sending(current, {}, S) /\ phase' = phase
    BY <1>4 DEF DispatchRound
  <2>2. AreTables(members, networks, marked)
    BY DEF WholeInv, IInv
  <2>3. DOMAIN networks' = Networks
    BY <2>1 DEF Sending
  <2>4. ASSUME NEW n \in Networks
        PROVE  /\ networks'[n].updatable = networks[n].updatable /\ networks'[n].receive = networks[n].receive
               /\ networks'[n].send = (IF n = current THEN {} ELSE networks[n].send) \cup Sent(n, S)
    <3> DEFINE send == (IF n = current THEN {} ELSE networks[n].send) \cup Sent(n, S)
    <3>1. IsNetwork(networks[n])
      BY <2>2 DEF AreTables, Networks
    <3>2. networks'[n] = [networks[n] EXCEPT !.send = send]
      BY <2>1 DEF Sending
    <3> HIDE DEF send
    <3>3. networks'[n] = [members |-> networks[n].members, updatable |-> networks[n].updatable,
                          send |-> send, receive |-> networks[n].receive]
      BY <3>1, <3>2 DEF IsNetwork
    <3>4. networks'[n].updatable = networks[n].updatable /\ networks'[n].receive = networks[n].receive
          /\ networks'[n].send = send
      BY <3>3
    <3> QED BY <3>4 DEF send
  <2>5. Whereabouts'
    <3>1. PICK U : U = networks[current].updatable
      OBVIOUS
    <3>2. PICK kept : kept = {}
      OBVIOUS
    <3>3. ASSUME NEW n \in Networks
          PROVE  /\ networks'[n].updatable = (IF n = current THEN U ELSE networks[n].updatable)
                 /\ networks'[n].receive = networks[n].receive
                 /\ networks'[n].send = (IF n = current THEN kept ELSE networks[n].send) \cup Sent(n, S)
      BY <2>4, <3>1, <3>2
    <3>4. kept \subseteq networks[current].send
      BY <3>2
    <3> QED BY <1>1, <2>3, <3>1, <3>3, <3>4, SendingStep
  <2>6. PhasesInOrder'
    BY <1>1, <2>1, <2>3 DEF WholeInv, PhasesInOrder, Networks
  <2> QED BY <1>2, <1>3, <2>5, <2>6 DEF WholeInv
<1>5. CASE ~ \A d \in Deliveries(current) : d[2][4] \in DOMAIN members[d[2][3]].attached
  <2>1. networks' = networks /\ phase' = "crashed"
    BY <1>5 DEF DispatchRound
  <2>2. missed # {}
    BY <1>1, <1>5, AllAreWhole, DeliveriesAreSafe
  <2>3. PhasesInOrder'
    BY <1>1, <2>1, <2>2 DEF WholeInv, PhasesInOrder
  <2>4. Whereabouts'
    BY <1>1, <2>1 DEF WholeInv, Whereabouts, JoinedShare, RestIsWhole, AsFounded, MembersOf,
                      Registered, Networks, Waiting, EntriesOfAll
  <2> QED BY <1>2, <1>3, <2>3, <2>4 DEF WholeInv
<1> QED BY <1>4, <1>5

LEMMA UpdateDevicesIsWhole ==
  ASSUME WholeInv, NEW senders, UpdateDevices(senders)
  PROVE  WholeInv'
<1> DEFINE updated == {p \in networks[current].updatable \cap Registered :
                         IsDevice(p) /\ TypeOf[members[p].kind] = "device"}
<1>1. /\ phase = "networks" /\ current # Nil /\ current \in Networks
      /\ members' = members /\ world' = world /\ loaded' = loaded /\ activated' = activated
      /\ UNCHANGED <<missed, queued, batch, due>>
  BY DEF UpdateDevices, mapvars, WholeInv, PhasesInOrder
<1>2. IInv'
  BY UpdateDevicesKeeps DEF WholeInv
<1>3. NamesAreKnown' /\ ActiveAreKnown'
  BY <1>1 DEF WholeInv, NamesAreKnown, ActiveAreKnown, Registered
<1>4. CASE \A p \in updated : members[p].kind \in Updatable
  <2>1. PICK N : N = Sending(current, networks[current].send, senders)
    OBVIOUS
  <2>2. /\ networks' = [N EXCEPT ![current].updatable = @ \cap Registered]
        /\ phase' = phase /\ current' = Nil
    BY <1>4, <2>1 DEF UpdateDevices
  <2>3. /\ DOMAIN N = Networks
        /\ \A n \in Networks : N[n] = [networks[n] EXCEPT !.send =
             (IF n = current THEN networks[current].send ELSE @) \cup Sent(n, senders)]
    BY <2>1 DEF Sending
  <2>4. DOMAIN networks' = Networks
    BY <2>2, <2>3
  <2>5. ASSUME NEW n \in Networks
        PROVE  /\ networks'[n].updatable =
                    (IF n = current THEN networks[current].updatable \cap Registered ELSE networks[n].updatable)
               /\ networks'[n].receive = networks[n].receive
               /\ networks'[n].send = (IF n = current THEN networks[current].send ELSE networks[n].send)
                                        \cup Sent(n, senders)
    <3> DEFINE send == (IF n = current THEN networks[current].send ELSE networks[n].send) \cup Sent(n, senders)
    <3>1. IsNetwork(networks[n])
      BY DEF WholeInv, IInv, AreTables, Networks
    <3>2. N[n] = [networks[n] EXCEPT !.send = send]
      BY <2>3
    <3> HIDE DEF send
    <3>3. N[n] = [members |-> networks[n].members, updatable |-> networks[n].updatable,
                  send |-> send, receive |-> networks[n].receive]
      BY <3>1, <3>2 DEF IsNetwork
    <3>4. CASE n = current
      <4>1. networks'[n] = [N[n] EXCEPT !.updatable = @ \cap Registered]
        BY <2>2, <2>3, <3>4
      <4>2. networks'[n] = [members |-> networks[n].members,
                            updatable |-> networks[n].updatable \cap Registered,
                            send |-> send, receive |-> networks[n].receive]
        <5>1. /\ N[n].members = networks[n].members /\ N[n].updatable = networks[n].updatable
              /\ N[n].send = send /\ N[n].receive = networks[n].receive
          BY <3>3
        <5>2. N[n] = [members |-> N[n].members, updatable |-> N[n].updatable,
                      send |-> N[n].send, receive |-> N[n].receive]
          BY <3>3, <5>1
        <5>3. networks'[n] = [members |-> N[n].members, updatable |-> N[n].updatable \cap Registered,
                              send |-> N[n].send, receive |-> N[n].receive]
          BY <4>1, <5>2
        <5> QED BY <5>1, <5>3
      <4> QED BY <3>4, <4>2 DEF send
    <3>5. CASE n # current
      <4>1. networks'[n] = N[n]
        BY <2>2, <2>3, <3>5
      <4> QED BY <3>3, <3>5, <4>1 DEF send
    <3> QED BY <3>4, <3>5
  <2>6. Whereabouts'
    <3>1. PICK U : U = networks[current].updatable \cap Registered
      OBVIOUS
    <3>2. PICK kept : kept = networks[current].send
      OBVIOUS
    <3>3. ASSUME NEW n \in Networks
          PROVE  /\ networks'[n].updatable = (IF n = current THEN U ELSE networks[n].updatable)
                 /\ networks'[n].receive = networks[n].receive
                 /\ networks'[n].send = (IF n = current THEN kept ELSE networks[n].send) \cup Sent(n, senders)
      BY <2>5, <3>1, <3>2
    <3> QED BY <1>1, <2>4, <3>1, <3>2, <3>3, SendingStep
  <2>7. PhasesInOrder'
    BY <1>1, <2>2, <2>4 DEF WholeInv, PhasesInOrder, Networks
  <2> QED BY <1>2, <1>3, <2>6, <2>7 DEF WholeInv
<1>5. CASE ~ \A p \in updated : members[p].kind \in Updatable
  <2>1. networks' = networks /\ phase' = "crashed" /\ current' = current
    BY <1>5 DEF UpdateDevices
  <2>2. missed # {}
    <3> SUFFICES ASSUME missed = {} PROVE FALSE
      OBVIOUS
    <3>1. MembersOf(current) = current
      BY <1>1, AllAreWhole
    <3>2. \A p \in networks[current].updatable : world[p] \in Updatable
      BY <1>1, <3>1 DEF WholeInv, Whereabouts, AsFounded
    <3> QED BY <1>5, <3>2 DEF WholeInv, NamesAreKnown
  <2>3. PhasesInOrder'
    BY <1>1, <2>1, <2>2 DEF WholeInv, PhasesInOrder
  <2>4. Whereabouts'
    BY <1>1, <2>1 DEF WholeInv, Whereabouts, JoinedShare, RestIsWhole, AsFounded, MembersOf,
                      Registered, Networks, Waiting, EntriesOfAll
  <2> QED BY <1>2, <1>3, <2>3, <2>4 DEF WholeInv
<1> QED BY <1>4, <1>5

LEMMA BeginUpdateIsWhole ==
  ASSUME WholeInv, BeginUpdate
  PROVE  WholeInv'
<1>1. /\ members' = members /\ networks' = networks /\ world' = world
      /\ loaded' = loaded /\ activated' = activated /\ current' = current /\ due' = due
      /\ phase = "idle" /\ phase' = "queue" /\ queued' = {} /\ missed \subseteq missed'
  BY DEF BeginUpdate, mapvars
<1>2. IInv'
  BY OthersKeep DEF WholeInv
<1>3. NamesAreKnown' /\ ActiveAreKnown' /\ PhasesInOrder'
  BY <1>1 DEF WholeInv, NamesAreKnown, ActiveAreKnown, PhasesInOrder, Registered
<1>4. Waiting \cap Registered \subseteq Waiting'
  <2> SUFFICES ASSUME NEW p \in Registered, p \in queued PROVE p \in Waiting'
    BY <1>1 DEF Waiting, WholeInv, PhasesInOrder
  <2>1. p \in Pos /\ world[p] \in Kind
    BY TablesAreTyped
  <2> QED BY <2>1 DEF BeginUpdate, Waiting, IsDevice, NodeAt
<1>5. Whereabouts'
  <2>1. /\ DOMAIN members' = Registered \cup {} /\ {} \cap Registered = {} /\ {} \in SUBSET Pos
        /\ \A p \in Registered : /\ members'[p].network = members[p].network
                                 /\ members'[p].attached = members[p].attached /\ world'[p] = world[p]
        /\ (\A p \in {} : members'[p].network = Nil) /\ {} \subseteq Waiting'
        /\ DOMAIN networks' = Networks
    BY <1>1 DEF Registered, Networks
  <2>2. \A n \in Networks : MembersOf(n) = n =>
          networks'[n].updatable = networks[n].updatable /\ networks'[n].receive = networks[n].receive
          /\ networks'[n].send \subseteq EntriesOfAll(n, Output)
    BY <1>1 DEF WholeInv, Whereabouts, AsFounded
  <2> QED BY <1>4, <2>1, <2>2, GrowingStep
<1> QED BY <1>2, <1>3, <1>5 DEF WholeInv

LEMMA OthersAreWhole ==
  ASSUME WholeInv,
         \/ \E b \in Block : UnloadBlock(b) \/ LoadBlock(b)
         \/ BeginNetworks \/ (\E n \in due : BeginDispatch(n)) \/ EndUpdate
         \/ UNCHANGED vars
  PROVE  WholeInv'
<1>1. IInv'
  BY OthersKeep DEF WholeInv
<1>2. /\ members' = members /\ networks' = networks /\ world' = world
      /\ missed' = missed /\ queued' = queued /\ batch' = batch
  BY DEF UnloadBlock, LoadBlock, BeginNetworks, BeginDispatch, EndUpdate, vars, mapvars, tables
<1>3. NamesAreKnown' /\ Whereabouts'
  BY <1>2 DEF WholeInv, NamesAreKnown, Whereabouts, JoinedShare, RestIsWhole, AsFounded, MembersOf,
              Registered, Networks, Waiting, EntriesOfAll
<1>4. ActiveAreKnown'
  BY <1>2 DEF WholeInv, ActiveAreKnown, Registered, UnloadBlock, LoadBlock, BeginNetworks, BeginDispatch,
              EndUpdate, vars, mapvars, tables
<1>5. PhasesInOrder'
  BY <1>2 DEF WholeInv, PhasesInOrder, Networks, UnloadBlock, LoadBlock, BeginNetworks, BeginDispatch,
              EndUpdate, vars, mapvars, tables
<1> QED BY <1>1, <1>3, <1>4, <1>5 DEF WholeInv

LEMMA InitIsWhole == Init => WholeInv
<1> SUFFICES ASSUME Init PROVE WholeInv
  OBVIOUS
<1>1. IInv
  BY InitIsGood
<1>2. Registered = {} /\ Networks = {}
  BY DEF Init, Empty, Registered, Networks
<1>3. NamesAreKnown /\ Whereabouts
  BY <1>2 DEF NamesAreKnown, Whereabouts, JoinedShare, RestIsWhole, AsFounded
<1>4. ActiveAreKnown /\ PhasesInOrder
  BY DataAssumption DEF Init, ActiveAreKnown, PhasesInOrder
<1> QED BY <1>1, <1>3, <1>4 DEF WholeInv

LEMMA NextIsWhole == WholeInv /\ [Next]_vars => WholeInv'
<1> SUFFICES ASSUME WholeInv, [Next]_vars PROVE WholeInv'
  OBVIOUS
<1>1. ASSUME NEW p \in Pos, NEW k \in Kind, PlaceNode(p, k) PROVE WholeInv'
  BY <1>1, PlaceNodeIsWhole
<1>2. ASSUME NEW p \in Pos, DigNode(p) PROVE WholeInv'
  BY <1>2, DigNodeIsWhole
<1>3. ASSUME NEW b \in Block, ActivateBlock(b) PROVE WholeInv'
  BY <1>3, ActivateBlockIsWhole
<1>4. ASSUME NEW b \in Block, ExpireBlock(b) PROVE WholeInv'
  BY <1>4, ExpireBlockIsWhole
<1>5. ASSUME NEW p \in batch, ResolvePosition(p) PROVE WholeInv'
  BY <1>5, ResolvePositionIsWhole
<1>6. ASSUME NEW S \in SUBSET Timers, UpdateDevices(S) PROVE WholeInv'
  BY <1>6, UpdateDevicesIsWhole
<1> QED BY <1>1, <1>2, <1>3, <1>4, <1>5, <1>6, BeginUpdateIsWhole, DispatchRoundIsWhole, OthersAreWhole DEF Next, Update

(***************************************************************************)
(* The theorems.                                                           *)
(***************************************************************************)
\* Among networks nobody passed by, a flood comes to exactly the members of
\* the network it starts in.
LEMMA FoundIsNetwork ==
  ASSUME WholeInv, NEW W \in SUBSET Networks, \A n \in W : MembersOf(n) \cap Waiting = {},
         NEW n \in W, NEW p \in MembersOf(n)
  PROVE  MembersOf(n) = n /\ MembersOf(n) = Found(p, Known(UNION {MembersOf(m) : m \in W}))
<1>1. PICK S : S = UNION {MembersOf(m) : m \in W}
  OBVIOUS
<1>2. PICK node : node = Known(S)
  OBVIOUS
<1>3. \A q \in S : q \in Pos /\ q \in Registered \ Waiting /\ world[q] \in Kind
  BY <1>1, TablesAreTyped DEF MembersOf
<1>4. \A q \in S : node[q] = world[q]
  BY <1>2, <1>3 DEF Known
<1>5. {q \in Pos : node[q] \in Kind} = S
  BY <1>2, <1>3, DataAssumption DEF Known
<1>6. Found(p, node) = Reached(p, S, node)
  BY <1>5 DEF Found
<1>7. MembersOf(n) \subseteq S /\ p \in S /\ S \in SUBSET Pos
  BY <1>1, <1>3
<1>8. /\ p \in Found(p, node) /\ Found(p, node) \subseteq S /\ IsClosed(Found(p, node), S, node)
      /\ \A C : p \in C /\ IsClosed(C \cap S, S, node) => Found(p, node) \subseteq C
  <2>1. /\ p \in Reached(p, S, node) /\ Reached(p, S, node) \subseteq S
        /\ IsClosed(Reached(p, S, node), S, node)
        /\ \A C : p \in C /\ IsClosed(C \cap S, S, node) => Reached(p, S, node) \subseteq C
    BY <1>7, ReachedIsClosure
  <2> QED BY <1>6, <2>1
<1>9. \A q, r \in S : Joins(q, r, node) <=> Joins(q, r, world)
  BY <1>4 DEF Joins
<1>10. Found(p, node) \subseteq MembersOf(n)
  <2>1. ASSUME NEW q \in MembersOf(n), NEW r \in S, Joins(q, r, node) PROVE r \in MembersOf(n)
    <3>1. members[q].network = members[r].network
      BY <1>3, <1>7, <1>9, <2>1 DEF WholeInv, Whereabouts, JoinedShare
    <3> QED BY <1>3, <3>1 DEF MembersOf
  <2>2. IsClosed(MembersOf(n) \cap S, S, node)
    BY <2>1 DEF IsClosed
  <2> QED BY <1>8, <2>2
<1>11. IsClosed(Found(p, node), MembersOf(n), world)
  BY <1>7, <1>8, <1>9 DEF IsClosed
<1>12. Found(p, node) = n
  <2>1. Found(p, node) \cap Waiting = {} /\ Found(p, node) # {}
    BY <1>8, <1>10
  <2> QED BY <1>10, <1>11, <2>1 DEF WholeInv, Whereabouts, RestIsWhole
<1>13. MembersOf(n) \subseteq n
  BY TablesAreTyped
<1> QED BY <1>1, <1>2, <1>10, <1>12, <1>13

LEMMA WholeImplies == WholeInv => NetworksAreWhole
<1> SUFFICES ASSUME WholeInv, phase = "idle", queued = {}
             PROVE  /\ \A p \in Pos : BlockOf[p] \in activated => (IsDevice(p) <=> p \in Registered)
                    /\ \A n \in Whole :
                         /\ \A p \in MembersOf(n) :
                              /\ MembersOf(n) = Found(p, Known(UNION {MembersOf(m) : m \in Whole}))
                              /\ members[p].kind = world[p]
                              /\ members[p].attached =
                                   AttachedTo(p, MembersOf(n), Known(UNION {MembersOf(m) : m \in Whole}))
                         /\ networks[n].updatable = {p \in MembersOf(n) : world[p] \in Updatable}
                         /\ networks[n].receive =
                              UNION {EntriesOf(p, members[p].attached, Input[world[p]]) : p \in MembersOf(n)}
  BY DEF WholeInv, IInv, NetworksAreWhole
<1>1. \A p \in Pos : BlockOf[p] \in activated => (IsDevice(p) <=> p \in Registered)
  BY TablesAreTyped DEF WholeInv, ActiveAreKnown, IsDevice, NodeAt
<1>2. Whole \in SUBSET Networks /\ \A n \in Whole : MembersOf(n) \cap Waiting = {}
  BY DEF Whole, Waiting, WholeInv, PhasesInOrder
<1>3. ASSUME NEW n \in Whole
      PROVE  /\ n = MembersOf(n) /\ n \in Networks /\ n \in SUBSET Pos /\ n \subseteq Registered
             /\ \A p \in n : world[p] \in Kind
  <2>1. n \in Networks /\ MembersOf(n) # {}
    BY <1>2, TablesAreTyped
  <2>2. PICK p : p \in MembersOf(n)
    BY <2>1
  <2>3. MembersOf(n) = n
    BY <1>2, <2>2, FoundIsNetwork
  <2> QED BY <2>1, <2>3, TablesAreTyped DEF MembersOf
<1>4. ASSUME NEW n \in Whole, NEW p \in n
      PROVE  /\ n = Found(p, Known(UNION {MembersOf(m) : m \in Whole}))
             /\ members[p].kind = world[p]
             /\ members[p].attached = AttachedTo(p, n, Known(UNION {MembersOf(m) : m \in Whole}))
  <2>1. PICK S : S = UNION {MembersOf(m) : m \in Whole}
    OBVIOUS
  <2>2. n = Found(p, Known(S))
    BY <1>2, <1>3, <2>1, FoundIsNetwork
  <2>3. members[p].kind = world[p] /\ members[p].attached = AttachedTo(p, n, world)
    BY <1>3 DEF WholeInv, Whereabouts, AsFounded, NamesAreKnown
  <2>4. \A q \in n : world[q] = Known(S)[q] /\ world[q] \in Kind
    BY <1>3, <2>1 DEF Known
  <2>5. AttachedTo(p, n, world) = AttachedTo(p, n, Known(S))
    BY <1>3, <2>4, AttachedDependsOnNodes
  <2> QED BY <2>1, <2>2, <2>3, <2>5
<1>5. ASSUME NEW n \in Whole
      PROVE  /\ networks[n].updatable = {p \in n : world[p] \in Updatable}
             /\ networks[n].receive = UNION {EntriesOf(p, members[p].attached, Input[world[p]]) : p \in n}
  BY <1>3 DEF WholeInv, Whereabouts, AsFounded, EntriesOfAll
<1> QED BY <1>1, <1>3, <1>4, <1>5

\* Whatever is built, dug, loaded and dropped, between updates with nothing
\* queued a network no member of which was passed by is a connected component
\* of the map, each device in it is attached to the buses beside it with the
\* wires they lead to, and listens on exactly the ports it is set to.
THEOREM DataNetworksAreWhole == Spec => []NetworksAreWhole
<1>1. Init => WholeInv
  BY InitIsWhole
<1>2. WholeInv /\ [Next]_vars => WholeInv'
  BY NextIsWhole
<1>3. WholeInv => NetworksAreWhole
  BY WholeImplies
<1> QED BY <1>1, <1>2, <1>3, PTL DEF Spec

\* What was delivered followed the wires, from the first round of an update
\* to its end.
HeardInv == WholeInv /\ (phase = "queue" => heard = {}) /\ PDUsFollowWires

LEMMA HeardStays ==
  ASSUME HeardInv, WholeInv', phase' = phase, heard' = heard, world' = world, missed \subseteq missed'
  PROVE  HeardInv'
BY DEF HeardInv, PDUsFollowWires, AreWired, Shared

LEMMA DispatchFollowsWires ==
  ASSUME HeardInv, WholeInv', DispatchRound
  PROVE  HeardInv'
<1>1. phase = "networks" /\ current \in Networks /\ world' = world /\ missed' = missed /\ WholeInv
  BY DEF DispatchRound, mapvars, HeardInv, WholeInv, PhasesInOrder
<1>2. CASE missed # {}
  BY <1>1, <1>2 DEF HeardInv, PDUsFollowWires, DispatchRound
<1>3. CASE missed = {}
  <2>1. MembersOf(current) = current
    BY <1>1, <1>3, AllAreWhole
  <2>2. \A d \in Deliveries(current) :
           /\ d[2][4] \in DOMAIN members[d[2][3]].attached
           /\ AreWired(d[1][3], d[1][4], d[2][3], d[2][4])
           /\ d[1][2] \in Shared(d[1][3], d[1][4], d[2][3], d[2][4])
    BY <1>1, <2>1, DeliveriesAreSafe
  <2>3. heard' = Deliveries(current) /\ phase' = phase
    BY <2>2 DEF DispatchRound
  <2>4. \A d \in heard' :
           /\ AreWired(d[1][3], d[1][4], d[2][3], d[2][4])'
           /\ (d[1][2] \in Shared(d[1][3], d[1][4], d[2][3], d[2][4]))'
    BY <1>1, <2>2, <2>3 DEF AreWired, Shared
  <2> QED BY <1>1, <2>3, <2>4 DEF HeardInv, PDUsFollowWires
<1> QED BY <1>2, <1>3

LEMMA NextFollowsWires == HeardInv /\ [Next]_vars => HeardInv'
<1> SUFFICES ASSUME HeardInv, [Next]_vars PROVE HeardInv'
  OBVIOUS
<1>1. WholeInv /\ WholeInv'
  BY NextIsWhole DEF HeardInv
<1>2. CASE phase' # "networks" /\ phase' # "crashed" /\ phase' # "queue"
  BY <1>1, <1>2 DEF HeardInv, PDUsFollowWires
<1>3. CASE BeginUpdate
  BY <1>1, <1>3 DEF HeardInv, PDUsFollowWires, BeginUpdate
<1>4. ASSUME NEW p \in batch, ResolvePosition(p) PROVE HeardInv'
  BY <1>1, <1>4 DEF HeardInv, PDUsFollowWires, ResolvePosition
<1>5. CASE BeginNetworks
  BY <1>1, <1>5 DEF HeardInv, PDUsFollowWires, BeginNetworks
<1>6. ASSUME NEW n \in due, BeginDispatch(n) PROVE HeardInv'
  BY <1>1, <1>6, HeardStays DEF BeginDispatch, mapvars
<1>7. CASE DispatchRound
  BY <1>1, <1>7, DispatchFollowsWires
<1>8. ASSUME NEW senders, UpdateDevices(senders) PROVE HeardInv'
  <2>1. CASE phase' = phase
    BY <1>1, <1>8, <2>1, HeardStays DEF UpdateDevices, mapvars
  <2>2. CASE phase' = "crashed"
    BY <1>1, <2>2 DEF HeardInv, PDUsFollowWires, WholeInv, PhasesInOrder
  <2> QED BY <1>8, <2>1, <2>2 DEF UpdateDevices
<1>9. CASE UNCHANGED vars
  BY <1>1, <1>9, HeardStays DEF vars, mapvars
<1>10. CASE phase = "idle" /\ phase' = phase
  BY <1>2, <1>10
<1> QED BY <1>2, <1>3, <1>4, <1>5, <1>6, <1>7, <1>8, <1>9, <1>10
        DEF Next, Update, EndUpdate, PlaceNode, DigNode, UnloadBlock, LoadBlock, ActivateBlock, ExpireBlock, IsActive

\* A value goes only from a device to one that wires lead to, on a port of
\* both, and handing it over never stops the server, unless a refresh passed
\* by a member that was not in memory.
THEOREM PDUsAlwaysFollowWires == Spec => []PDUsFollowWires
<1>1. Init => HeardInv
  BY InitIsWhole DEF Init, HeardInv, PDUsFollowWires
<1>2. HeardInv /\ [Next]_vars => HeardInv'
  BY NextFollowsWires
<1>3. HeardInv => PDUsFollowWires
  BY DEF HeardInv
<1> QED BY <1>1, <1>2, <1>3, PTL DEF Spec
=============================================================================
