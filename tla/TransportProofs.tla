--------------------------- MODULE TransportProofs ---------------------------
(***************************************************************************)
(* For any finite map, blocks, kinds of nodes and connections: the tables  *)
(* of the generic transport network agree after any sequence of calls, its *)
(* networks settle on the connected parts of the map, and a fluid network  *)
(* is one: its steps are steps of the generic network or none.  Fluid      *)
(* follows the pipes and is kept.                                          *)
(***************************************************************************)
EXTENDS FluidTransport, FiniteProofs

(***************************************************************************)
(* What TablesAgree says of the tables g, position by position.            *)
(***************************************************************************)
MembersAgree(g) ==
  /\ DOMAIN g.members \subseteq Pos /\ g.members \in [DOMAIN g.members -> Member]
  /\ g.by_type \in [DeviceType -> SUBSET Pos]
  /\ g.block_members \in [Block -> SUBSET Pos]
  /\ \A y \in DeviceType, p \in Pos :
       p \in g.by_type[y] <=> p \in DOMAIN g.members /\ TypeOf[g.members[p].name] = y
  /\ \A b \in Block, p \in Pos :
       p \in g.block_members[b] <=> p \in DOMAIN g.members /\ BlockOf[p] = b

AreNetworks(N) ==
  /\ DOMAIN N \subseteq NetworkId /\ N = [n \in DOMAIN N |-> N[n]]
  /\ \A n \in DOMAIN N : IsNetwork(N[n])

\* A member of the table M is in the tables of its network.
NetworksAgree(N, M) ==
  /\ AreNetworks(N)
  /\ \A n \in DOMAIN N, p \in Pos :
       /\ p \in N[n].members <=> p \in DOMAIN M /\ M[p].network = n
       /\ \A y \in DOMAIN N[n].by_type :
            p \in N[n].by_type[y] <=>
              p \in DOMAIN M /\ M[p].network = n /\ TypeOf[M[p].name] = y
       /\ p \in DOMAIN M /\ M[p].network = n => TypeOf[M[p].name] \in DOMAIN N[n].by_type
  /\ \A p \in DOMAIN M : M[p].network \in DOMAIN N \cup {Nil}

Agree(g) ==
  /\ g = [members |-> g.members, by_type |-> g.by_type, block_members |-> g.block_members,
          networks |-> g.networks, queue |-> g.queue]
  /\ g.queue \subseteq Pos
  /\ MembersAgree(g)
  /\ NetworksAgree(g.networks, g.members)

Watched == \A p \in Registered : BlockOf[p] \in marked

LEMMA AgreeIsTablesAgree == TablesAgree <=> Agree(gtn) /\ Watched
<1>1. ASSUME TablesAgree PROVE Agree(gtn) /\ Watched
  <2>1. MembersAgree(gtn)
    BY <1>1 DEF TablesAgree, IsTables, MembersAgree, OfType, DeviceTypeOf, Registered
  <2>2. AreNetworks(gtn.networks)
    BY <1>1 DEF TablesAgree, IsTables, AreNetworks
  <2>3. ASSUME NEW n \in Networks, NEW p \in Pos
        PROVE  /\ p \in gtn.networks[n].members <=> p \in Registered /\ gtn.members[p].network = n
               /\ \A y \in DOMAIN gtn.networks[n].by_type :
                    p \in gtn.networks[n].by_type[y] <=>
                      /\ p \in Registered /\ gtn.members[p].network = n
                      /\ TypeOf[gtn.members[p].name] = y
               /\ p \in Registered /\ gtn.members[p].network = n
                    => TypeOf[gtn.members[p].name] \in DOMAIN gtn.networks[n].by_type
    <3>1. DOMAIN gtn.networks[n].by_type \subseteq DeviceType
      BY <2>2, <2>3 DEF AreNetworks, IsNetwork, Networks
    <3>2. p \in Registered => TypeOf[gtn.members[p].name] \in DeviceType
      BY <2>1, TransportAssumption DEF MembersAgree, Member, Registered
    <3> QED BY <1>1, <3>1, <3>2 DEF TablesAgree, OfType, MembersOf, DeviceTypeOf
  <2> QED BY <1>1, <2>1, <2>2, <2>3
          DEF TablesAgree, IsTables, Agree, NetworksAgree, Watched, Registered, Networks
<1>2. ASSUME Agree(gtn), Watched PROVE TablesAgree
  <2>1. IsTables(gtn)
    BY <1>2 DEF Agree, MembersAgree, NetworksAgree, AreNetworks, IsTables
  <2>2. Registered \subseteq Pos /\ \A p \in Registered : TypeOf[gtn.members[p].name] \in DeviceType
    BY <1>2, TransportAssumption DEF Agree, MembersAgree, Member, Registered
  <2>3. \A y \in DeviceType : gtn.by_type[y] = OfType(Registered, y)
    BY <1>2, <2>2 DEF Agree, MembersAgree, OfType, DeviceTypeOf, Registered
  <2>4. \A b \in Block : gtn.block_members[b] = {p \in Registered : BlockOf[p] = b}
    BY <1>2, <2>2 DEF Agree, MembersAgree, Registered
  <2>5. ASSUME NEW n \in Networks
        PROVE  /\ gtn.networks[n].members = MembersOf(n)
               /\ \A y \in DeviceType :
                    IF y \in DOMAIN gtn.networks[n].by_type
                      THEN gtn.networks[n].by_type[y] = OfType(MembersOf(n), y)
                      ELSE OfType(MembersOf(n), y) = {}
    <3>1. IsNetwork(gtn.networks[n])
      BY <1>2 DEF Agree, NetworksAgree, AreNetworks, Networks
    <3>2. gtn.networks[n].members = MembersOf(n)
      BY <1>2, <2>2, <3>1 DEF Agree, NetworksAgree, IsNetwork, MembersOf, Registered, Networks
    <3>3. ASSUME NEW y \in DOMAIN gtn.networks[n].by_type
          PROVE  gtn.networks[n].by_type[y] = OfType(MembersOf(n), y)
      BY <1>2, <2>2, <3>1
      DEF Agree, NetworksAgree, IsNetwork, OfType, MembersOf, DeviceTypeOf, Registered, Networks
    <3>4. ASSUME NEW y \in DeviceType, y \notin DOMAIN gtn.networks[n].by_type
          PROVE  OfType(MembersOf(n), y) = {}
      BY <1>2, <2>2, <3>4
      DEF Agree, NetworksAgree, OfType, MembersOf, DeviceTypeOf, Registered, Networks
    <3> QED BY <3>2, <3>3, <3>4
  <2> QED BY <1>2, <2>1, <2>3, <2>4, <2>5
          DEF TablesAgree, Agree, NetworksAgree, Watched, Registered, Networks
<1> QED BY <1>1, <1>2

(***************************************************************************)
(* The networks after records were taken out of them.                      *)
(***************************************************************************)
LeftBehind(N, S) ==
  /\ AreNetworks(N) /\ DOMAIN N \subseteq Networks
  /\ \A n \in DOMAIN N, p \in Pos :
       /\ p \in N[n].members <=> p \in gtn.networks[n].members /\ p \notin S
       /\ \A y \in DOMAIN N[n].by_type :
            /\ y \in DOMAIN gtn.networks[n].by_type
            /\ p \in N[n].by_type[y] <=> p \in gtn.networks[n].by_type[y] /\ p \notin S
       /\ \A y \in DOMAIN gtn.networks[n].by_type \ DOMAIN N[n].by_type :
            p \in gtn.networks[n].by_type[y] => p \in S
  /\ \A n \in Networks \ DOMAIN N : gtn.networks[n].members \subseteq S

\* gc_networks drops networks that have nothing left.
LEMMA CollectedNetworks ==
  ASSUME NEW N, NEW S, DOMAIN N = Networks, AreNetworks(N),
         \A n \in Networks, p \in Pos :
           /\ p \in N[n].members <=> p \in gtn.networks[n].members /\ p \notin S
           /\ \A y \in DOMAIN N[n].by_type :
                /\ y \in DOMAIN gtn.networks[n].by_type
                /\ p \in N[n].by_type[y] <=> p \in gtn.networks[n].by_type[y] /\ p \notin S
           /\ \A y \in DOMAIN gtn.networks[n].by_type \ DOMAIN N[n].by_type :
                p \in gtn.networks[n].by_type[y] => p \in S,
         AreNetworks(gtn.networks)
  PROVE  LeftBehind(GcNetworks(N), S)
<1> DEFINE G == GcNetworks(N)
<1>1. DOMAIN G = {n \in Networks : N[n].members # {}} /\ \A n \in DOMAIN G : G[n] = N[n]
  BY DEF GcNetworks, Restrict
<1>2. AreNetworks(G)
  BY <1>1 DEF AreNetworks, GcNetworks, Restrict
<1>3. \A n \in Networks \ DOMAIN G : gtn.networks[n].members \subseteq S
  <2> SUFFICES ASSUME NEW n \in Networks, N[n].members = {}
               PROVE  gtn.networks[n].members \subseteq S
    BY <1>1
  <2>1. gtn.networks[n].members \subseteq Pos
    BY DEF AreNetworks, IsNetwork, Networks
  <2> QED BY <2>1
<1> QED BY <1>1, <1>2, <1>3 DEF LeftBehind

LEMMA LeaveNetworksIsExact ==
  ASSUME Agree(gtn), NEW S \in SUBSET Registered
  PROVE  LeftBehind(LeaveNetworks(S), S)
<1> DEFINE mine(n) == S \cap MembersOf(n)
           left(n) == [members |-> gtn.networks[n].members \ mine(n),
                       by_type |-> [y \in DOMAIN gtn.networks[n].by_type |->
                                      gtn.networks[n].by_type[y] \ OfType(mine(n), y)]]
           N == [n \in Networks |-> left(n)]
<1>1. AreNetworks(gtn.networks) /\ Registered \subseteq Pos
  BY DEF Agree, NetworksAgree, MembersAgree, Registered
<1>2. ASSUME NEW n \in Networks PROVE IsNetwork(left(n))
  BY <1>1 DEF AreNetworks, IsNetwork, Networks
<1>3. AreNetworks(N)
  BY <1>1, <1>2 DEF AreNetworks, Networks
<1>4. ASSUME NEW n \in Networks, NEW p \in Pos
      PROVE  /\ p \in left(n).members <=> p \in gtn.networks[n].members /\ p \notin S
             /\ \A y \in DOMAIN left(n).by_type :
                  /\ y \in DOMAIN gtn.networks[n].by_type
                  /\ p \in left(n).by_type[y] <=> p \in gtn.networks[n].by_type[y] /\ p \notin S
             /\ \A y \in DOMAIN gtn.networks[n].by_type \ DOMAIN left(n).by_type :
                  p \in gtn.networks[n].by_type[y] => p \in S
  BY <1>1 DEF Agree, NetworksAgree, MembersOf, OfType, DeviceTypeOf, Registered, Networks
<1>5. LeaveNetworks(S) = GcNetworks(N)
  BY DEF LeaveNetworks
<1> HIDE DEF N
<1>6. DOMAIN N = Networks /\ \A n \in Networks : N[n] = left(n)
  BY DEF N
<1> HIDE DEF left
<1>7. \A n \in Networks, p \in Pos :
        /\ p \in N[n].members <=> p \in gtn.networks[n].members /\ p \notin S
        /\ \A y \in DOMAIN N[n].by_type :
             /\ y \in DOMAIN gtn.networks[n].by_type
             /\ p \in N[n].by_type[y] <=> p \in gtn.networks[n].by_type[y] /\ p \notin S
        /\ \A y \in DOMAIN gtn.networks[n].by_type \ DOMAIN N[n].by_type :
             p \in gtn.networks[n].by_type[y] => p \in S
  BY <1>4, <1>6
<1> QED BY <1>1, <1>3, <1>5, <1>6, <1>7, CollectedNetworks

LEMMA MoveOutIsExact ==
  ASSUME Agree(gtn), NEW S \in SUBSET Registered
  PROVE  LeftBehind(MoveOut(S), S)
<1> DEFINE mine(n) == S \cap MembersOf(n)
           old(n)  == gtn.networks[n].by_type
           kept(n) == {y \in DOMAIN old(n) : OfType(mine(n), y) = {} \/ old(n)[y] \ OfType(mine(n), y) # {}}
           left(n) == [members |-> gtn.networks[n].members \ mine(n),
                       by_type |-> [y \in kept(n) |-> old(n)[y] \ OfType(mine(n), y)]]
           N == [n \in Networks |-> left(n)]
<1>1. AreNetworks(gtn.networks) /\ Registered \subseteq Pos
  BY DEF Agree, NetworksAgree, MembersAgree, Registered
<1>2. ASSUME NEW n \in Networks PROVE IsNetwork(left(n))
  BY <1>1 DEF AreNetworks, IsNetwork, Networks
<1>3. AreNetworks(N)
  BY <1>1, <1>2 DEF AreNetworks, Networks
<1>4. ASSUME NEW n \in Networks, NEW p \in Pos
      PROVE  /\ p \in left(n).members <=> p \in gtn.networks[n].members /\ p \notin S
             /\ \A y \in DOMAIN left(n).by_type :
                  /\ y \in DOMAIN gtn.networks[n].by_type
                  /\ p \in left(n).by_type[y] <=> p \in gtn.networks[n].by_type[y] /\ p \notin S
             /\ \A y \in DOMAIN gtn.networks[n].by_type \ DOMAIN left(n).by_type :
                  p \in gtn.networks[n].by_type[y] => p \in S
  BY <1>1 DEF Agree, NetworksAgree, MembersOf, OfType, DeviceTypeOf, Registered, Networks
<1>5. MoveOut(S) = GcNetworks(N)
  BY DEF MoveOut
<1> HIDE DEF N
<1>6. DOMAIN N = Networks /\ \A n \in Networks : N[n] = left(n)
  BY DEF N
<1> HIDE DEF left
<1>7. \A n \in Networks, p \in Pos :
        /\ p \in N[n].members <=> p \in gtn.networks[n].members /\ p \notin S
        /\ \A y \in DOMAIN N[n].by_type :
             /\ y \in DOMAIN gtn.networks[n].by_type
             /\ p \in N[n].by_type[y] <=> p \in gtn.networks[n].by_type[y] /\ p \notin S
        /\ \A y \in DOMAIN gtn.networks[n].by_type \ DOMAIN N[n].by_type :
             p \in gtn.networks[n].by_type[y] => p \in S
  BY <1>4, <1>6
<1> QED BY <1>1, <1>3, <1>5, <1>6, <1>7, CollectedNetworks

\* The networks agree with a table of members in which the records of S are
\* gone or belong to none.
LEMMA LeftBehindAgrees ==
  ASSUME Agree(gtn), NEW S \in SUBSET Pos, NEW N, LeftBehind(N, S), NEW M,
         DOMAIN M \subseteq Pos,
         \A p \in Pos \ S : /\ p \in DOMAIN M <=> p \in Registered
                            /\ p \in DOMAIN M => M[p] = gtn.members[p],
         \A p \in DOMAIN M \cap S : M[p].network = Nil
  PROVE  NetworksAgree(N, M)
<1>1. Nil \notin DOMAIN N
  BY TransportAssumption DEF LeftBehind, AreNetworks
<1>2. ASSUME NEW n \in DOMAIN N, NEW p \in Pos
      PROVE  /\ p \in N[n].members <=> p \in DOMAIN M /\ M[p].network = n
             /\ \A y \in DOMAIN N[n].by_type :
                  p \in N[n].by_type[y] <=>
                    p \in DOMAIN M /\ M[p].network = n /\ TypeOf[M[p].name] = y
             /\ p \in DOMAIN M /\ M[p].network = n => TypeOf[M[p].name] \in DOMAIN N[n].by_type
  <2>1. CASE p \in S
    BY <1>1, <2>1 DEF LeftBehind
  <2>2. CASE p \notin S
    BY <2>2 DEF LeftBehind, Agree, NetworksAgree, Registered, Networks
  <2> QED BY <2>1, <2>2
<1>3. ASSUME NEW p \in DOMAIN M PROVE M[p].network \in DOMAIN N \cup {Nil}
  BY DEF LeftBehind, Agree, NetworksAgree, Registered, Networks
<1> QED BY <1>2, <1>3 DEF NetworksAgree, LeftBehind

(***************************************************************************)
(* The three operations on the tables.                                     *)
(***************************************************************************)
LEMMA AdjacentArePositions ==
  ASSUME NEW S \in SUBSET Pos
  PROVE  QueueAllAdjacent(S) \subseteq Pos
BY TransportAssumption DEF QueueAllAdjacent

LEMMA UnregisterAgrees ==
  ASSUME Agree(gtn), NEW S \in SUBSET Pos
  PROVE  Agree(Unregister(S)) /\ DOMAIN Unregister(S).members = Registered \ S
<1> DEFINE gone == S \cap Registered
           g == Unregister(S)
<1>1. /\ DOMAIN g.members = Registered \ S
      /\ \A p \in DOMAIN g.members : g.members[p] = gtn.members[p]
      /\ g.members \in [Registered \ S -> Member]
  BY DEF Unregister, Restrict, Agree, MembersAgree, Registered
<1>2. MembersAgree(g)
  <2>1. Registered \subseteq Pos /\ \A p \in Registered : gtn.members[p].name \in Kind
    BY DEF Agree, MembersAgree, Member, Registered
  <2>2. g.by_type = [y \in DeviceType |-> gtn.by_type[y] \ OfType(gone, y)]
    BY DEF Unregister
  <2>3. g.block_members = [b \in Block |-> gtn.block_members[b] \ {p \in gone : BlockOf[p] = b}]
    BY DEF Unregister
  <2>4. ASSUME NEW y \in DeviceType, NEW p \in Pos
        PROVE  p \in g.by_type[y] <=> p \in DOMAIN g.members /\ TypeOf[g.members[p].name] = y
    BY <1>1, <2>2 DEF Agree, MembersAgree, OfType, DeviceTypeOf, Registered
  <2>5. ASSUME NEW b \in Block, NEW p \in Pos
        PROVE  p \in g.block_members[b] <=> p \in DOMAIN g.members /\ BlockOf[p] = b
    BY <1>1, <2>3 DEF Agree, MembersAgree, Registered
  <2>6. g.by_type \in [DeviceType -> SUBSET Pos] /\ g.block_members \in [Block -> SUBSET Pos]
    BY <2>2, <2>3 DEF Agree, MembersAgree
  <2> QED BY <1>1, <2>1, <2>4, <2>5, <2>6 DEF MembersAgree
<1>3. NetworksAgree(g.networks, g.members)
  <2>1. gone \in SUBSET Registered /\ gone \in SUBSET Pos
    OBVIOUS
  <2>2. g.networks = LeaveNetworks(gone)
    BY DEF Unregister
  <2>3. LeftBehind(g.networks, gone)
    BY <2>1, <2>2, LeaveNetworksIsExact
  <2>4. /\ DOMAIN g.members \subseteq Pos
        /\ \A p \in Pos \ gone : /\ p \in DOMAIN g.members <=> p \in Registered
                                 /\ p \in DOMAIN g.members => g.members[p] = gtn.members[p]
        /\ DOMAIN g.members \cap gone = {}
    BY <1>1 DEF Agree, MembersAgree, Registered
  <2> HIDE DEF g, gone
  <2> QED BY <2>1, <2>3, <2>4, LeftBehindAgrees
<1>4. g.queue \subseteq Pos
  BY AdjacentArePositions DEF Unregister, Agree
<1>5. g = [members |-> g.members, by_type |-> g.by_type, block_members |-> g.block_members,
           networks |-> g.networks, queue |-> g.queue]
  BY DEF Unregister
<1> QED BY <1>1, <1>2, <1>3, <1>4, <1>5 DEF Agree

LEMMA UpdateAgrees ==
  ASSUME Agree(gtn), NEW S \in SUBSET Pos, NEW node, \A p \in S : node[p] \in Kind
  PROVE  Agree(Update(S, node)) /\ DOMAIN Update(S, node).members = Registered \cup S
<1> DEFINE old == S \cap Registered
           g == Update(S, node)
<1>1. /\ DOMAIN g.members = Registered \cup S
      /\ \A p \in S : g.members[p].name = node[p] /\ g.members[p].network = Nil
      /\ \A p \in Registered \ S : g.members[p] = gtn.members[p]
  BY DEF Update
<1>2. Registered \subseteq Pos /\ \A p \in Registered : gtn.members[p] \in Member
  BY DEF Agree, MembersAgree, Registered
<1>3. g.members \in [Registered \cup S -> Member]
  <2>1. g.members = [p \in Registered \cup S |->
                       IF p \in S THEN [name |-> node[p], network |-> Nil] ELSE gtn.members[p]]
    BY DEF Update
  <2> QED BY <1>2, <2>1 DEF Member
<1>4. MembersAgree(g)
  <2>1. g.by_type = [y \in DeviceType |->
                       (gtn.by_type[y] \ OfType(old, y)) \cup {p \in S : TypeOf[node[p]] = y}]
    BY DEF Update
  <2>2. g.block_members = [b \in Block |-> gtn.block_members[b] \cup {p \in S : BlockOf[p] = b}]
    BY DEF Update
  <2>3. ASSUME NEW y \in DeviceType, NEW p \in Pos
        PROVE  p \in g.by_type[y] <=> p \in DOMAIN g.members /\ TypeOf[g.members[p].name] = y
    <3>1. p \in gtn.by_type[y] <=> p \in Registered /\ TypeOf[gtn.members[p].name] = y
      BY DEF Agree, MembersAgree, Registered
    <3>2. p \in g.by_type[y] <=> \/ p \in gtn.by_type[y] /\ p \notin OfType(old, y)
                                 \/ p \in S /\ TypeOf[node[p]] = y
      BY <2>1
    <3>3. p \in OfType(old, y) <=> p \in S /\ p \in Registered /\ TypeOf[gtn.members[p].name] = y
      BY DEF OfType, DeviceTypeOf
    <3> HIDE DEF g
    <3> QED BY <1>1, <3>1, <3>2, <3>3
  <2>4. ASSUME NEW b \in Block, NEW p \in Pos
        PROVE  p \in g.block_members[b] <=> p \in DOMAIN g.members /\ BlockOf[p] = b
    BY <1>1, <2>2 DEF Agree, MembersAgree, Registered
  <2>5. g.by_type \in [DeviceType -> SUBSET Pos] /\ g.block_members \in [Block -> SUBSET Pos]
    BY <2>1, <2>2 DEF Agree, MembersAgree
  <2> QED BY <1>1, <1>2, <1>3, <2>3, <2>4, <2>5 DEF MembersAgree
<1>5. NetworksAgree(g.networks, g.members)
  <2>1. old \in SUBSET Registered
    OBVIOUS
  <2>2. g.networks = LeaveNetworks(old)
    BY DEF Update
  <2>3. LeftBehind(g.networks, old)
    BY <2>1, <2>2, LeaveNetworksIsExact
  <2>4. LeftBehind(g.networks, S)
    <3>1. /\ \A n \in Networks : gtn.networks[n].members \subseteq Registered
          /\ \A n \in Networks : \A y \in DOMAIN gtn.networks[n].by_type :
               gtn.networks[n].by_type[y] \subseteq Registered
      BY DEF Agree, NetworksAgree, AreNetworks, IsNetwork, Registered, Networks
    <3> HIDE DEF g
    <3> QED BY <2>3, <3>1 DEF LeftBehind
  <2>5. /\ DOMAIN g.members \subseteq Pos
        /\ \A p \in Pos \ S : /\ p \in DOMAIN g.members <=> p \in Registered
                              /\ p \in DOMAIN g.members => g.members[p] = gtn.members[p]
        /\ \A p \in DOMAIN g.members \cap S : g.members[p].network = Nil
    <3> HIDE DEF g
    <3> QED BY <1>1, <1>2
  <2> HIDE DEF g
  <2> QED BY <2>4, <2>5, LeftBehindAgrees
<1>6. g.queue \subseteq Pos
  BY AdjacentArePositions DEF Update, Agree
<1>7. g = [members |-> g.members, by_type |-> g.by_type, block_members |-> g.block_members,
           networks |-> g.networks, queue |-> g.queue]
  BY DEF Update
<1> QED BY <1>1, <1>2, <1>3, <1>4, <1>5, <1>6, <1>7 DEF Agree

LEMMA RegroupAgrees ==
  ASSUME Agree(gtn), NEW S \in SUBSET Registered, NEW id, IsNewId(id, S)
  PROVE  Agree(Regroup(S, id)) /\ DOMAIN Regroup(S, id).members = Registered
<1> DEFINE g == Regroup(S, id)
           new == [members |-> S, by_type |-> [y \in {DeviceTypeOf(p) : p \in S} |-> OfType(S, y)]]
           N == [n \in DOMAIN MoveOut(S) \cup {id} |-> IF n = id THEN new ELSE MoveOut(S)[n]]
<1>1. /\ Registered \subseteq Pos
      /\ gtn.members \in [Registered -> Member]
      /\ id \in NetworkId /\ id \notin DOMAIN MoveOut(S)
  <2>1. Registered \subseteq Pos /\ gtn.members \in [Registered -> Member]
    BY DEF Agree, MembersAgree, Registered
  <2>2. S \in SUBSET Pos
    BY <2>1
  <2> QED BY <2>1, <2>2, TransportAssumption DEF IsNewId
<1>2. g.members = [p \in Registered |-> IF p \in S THEN [gtn.members[p] EXCEPT !.network = id]
                                                    ELSE gtn.members[p]]
  BY DEF Regroup, Agree
<1>3. /\ g.by_type = gtn.by_type /\ g.block_members = gtn.block_members /\ g.queue = gtn.queue
      /\ g.networks = GcNetworks(N)
      /\ g = [members |-> g.members, by_type |-> g.by_type, block_members |-> g.block_members,
              networks |-> g.networks, queue |-> g.queue]
  <2>1. gtn = [members |-> gtn.members, by_type |-> gtn.by_type, queue |-> gtn.queue,
               block_members |-> gtn.block_members, networks |-> gtn.networks]
    BY DEF Agree
  <2>2. g = [gtn EXCEPT !.members = g.members, !.networks = GcNetworks(N)]
    BY <2>1 DEF Regroup
  <2> HIDE DEF g, N
  <2> QED BY <2>1, <2>2
<1>4. /\ DOMAIN g.members = Registered
      /\ \A p \in Registered : g.members[p] \in Member /\ g.members[p].name = gtn.members[p].name
      /\ \A p \in S : g.members[p].network = id
      /\ \A p \in Registered \ S : g.members[p] = gtn.members[p]
  BY <1>1, <1>2 DEF Member
<1>5. MembersAgree(g)
  <2>1. g.members \in [Registered -> Member]
    BY <1>2, <1>4
  <2> HIDE DEF g
  <2> QED BY <1>1, <1>3, <1>4, <2>1 DEF Agree, MembersAgree, Registered
<1>6. LeftBehind(MoveOut(S), S)
  BY MoveOutIsExact
<1>7. IsNetwork(new)
  <2>1. \A p \in S : DeviceTypeOf(p) \in DeviceType
    BY <1>1, TransportAssumption DEF DeviceTypeOf, Member
  <2> QED BY <1>1, <2>1 DEF IsNetwork, OfType
<1>8. /\ DOMAIN g.networks = {n \in DOMAIN N : N[n].members # {}}
      /\ \A n \in DOMAIN g.networks : g.networks[n] = N[n]
      /\ g.networks = [n \in DOMAIN g.networks |-> g.networks[n]]
  BY <1>3 DEF GcNetworks, Restrict
<1>9. /\ DOMAIN N = DOMAIN MoveOut(S) \cup {id} /\ N[id] = new
      /\ \A n \in DOMAIN MoveOut(S) : N[n] = MoveOut(S)[n]
  BY <1>1
<1>10. ASSUME NEW p \in Registered \ S PROVE gtn.members[p].network # id
  <2>1. id # Nil
    BY <1>1, TransportAssumption
  <2>2. CASE id \in Networks
    <3>1. gtn.networks[id].members \subseteq S
      BY <1>1, <1>6, <2>2 DEF LeftBehind
    <3>2. gtn.members[p].network = id => p \in gtn.networks[id].members
      BY <1>1, <2>2 DEF Agree, NetworksAgree, Registered, Networks
    <3> QED BY <3>1, <3>2
  <2>3. CASE id \notin Networks
    BY <2>1, <2>3 DEF Agree, NetworksAgree, Registered, Networks
  <2> QED BY <2>2, <2>3
<1> HIDE DEF g, N
<1>11. AreNetworks(g.networks)
  BY <1>1, <1>6, <1>7, <1>8, <1>9 DEF LeftBehind, AreNetworks
<1>12. ASSUME NEW n \in DOMAIN g.networks, NEW p \in Pos
       PROVE  /\ p \in g.networks[n].members <=> p \in DOMAIN g.members /\ g.members[p].network = n
              /\ \A y \in DOMAIN g.networks[n].by_type :
                   p \in g.networks[n].by_type[y] <=>
                     /\ p \in DOMAIN g.members /\ g.members[p].network = n
                     /\ TypeOf[g.members[p].name] = y
              /\ p \in DOMAIN g.members /\ g.members[p].network = n
                   => TypeOf[g.members[p].name] \in DOMAIN g.networks[n].by_type
  <2>1. CASE n = id
    <3>1. g.networks[n] = new
      BY <1>8, <1>9, <2>1
    <3>2. p \in S <=> p \in DOMAIN g.members /\ g.members[p].network = n
      BY <1>4, <1>10, <2>1
    <3> QED BY <1>4, <3>1, <3>2 DEF OfType, DeviceTypeOf
  <2>2. CASE n # id
    <3>1. n \in DOMAIN MoveOut(S) /\ g.networks[n] = MoveOut(S)[n]
      BY <1>8, <1>9, <2>2
    <3>2. n \in Networks
      BY <1>6, <3>1 DEF LeftBehind
    <3>3. CASE p \in S
      BY <1>4, <1>6, <2>2, <3>1, <3>3 DEF LeftBehind
    <3>4. CASE p \notin S
      BY <1>4, <1>6, <3>1, <3>2, <3>4 DEF LeftBehind, Agree, NetworksAgree, Registered, Networks
    <3> QED BY <3>3, <3>4
  <2> QED BY <2>1, <2>2
<1>13. ASSUME NEW p \in DOMAIN g.members PROVE g.members[p].network \in DOMAIN g.networks \cup {Nil}
  <2>1. CASE p \in S
    BY <1>4, <1>8, <1>9, <2>1
  <2>2. CASE p \notin S
    <3>1. p \in Pos /\ p \in Registered /\ g.members[p].network = gtn.members[p].network
      BY <1>1, <1>4, <2>2
    <3>2. ASSUME gtn.members[p].network # Nil PROVE gtn.members[p].network \in DOMAIN g.networks
      <4> DEFINE n == gtn.members[p].network
      <4>1. n \in Networks /\ p \in gtn.networks[n].members
        BY <3>1, <3>2 DEF Agree, NetworksAgree, Registered, Networks
      <4>2. n \in DOMAIN MoveOut(S) /\ p \in MoveOut(S)[n].members
        BY <1>6, <2>2, <3>1, <4>1 DEF LeftBehind
      <4> QED BY <1>8, <1>9, <4>2
    <3> QED BY <3>1, <3>2
  <2> QED BY <2>1, <2>2
<1>14. NetworksAgree(g.networks, g.members)
  BY <1>11, <1>12, <1>13 DEF NetworksAgree
<1> QED BY <1>3, <1>4, <1>5, <1>14 DEF Agree, g

(***************************************************************************)
(* The inductive invariant.  The networks that are due exist: nothing but  *)
(* update itself runs between BeginNetworks and EndUpdate.                 *)
(***************************************************************************)
Inv ==
  /\ Agree(gtn) /\ Watched
  /\ world \in [Pos -> Kind \cup {Air}]
  /\ due \subseteq Networks /\ (phase # "networks" => due = {})

LEMMA InitInv == Init => Inv
BY TransportAssumption
DEF Init, Inv, Agree, MembersAgree, NetworksAgree, AreNetworks, Watched, Registered, Networks, Empty

\* A device is a registered kind of node.
LEMMA DevicesAreKinds ==
  ASSUME NEW p, IsDevice(p)
  PROVE  world[p] \in Kind
BY TransportAssumption DEF IsDevice, NodeAt

LEMMA EnvironmentInv ==
  ASSUME Inv, Environment
  PROVE  Inv'
<1> USE DEF Inv
<1>1. ASSUME NEW p \in Pos, NEW k \in Kind, PlaceNode(p, k) \/ SwitchValve(p, k) PROVE Inv'
  <2>1. /\ world' = [world EXCEPT ![p] = k] /\ gtn' = Update({p}, world')
        /\ marked' = marked \cup {BlockOf[p]}
        /\ phase = "idle" /\ phase' = "idle" /\ due' = due
    BY <1>1 DEF PlaceNode, SwitchValve, IsActive, Mark
  <2>2. \A q \in {p} : world'[q] \in Kind
    BY <2>1
  <2>3. Agree(gtn') /\ DOMAIN gtn'.members = Registered \cup {p}
    BY <2>1, <2>2, UpdateAgrees
  <2>4. Watched'
    BY <2>1, <2>3 DEF Watched, Registered
  <2> QED BY <2>1, <2>3, <2>4
<1>2. ASSUME NEW p \in Pos, DigNode(p) PROVE Inv'
  <2>1. /\ world' = [world EXCEPT ![p] = Air] /\ gtn' = Unregister({p})
        /\ marked' = marked
        /\ phase = "idle" /\ phase' = "idle" /\ due' = due
    BY <1>2 DEF DigNode, IsActive
  <2>2. Agree(gtn') /\ DOMAIN gtn'.members = Registered \ {p}
    BY <2>1, UnregisterAgrees
  <2>3. Watched'
    BY <2>1, <2>2 DEF Watched, Registered
  <2> QED BY <2>1, <2>2, <2>3
<1>3. ASSUME NEW b \in Block, UnloadBlock(b) \/ LoadBlock(b) PROVE Inv'
  BY <1>3 DEF UnloadBlock, LoadBlock, Watched, Registered, Networks
<1>4. ASSUME NEW b \in Block, ActivateBlock(b) PROVE Inv'
  <2> DEFINE devices == {p \in Pos : BlockOf[p] = b /\ IsDevice(p)}
  <2>1. /\ world' = world /\ gtn' = Update(devices, world)
        /\ marked' = marked \cup {BlockOf[p] : p \in devices}
        /\ phase = "idle" /\ phase' = "idle" /\ due' = due
    BY <1>4 DEF ActivateBlock, RegisterBlock, Mark
  <2>2. devices \in SUBSET Pos /\ \A p \in devices : world[p] \in Kind
    BY DevicesAreKinds
  <2> HIDE DEF devices
  <2>3. Agree(gtn') /\ DOMAIN gtn'.members = Registered \cup devices
    BY <2>1, <2>2, UpdateAgrees
  <2>4. Watched'
    BY <2>1, <2>3 DEF Watched, Registered
  <2> QED BY <2>1, <2>3, <2>4
<1>5. ASSUME NEW b \in Block, ExpireBlock(b) PROVE Inv'
  <2> DEFINE S == gtn.block_members[b]
  <2>1. /\ world' = world /\ gtn' = Unregister(S)
        /\ marked' = marked \ {b}
        /\ phase = "idle" /\ phase' = "idle" /\ due' = due
    BY <1>5 DEF ExpireBlock, UnregisterBlock
  <2>2. S \in SUBSET Pos /\ \A p \in Registered : BlockOf[p] = b => p \in S
    BY DEF Agree, MembersAgree, Registered
  <2> HIDE DEF S
  <2>3. Agree(gtn') /\ DOMAIN gtn'.members = Registered \ S
    BY <2>1, <2>2, UnregisterAgrees
  <2>4. Watched'
    BY <2>1, <2>2, <2>3 DEF Watched, Registered
  <2> QED BY <2>1, <2>3, <2>4
<1> QED BY <1>1, <1>2, <1>3, <1>4, <1>5 DEF Environment

\* Only the members of a network are checked.
LEMMA MismatchedArePositions ==
  ASSUME Agree(gtn), NEW N
  PROVE  Mismatched(N) \in SUBSET Pos
BY DEF Mismatched, Agree, NetworksAgree, AreNetworks, IsNetwork, Networks

LEMMA BeginUpdateInv ==
  ASSUME Inv, BeginUpdate
  PROVE  Inv'
<1> DEFINE checked == Unregister(Mismatched(invalid))
<1>1. /\ gtn' = [checked EXCEPT !.queue = {}]
      /\ world' = world /\ marked' = marked /\ phase = "idle" /\ phase' = "queue" /\ due' = due
  BY DEF BeginUpdate
<1>2. Agree(checked) /\ DOMAIN checked.members \subseteq Registered
  BY MismatchedArePositions, UnregisterAgrees DEF Inv
<1> HIDE DEF checked
<1>3. /\ gtn' = [members |-> gtn'.members, by_type |-> gtn'.by_type, queue |-> gtn'.queue,
                 block_members |-> gtn'.block_members, networks |-> gtn'.networks]
      /\ gtn'.queue = {}
      /\ gtn'.members = checked.members /\ gtn'.by_type = checked.by_type
      /\ gtn'.block_members = checked.block_members /\ gtn'.networks = checked.networks
  <2>1. checked = [members |-> checked.members, by_type |-> checked.by_type, queue |-> checked.queue,
                   block_members |-> checked.block_members, networks |-> checked.networks]
    BY <1>2 DEF Agree
  <2> QED BY <1>1, <2>1
<1>4. Agree(gtn')
  <2>1. MembersAgree(gtn')
    BY <1>2, <1>3 DEF Agree, MembersAgree
  <2> QED BY <1>2, <1>3, <2>1 DEF Agree
<1> QED BY <1>1, <1>2, <1>3, <1>4 DEF Inv, Watched, Registered

LEMMA ResolvePositionInv ==
  ASSUME Inv, NEW p \in Pos, ResolvePosition(p)
  PROVE  Inv'
<1> DEFINE moved == Refreshed(p)
           id    == CHOOSE n \in NewIds[moved] : IsNewId(n, moved)
<1>1. /\ gtn' = Regroup(moved, id) /\ IsNewId(id, moved)
      /\ world' = world /\ marked' = marked /\ phase = "queue" /\ phase' = "queue" /\ due' = due
  BY DEF ResolvePosition
<1>2. moved \in SUBSET Registered
  BY DEF Refreshed
<1> HIDE DEF moved, id
<1>3. Agree(gtn') /\ DOMAIN gtn'.members = Registered
  BY <1>1, <1>2, RegroupAgrees DEF Inv
<1> QED BY <1>1, <1>3 DEF Inv, Watched, Registered

LEMMA NextInv == Inv /\ [Next]_vars => Inv'
<1> SUFFICES ASSUME Inv, [Next]_vars PROVE Inv'
  OBVIOUS
<1>1. CASE Environment
  BY <1>1, EnvironmentInv
<1>2. CASE BeginUpdate
  BY <1>2, BeginUpdateInv
<1>3. ASSUME NEW p \in Pos, ResolvePosition(p) PROVE Inv'
  BY <1>3, ResolvePositionInv
<1>4. CASE BeginNetworks
  BY <1>4 DEF BeginNetworks, Inv, Watched, Registered, Networks
<1>5. ASSUME NEW n \in NetworkId, UpdateNetwork(n) PROVE Inv'
  BY <1>5 DEF UpdateNetwork, Inv, Watched, Registered, Networks
<1>6. CASE EndUpdate
  BY <1>6 DEF EndUpdate, Inv, Watched, Registered, Networks
<1>7. CASE UNCHANGED vars
  BY <1>7 DEF vars, Inv, Watched, Registered, Networks
<1> QED BY <1>1, <1>2, <1>3, <1>4, <1>5, <1>6, <1>7 DEF Next

\* The tables of the transport network agree in every state, whatever is
\* built, dug, switched, unloaded or loaded in between.
THEOREM TablesAlwaysAgree == Spec => []TablesAgree
<1>1. Inv => TablesAgree
  BY AgreeIsTablesAgree DEF Inv
<1> QED BY <1>1, InitInv, NextInv, PTL DEF Spec

(***************************************************************************)
(* FluidTransport implements TransportNetwork.                             *)
(***************************************************************************)
\* Beginning with a network of fluids is updating it, and what then moves
\* does not touch the tables.
LEMMA FluidStep == Inv /\ [FluidNext]_fluidvars => [Next]_vars
<1> SUFFICES ASSUME Inv, [FluidNext]_fluidvars PROVE [Next]_vars
  OBVIOUS
<1>1. ASSUME NEW n \in NetworkId, BeginFlow(n) PROVE UpdateNetwork(n)
  <2> DEFINE checked == TableOf(n, "extractor") \cup TableOf(n, "inserter")
             present == {p \in checked : IsPresent(p)}
  <2>1. /\ phase = "networks" /\ n \in due /\ due' = due \ {n}
        /\ invalid' = IF present = checked THEN invalid ELSE invalid \cup {n}
        /\ UNCHANGED <<world, loaded, activated, overlooked, marked, gtn, phase, batch>>
    BY <1>1 DEF BeginFlow
  <2>2. n \in Networks
    BY <2>1 DEF Inv
  <2>3. checked \subseteq gtn.networks[n].members
    BY <2>2 DEF TableOf, Inv, Agree, NetworksAgree, AreNetworks, IsNetwork, Networks
  <2>4. present # checked => Mismatched({n}) # {}
    BY <2>2, <2>3 DEF IsPresent, Mismatched
  <2> QED BY <2>1, <2>4 DEF UpdateNetwork
<1>2. ASSUME NEW o, MoveFluid(o) PROVE UNCHANGED vars
  BY <1>2 DEF MoveFluid
<1>3. CASE EndFlow
  BY <1>3 DEF EndFlow
<1>4. CASE UNCHANGED fluidvars
  BY <1>4 DEF fluidvars
<1> QED BY <1>1, <1>2, <1>3, <1>4 DEF FluidNext, Next

\* A network of fluid pipes is a generic transport network: every step of it
\* is one of the generic network's steps, or touches none of its tables.
THEOREM FluidIsATransportNetwork == FluidSpec => Spec
<1>1. FluidInit => Init
  BY DEF FluidInit
<1> QED BY <1>1, InitInv, NextInv, FluidStep, PTL DEF FluidSpec, Spec

\* So its tables agree, too.
THEOREM FluidTablesAlwaysAgree == FluidSpec => []TablesAgree
BY FluidIsATransportNetwork, TablesAlwaysAgree, PTL

(***************************************************************************)
(* What the flood comes to.                                                *)
(***************************************************************************)
LEMMA ConnectedArePositions ==
  ASSUME NEW node, NEW p \in Pos
  PROVE  Connected(p, node) \in SUBSET Pos
BY TransportAssumption DEF Connected

LEMMA FloodIsWalk ==
  ASSUME NEW node, NEW p \in Pos, node[p] \in Kind
  PROVE  LET next == [q \in Pos |-> Connected(q, node)]
         IN \E V \in [Nat -> SUBSET Pos] : WalkFrom(p, next, V) /\ Flood(p, node) = V[Cardinality(Pos)]
<1> DEFINE next == [q \in Pos |-> Connected(q, node)]
           Visited[n \in Nat] ==
             IF n = 0 THEN {p} ELSE Visited[n - 1] \cup UNION {Connected(q, node) : q \in Visited[n - 1]}
           Body(f) == [n \in Nat |->
             IF n = 0 THEN {p} ELSE f[n - 1] \cup UNION {Connected(q, node) : q \in f[n - 1]}]
           step == [x \in Nat \X SUBSET Pos |-> x[2] \cup UNION {Connected(q, node) : q \in x[2]}]
           S == SUBSET Pos
<1>1. Flood(p, node) = Visited[Cardinality(Pos)]
  BY DEF Flood
<1>2. Visited = CHOOSE f : f = Body(f)
  BY DEF Visited
<1>3. {p} \in S /\ step \in [Nat \X S -> S]
  BY ConnectedArePositions
<1> HIDE DEF S, Visited, Body
<1>4. PICK g \in [Nat -> S] : Iterates(g, {p}, step)
  <2> HIDE DEF step
  <2>1. step \in Steps(S)
    BY <1>3 DEF Steps
  <2> QED BY <1>3, <2>1, IterationExists
<1>5. ASSUME NEW n \in Nat
      PROVE  g[n] \in S /\ g[n + 1] = g[n] \cup UNION {Connected(q, node) : q \in g[n]}
  BY <1>4 DEF S, Iterates
<1>6. g = Body(g)
  <2>1. ASSUME NEW n \in Nat, n # 0
        PROVE  g[n] = g[n - 1] \cup UNION {Connected(q, node) : q \in g[n - 1]}
    <3>1. n - 1 \in Nat /\ (n - 1) + 1 = n
      BY <2>1
    <3> QED BY <3>1, <1>5
  <2> QED BY <1>4, <2>1 DEF Body, Iterates
<1>7. Visited = Body(Visited)
  BY <1>2, <1>6
<1>8. Visited[0] = {p}
  BY <1>7 DEF Body
<1>9. ASSUME NEW n \in Nat
      PROVE  Visited[n + 1] = Visited[n] \cup UNION {Connected(q, node) : q \in Visited[n]}
  <2>1. n + 1 \in Nat /\ n + 1 # 0 /\ (n + 1) - 1 = n
    OBVIOUS
  <2> QED BY <1>7, <2>1 DEF Body
<1>10. ASSUME NEW n \in Nat PROVE Visited[n] \in SUBSET Pos
  <2> DEFINE G == {m \in Nat : Visited[m] \in SUBSET Pos}
  <2>1. 0 \in G
    BY <1>8
  <2>2. ASSUME NEW m \in Nat, m \in G PROVE m + 1 \in G
    BY <1>9, <2>2, ConnectedArePositions
  <2>3. Nat \subseteq G
    <3> HIDE DEF G
    <3> QED BY <2>1, <2>2, NatSetInduction
  <2> QED BY <2>3
<1>11. Visited \in [Nat -> SUBSET Pos]
  BY <1>7, <1>10 DEF Body
<1>12. WalkFrom(p, next, Visited)
  <2>1. ASSUME NEW n \in Nat PROVE Visited[n + 1] = Visited[n] \cup UNION {next[q] : q \in Visited[n]}
    <3>1. \A q \in Visited[n] : next[q] = Connected(q, node)
      BY <1>10
    <3>2. {next[q] : q \in Visited[n]} = {Connected(q, node) : q \in Visited[n]}
      BY <3>1
    <3> QED BY <1>9, <3>2
  <2> QED BY <1>8, <2>1 DEF WalkFrom
<1> QED BY <1>1, <1>11, <1>12

\* The flood from a device comes to it, to all that is connected to what it
\* came to, and to nothing else.
LEMMA FloodIsClosure ==
  ASSUME NEW node, NEW p \in Pos, node[p] \in Kind
  PROVE  /\ p \in Flood(p, node) /\ Flood(p, node) \subseteq Pos
         /\ \A q \in Flood(p, node) : Connected(q, node) \subseteq Flood(p, node)
         /\ \A C : p \in C /\ (\A q \in C \cap Pos : Connected(q, node) \subseteq C)
                     => Flood(p, node) \subseteq C
<1> DEFINE next == [q \in Pos |-> Connected(q, node)]
<1>1. next \in [Pos -> SUBSET Pos]
  BY ConnectedArePositions
<1>2. PICK V \in [Nat -> SUBSET Pos] : WalkFrom(p, next, V) /\ Flood(p, node) = V[Cardinality(Pos)]
  BY FloodIsWalk
<1> HIDE DEF next
<1>3. /\ p \in Flood(p, node) /\ Flood(p, node) \subseteq Pos
      /\ \A q \in Flood(p, node) : next[q] \subseteq Flood(p, node)
      /\ \A C : p \in C /\ (\A q \in C \cap Pos : next[q] \subseteq C) => Flood(p, node) \subseteq C
  BY <1>1, <1>2, WalkIsClosure, MapAssumption
<1>4. \A q \in Pos : next[q] = Connected(q, node)
  BY DEF next
<1> QED BY <1>3, <1>4

\* Kinds that send the flood on.
Conducting(k) ==
  k \in Kind /\ (TypeOf[k] \in {"extractor", "inserter", "transporter"} \/ (TypeOf[k] = "valve" /\ k \in OpenValves))

LEMMA LeadingConducts ==
  ASSUME NEW k \in Kind, NEW l \in Kind, LeadsTo(k, l)
  PROVE  Conducting(k)
BY DEF LeadsTo, Conducting

LEMMA LeadingGoesBack ==
  ASSUME NEW k \in Kind, NEW l \in Kind, Conducting(k), Conducting(l), LeadsTo(k, l)
  PROVE  LeadsTo(l, k)
BY DEF LeadsTo, Conducting, MatchesColor

\* Every device the flood comes to, but the first, is beside one that sends
\* it on.
LEMMA FloodHasSources ==
  ASSUME NEW node, NEW p \in Pos, node[p] \in Kind
  PROVE  \A q \in Flood(p, node) :
           /\ node[q] \in Kind
           /\ q # p => \E c \in Flood(p, node) : Conducting(node[c]) /\ q \in Connected(c, node)
<1> DEFINE A == Flood(p, node)
           C == {q \in A : /\ node[q] \in Kind
                           /\ q # p => \E c \in A : Conducting(node[c]) /\ q \in Connected(c, node)}
<1>1. p \in A /\ A \subseteq Pos /\ \A q \in A : Connected(q, node) \subseteq A
  BY FloodIsClosure
<1> HIDE DEF A
<1>2. p \in C
  BY <1>1
<1>3. ASSUME NEW c \in C, NEW q \in Connected(c, node) PROVE q \in C
  <2>1. q \in A /\ node[q] \in Kind /\ node[c] \in Kind /\ LeadsTo(node[c], node[q])
    BY <1>1, <1>3 DEF Connected
  <2>2. Conducting(node[c])
    BY <2>1, LeadingConducts
  <2> QED BY <1>3, <2>1, <2>2
<1>4. A \subseteq C
  <2>1. \A q \in C \cap Pos : Connected(q, node) \subseteq C
    BY <1>3
  <2> HIDE DEF C
  <2> QED BY <1>2, <2>1, FloodIsClosure DEF A
<1> QED BY <1>4 DEF A

LEMMA FloodsNest ==
  ASSUME NEW node, NEW p \in Pos, node[p] \in Kind, NEW q \in Flood(p, node)
  PROVE  Flood(q, node) \subseteq Flood(p, node)
<1>1. q \in Pos /\ node[q] \in Kind
  BY FloodIsClosure, FloodHasSources
<1>2. \A x \in Flood(p, node) \cap Pos : Connected(x, node) \subseteq Flood(p, node)
  BY FloodIsClosure
<1> QED BY <1>1, <1>2, FloodIsClosure

\* Between nodes that conduct, the flood goes back as well.
LEMMA FloodsOfConductors ==
  ASSUME NEW node, NEW p \in Pos, Conducting(node[p]),
         NEW q \in Flood(p, node), Conducting(node[q])
  PROVE  Flood(q, node) = Flood(p, node)
<1> DEFINE A == Flood(p, node)
           C == {x \in A : Conducting(node[x]) => p \in Flood(x, node)}
<1>1. /\ node[p] \in Kind /\ p \in A /\ A \subseteq Pos
      /\ \A x \in A : Connected(x, node) \subseteq A /\ node[x] \in Kind
  BY FloodIsClosure, FloodHasSources DEF Conducting
<1> HIDE DEF A
<1>2. p \in C
  BY <1>1, FloodIsClosure
<1>3. ASSUME NEW x \in C, NEW y \in Connected(x, node) PROVE y \in C
  <2>1. /\ x \in Pos /\ y \in Pos /\ y \in A /\ node[x] \in Kind /\ node[y] \in Kind
        /\ y \in Beside[x] /\ LeadsTo(node[x], node[y]) /\ Conducting(node[x])
    BY <1>1, <1>3, LeadingConducts DEF Connected
  <2>2. p \in Flood(x, node)
    BY <1>3, <2>1
  <2>3. ASSUME Conducting(node[y]) PROVE p \in Flood(y, node)
    <3>1. x \in Connected(y, node)
      BY <2>1, <2>3, LeadingGoesBack, MapAssumption DEF Connected
    <3>2. x \in Flood(y, node)
      BY <2>1, <3>1, FloodIsClosure
    <3> QED BY <2>1, <2>2, <3>2, FloodsNest
  <2> QED BY <2>1, <2>3
<1>4. A \subseteq C
  <2>1. \A x \in C \cap Pos : Connected(x, node) \subseteq C
    BY <1>3
  <2> HIDE DEF C
  <2> QED BY <1>1, <1>2, <2>1, FloodIsClosure DEF A
<1>5. q \in A /\ q \in Pos /\ node[q] \in Kind /\ p \in Flood(q, node)
  BY <1>1, <1>4 DEF A
<1>6. Flood(q, node) \subseteq Flood(p, node)
  BY <1>1, FloodsNest
<1>7. Flood(p, node) \subseteq Flood(q, node)
  BY <1>5, FloodsNest
<1> QED BY <1>6, <1>7

LEMMA OthersAreAlone ==
  ASSUME NEW node, NEW p \in Pos, node[p] \in Kind, ~ Conducting(node[p])
  PROVE  Flood(p, node) = {p}
<1> DEFINE C == {p}
<1>1. Connected(p, node) = {}
  BY LeadingConducts DEF Connected
<1>2. p \in C /\ \A x \in C \cap Pos : Connected(x, node) \subseteq C
  BY <1>1
<1> HIDE DEF C
<1>3. p \in Flood(p, node) /\ Flood(p, node) \subseteq C
  BY <1>2, FloodIsClosure
<1> QED BY <1>3 DEF C

\* Where no node that conducts is beside a place D of change, nothing changes.
LEMMA ChangesAreLocal ==
  ASSUME NEW node, NEW other, NEW D,
         \A x \in Pos \ D : node[x] = other[x] \/ (node[x] \notin Kind /\ other[x] \notin Kind),
         NEW p \in Pos \ D, node[p] \in Kind,
         \A c \in Flood(p, node) : Conducting(node[c]) => Beside[c] \cap D = {}
  PROVE  Flood(p, other) = Flood(p, node) /\ Flood(p, node) \cap D = {}
<1> DEFINE A == Flood(p, node)
           B == Flood(p, other)
<1>1. other[p] \in Kind
  OBVIOUS
<1>2. /\ p \in A /\ A \subseteq Pos
      /\ \A q \in A : Connected(q, node) \subseteq A /\ node[q] \in Kind
      /\ \A q \in A : q # p => \E c \in A : Conducting(node[c]) /\ q \in Connected(c, node)
  BY FloodIsClosure, FloodHasSources
<1>3. p \in B /\ B \subseteq Pos /\ \A q \in B : Connected(q, other) \subseteq B
  BY <1>1, FloodIsClosure
<1>4. \A c \in A : Conducting(node[c]) => Beside[c] \cap D = {}
  OBVIOUS
<1> HIDE DEF A, B
<1>5. A \cap D = {}
  BY <1>2, <1>4 DEF Connected
<1>6. ASSUME NEW c \in A PROVE Connected(c, other) = Connected(c, node)
  <2>1. c \in Pos \ D /\ node[c] = other[c] /\ node[c] \in Kind
    BY <1>2, <1>5
  <2>2. CASE Conducting(node[c])
    <3>1. \A q \in Beside[c] : q \in Pos \ D
      BY <1>4, <2>1, <2>2, TransportAssumption
    <3> QED BY <2>1, <3>1 DEF Connected
  <2>3. CASE ~ Conducting(node[c])
    BY <2>1, <2>3, LeadingConducts DEF Connected
  <2> QED BY <2>2, <2>3
<1>7. B \subseteq A
  <2>1. \A q \in A \cap Pos : Connected(q, other) \subseteq A
    BY <1>2, <1>6
  <2> QED BY <1>1, <1>2, <2>1, FloodIsClosure DEF B
<1>8. A \subseteq B
  <2> DEFINE C == A \cap B
  <2>1. p \in C /\ \A q \in C \cap Pos : Connected(q, node) \subseteq C
    BY <1>2, <1>3, <1>6
  <2> HIDE DEF C
  <2>2. A \subseteq C
    BY <2>1, FloodIsClosure DEF A
  <2> QED BY <2>2 DEF C
<1> QED BY <1>5, <1>7, <1>8 DEF A, B
(***************************************************************************)
(* What a flood would find is what the last one found, unless a node       *)
(* within its reach is queued, or a block beside it is on its way.         *)
(***************************************************************************)
IsPipe(p) == Conducting(NodeAt(p))

\* A device in a block that went, or came and has not been registered.
IsAway(q) ==
  /\ world[q] \in Kind
  /\ \/ BlockOf[q] \in (loaded \ activated) \cup overlooked
     \/ BlockOf[q] \notin loaded /\ q \in Registered

IsQuiet(c) == c \notin gtn.queue \cup batch /\ \A q \in {c} \cup Beside[c] : ~ IsAway(q)
IsClean(p) == \A c \in Flood(p, Seen) : IsPipe(c) => IsQuiet(c)

\* The network of p is what the pipes lead to from it.
IsWhole(p) ==
  LET n == gtn.members[p].network
  IN /\ n # Nil
     /\ \A q \in Flood(p, Seen) : IsPipe(q) => q \in Registered /\ gtn.members[q].network = n
     /\ MembersOf(n) \subseteq Flood(p, Seen)

NamesAreKnown == \A p \in Registered : gtn.members[p].name = world[p]
ActiveAreKnown == \A p \in Pos : world[p] \in Kind /\ BlockOf[p] \in activated => p \in Registered
CleanAreWhole == \A p \in Registered : IsPipe(p) /\ IsClean(p) => IsWhole(p)

PhasesInOrder ==
  /\ phase \in {"idle", "queue", "networks"}
  /\ activated \subseteq loaded
  /\ phase = "idle" => batch = {}
  /\ phase = "queue" => gtn.queue = {} /\ batch \subseteq Pos /\ \A p \in batch : IsDevice(p)
  /\ phase = "networks" => gtn.queue = {} /\ batch = {}

SettleInv == Inv /\ NamesAreKnown /\ ActiveAreKnown /\ PhasesInOrder /\ CleanAreWhole

LEMMA UpdateEffect ==
  ASSUME NEW S, NEW node
  PROVE  LET g == Update(S, node)
         IN /\ DOMAIN g.members = Registered \cup S
            /\ \A p \in S : g.members[p].name = node[p] /\ g.members[p].network = Nil
            /\ \A p \in Registered \ S : g.members[p] = gtn.members[p]
            /\ g.queue = gtn.queue \cup S \cup UNION {Beside[p] : p \in S}
BY DEF Update, QueueAllAdjacent

LEMMA UnregisterEffect ==
  ASSUME NEW S
  PROVE  LET g == Unregister(S)
             gone == S \cap Registered
         IN /\ DOMAIN g.members = Registered \ S
            /\ \A p \in Registered \ S : g.members[p] = gtn.members[p]
            /\ g.queue = gtn.queue \cup gone \cup UNION {Beside[p] : p \in gone}
BY DEF Unregister, QueueAllAdjacent, Restrict

\* A step that changes the map at D, or takes nodes there out of their
\* networks, and leaves no quiet pipe beside D.
LEMMA LocalStep ==
  ASSUME Inv, CleanAreWhole, NEW D \in SUBSET Pos, Inv',
         \A x \in Pos \ D : Seen[x] = Seen'[x] \/ (Seen[x] \notin Kind /\ Seen'[x] \notin Kind),
         \A c \in Pos : IsPipe(c)' /\ IsQuiet(c)' => IsQuiet(c) /\ ({c} \cup Beside[c]) \cap D = {},
         \A q \in Pos \ D : /\ q \in Registered <=> q \in Registered'
                            /\ q \in Registered => gtn'.members[q].network = gtn.members[q].network,
         \A q \in Registered' : \/ gtn'.members[q].network = Nil
                                \/ q \in Registered /\ gtn'.members[q].network = gtn.members[q].network
  PROVE  CleanAreWhole'
<1> SUFFICES ASSUME NEW p \in Registered', IsPipe(p)', IsClean(p)'
             PROVE  IsWhole(p)'
  BY DEF CleanAreWhole
<1> DEFINE A == Flood(p, Seen')
<1>1. p \in Pos
  BY DEF Inv, Agree, MembersAgree, Registered
<1>2. \A c \in Pos : Seen'[c] = NodeAt(c)' /\ Seen[c] = NodeAt(c)
  BY DEF Seen
<1>3. Seen'[p] \in Kind
  BY <1>1, <1>2 DEF IsPipe, Conducting
<1>4. p \in A /\ A \subseteq Pos /\ \A q \in A : Seen'[q] \in Kind
  BY <1>1, <1>3, FloodIsClosure, FloodHasSources
<1>5. \A c \in A : IsPipe(c)' => IsQuiet(c)'
  BY DEF IsClean
<1> HIDE DEF A
<1>6. \A c \in A : IsPipe(c)' => IsQuiet(c) /\ ({c} \cup Beside[c]) \cap D = {}
  BY <1>4, <1>5
<1>7. p \notin D
  BY <1>4, <1>6
<1>8. Flood(p, Seen) = A /\ A \cap D = {}
  <2>1. \A c \in A : Conducting(Seen'[c]) => Beside[c] \cap D = {}
    BY <1>2, <1>4, <1>6 DEF IsPipe
  <2> QED BY <1>1, <1>3, <1>7, <2>1, ChangesAreLocal DEF A
<1>9. \A c \in A : IsPipe(c) <=> IsPipe(c)'
  <2>1. \A c \in A : Seen[c] = Seen'[c]
    BY <1>4, <1>8
  <2> QED BY <1>2, <1>4, <2>1 DEF IsPipe
<1>10. p \in Registered /\ gtn'.members[p].network = gtn.members[p].network
  BY <1>1, <1>7
<1>11. IsClean(p) /\ IsPipe(p)
  BY <1>4, <1>6, <1>8, <1>9 DEF IsClean
<1>12. IsWhole(p)
  BY <1>10, <1>11 DEF CleanAreWhole
<1> DEFINE n == gtn.members[p].network
<1>13. /\ n # Nil /\ MembersOf(n) \subseteq A
       /\ \A q \in A : IsPipe(q) => q \in Registered /\ gtn.members[q].network = n
  BY <1>8, <1>12 DEF IsWhole
<1>14. \A q \in A : IsPipe(q)' => q \in Registered' /\ gtn'.members[q].network = n
  BY <1>4, <1>8, <1>9, <1>13
<1>15. {q \in Registered' : gtn'.members[q].network = n} \subseteq A
  BY <1>13 DEF MembersOf
<1> QED BY <1>10, <1>13, <1>14, <1>15 DEF IsWhole, MembersOf, A
\* The quiet pipes around a place where nodes were queued with all beside.
LEMMA QueuedAreNotQuiet ==
  ASSUME NEW D \in SUBSET Pos, D \cup UNION {Beside[x] : x \in D} \subseteq gtn'.queue, NEW c \in Pos, IsQuiet(c)'
  PROVE  ({c} \cup Beside[c]) \cap D = {}
<1>1. c \notin D /\ \A x \in D : c \notin Beside[x]
  BY DEF IsQuiet
<1> QED BY <1>1, MapAssumption

\* Between updates: D is where nodes were built, dug, registered or left.
LEMMA QueuedStep ==
  ASSUME SettleInv, Inv', NEW D \in SUBSET Pos,
         batch' = {} /\ loaded' = loaded /\ overlooked' = overlooked /\ activated' = activated,
         \A x \in Pos \ D : world'[x] = world[x],
         gtn.queue \cup D \cup UNION {Beside[x] : x \in D} \subseteq gtn'.queue,
         \A q \in Pos \ D : /\ q \in Registered <=> q \in Registered'
                            /\ q \in Registered => gtn'.members[q] = gtn.members[q],
         \A q \in D \cap Registered' : gtn'.members[q].network = Nil,
         phase = "idle"
  PROVE  CleanAreWhole'
<1>1. \A x \in Pos \ D : Seen[x] = Seen'[x]
  BY DEF Seen, NodeAt
<1>2. ASSUME NEW c \in Pos, IsPipe(c)', IsQuiet(c)'
      PROVE  IsQuiet(c) /\ ({c} \cup Beside[c]) \cap D = {}
  <2>1. ({c} \cup Beside[c]) \cap D = {}
    BY <1>2, QueuedAreNotQuiet
  <2>2. c \notin gtn.queue \cup batch
    BY <1>2 DEF IsQuiet, SettleInv, PhasesInOrder
  <2>3. ASSUME NEW q \in {c} \cup Beside[c] PROVE ~ IsAway(q)
    <3>1. q \in Pos \ D
      BY <2>1, TransportAssumption
    <3>2. ~ IsAway(q)'
      BY <1>2 DEF IsQuiet
    <3> QED BY <3>1, <3>2 DEF IsAway
  <2> QED BY <2>1, <2>2, <2>3 DEF IsQuiet
<1>3. \A q \in Registered' : \/ gtn'.members[q].network = Nil
                             \/ q \in Registered /\ gtn'.members[q].network = gtn.members[q].network
  <2>1. \A q \in Registered' : q \in Pos
    BY DEF Inv, Agree, MembersAgree, Registered
  <2> QED BY <2>1
<1> QED BY <1>1, <1>2, <1>3, LocalStep DEF SettleInv
\* Nodes are registered or leave between two updates, and are queued.
LEMMA BuildingSettles ==
  ASSUME SettleInv, Inv', NEW p \in Pos, NEW k \in Kind, PlaceNode(p, k) \/ SwitchValve(p, k)
  PROVE  SettleInv'
<1>1. /\ world' = [world EXCEPT ![p] = k] /\ gtn' = Update({p}, world')
      /\ phase = "idle" /\ UNCHANGED <<loaded, activated, overlooked, phase, batch>>
  BY DEF PlaceNode, SwitchValve, IsActive
<1>2. world'[p] = k /\ \A x \in Pos \ {p} : world'[x] = world[x]
  BY <1>1 DEF SettleInv, Inv
<1>3. /\ Registered' = Registered \cup {p}
      /\ gtn'.members[p].name = world'[p] /\ gtn'.members[p].network = Nil
      /\ \A q \in Registered \ {p} : gtn'.members[q] = gtn.members[q]
      /\ gtn'.queue = gtn.queue \cup {p} \cup Beside[p]
  <2> DEFINE S == {p}
  <2>1. /\ Registered' = Registered \cup S
        /\ \A q \in S : gtn'.members[q].name = world'[q] /\ gtn'.members[q].network = Nil
        /\ \A q \in Registered \ S : gtn'.members[q] = gtn.members[q]
        /\ gtn'.queue = gtn.queue \cup S \cup UNION {Beside[q] : q \in S}
    <3>1. gtn' = Update(S, world')
      BY <1>1
    <3> HIDE DEF S
    <3> QED BY <3>1, UpdateEffect DEF Registered
  <2>2. UNION {Beside[q] : q \in S} = Beside[p]
    OBVIOUS
  <2> QED BY <2>1, <2>2
<1>4. Registered \subseteq Pos
  BY DEF SettleInv, Inv, Agree, MembersAgree, Registered
<1>5. CleanAreWhole'
  <2> DEFINE D == {p}
  <2>1. /\ D \in SUBSET Pos /\ \A x \in Pos \ D : world'[x] = world[x]
        /\ gtn.queue \cup D \cup UNION {Beside[x] : x \in D} \subseteq gtn'.queue
        /\ \A q \in Pos \ D : /\ q \in Registered <=> q \in Registered'
                              /\ q \in Registered => gtn'.members[q] = gtn.members[q]
        /\ \A q \in D \cap Registered' : gtn'.members[q].network = Nil
    BY <1>2, <1>3
  <2>2. batch' = {}
    BY <1>1 DEF SettleInv, PhasesInOrder
  <2> HIDE DEF D
  <2> QED BY <1>1, <2>1, <2>2, QueuedStep
<1>6. NamesAreKnown' /\ ActiveAreKnown' /\ PhasesInOrder'
  BY <1>1, <1>2, <1>3, <1>4 DEF SettleInv, NamesAreKnown, ActiveAreKnown, PhasesInOrder
<1> QED BY <1>5, <1>6 DEF SettleInv

LEMMA DiggingSettles ==
  ASSUME SettleInv, Inv', NEW p \in Pos, DigNode(p)
  PROVE  SettleInv'
<1>1. /\ world' = [world EXCEPT ![p] = Air] /\ gtn' = Unregister({p}) /\ world[p] # Air
      /\ BlockOf[p] \in activated
      /\ phase = "idle" /\ UNCHANGED <<loaded, activated, overlooked, phase, batch>>
  BY DEF DigNode, IsActive
<1>2. world'[p] = Air /\ \A x \in Pos \ {p} : world'[x] = world[x]
  BY <1>1 DEF SettleInv, Inv
<1>3. p \in Registered
  BY <1>1 DEF SettleInv, Inv, ActiveAreKnown
<1>4. /\ Registered' = Registered \ {p}
      /\ \A q \in Registered \ {p} : gtn'.members[q] = gtn.members[q]
      /\ gtn'.queue = gtn.queue \cup {p} \cup Beside[p]
  <2> DEFINE S == {p}
             gone == S \cap Registered
  <2>1. /\ Registered' = Registered \ S
        /\ \A q \in Registered \ S : gtn'.members[q] = gtn.members[q]
        /\ gtn'.queue = gtn.queue \cup gone \cup UNION {Beside[q] : q \in gone}
    BY <1>1, UnregisterEffect DEF Registered
  <2>2. gone = {p}
    BY <1>3
  <2> HIDE DEF gone
  <2> QED BY <2>1, <2>2
<1>5. Registered \subseteq Pos
  BY DEF SettleInv, Inv, Agree, MembersAgree, Registered
<1>6. CleanAreWhole'
  <2> DEFINE D == {p}
  <2>1. /\ D \in SUBSET Pos /\ \A x \in Pos \ D : world'[x] = world[x]
        /\ gtn.queue \cup D \cup UNION {Beside[x] : x \in D} \subseteq gtn'.queue
        /\ \A q \in Pos \ D : /\ q \in Registered <=> q \in Registered'
                              /\ q \in Registered => gtn'.members[q] = gtn.members[q]
        /\ \A q \in D \cap Registered' : gtn'.members[q].network = Nil
    BY <1>2, <1>4
  <2>2. batch' = {}
    BY <1>1 DEF SettleInv, PhasesInOrder
  <2> HIDE DEF D
  <2> QED BY <1>1, <2>1, <2>2, QueuedStep
<1>7. NamesAreKnown' /\ ActiveAreKnown' /\ PhasesInOrder'
  BY <1>1, <1>2, <1>4, <1>5, TransportAssumption
  DEF SettleInv, NamesAreKnown, ActiveAreKnown, PhasesInOrder
<1> QED BY <1>6, <1>7 DEF SettleInv

LEMMA ActivatingSettles ==
  ASSUME SettleInv, Inv', NEW b \in Block, ActivateBlock(b)
  PROVE  SettleInv'
<1> DEFINE D == {p \in Pos : BlockOf[p] = b /\ IsDevice(p)}
<1>1. /\ gtn' = Update(D, world) /\ activated' = activated \cup {b} /\ overlooked' = overlooked \ {b}
      /\ b \in loaded \ activated
      /\ phase = "idle" /\ UNCHANGED <<world, loaded, phase, batch>>
  BY DEF ActivateBlock, RegisterBlock
<1>2. D \in SUBSET Pos /\ \A q \in D : world[q] \in Kind
  BY DevicesAreKinds
<1>3. \A q \in Pos : BlockOf[q] = b /\ world[q] \in Kind => q \in D
  BY <1>1 DEF IsDevice, NodeAt
<1>4. \A q \in D : BlockOf[q] = b
  OBVIOUS
<1> HIDE DEF D
<1>5. /\ Registered' = Registered \cup D
      /\ \A q \in D : gtn'.members[q].name = world[q] /\ gtn'.members[q].network = Nil
      /\ \A q \in Registered \ D : gtn'.members[q] = gtn.members[q]
      /\ gtn'.queue = gtn.queue \cup D \cup UNION {Beside[q] : q \in D}
  BY <1>1, UpdateEffect DEF Registered
<1>6. \A x \in Pos : Seen[x] = Seen'[x]
  BY <1>1 DEF Seen, NodeAt
<1>7. ASSUME NEW c \in Pos, IsPipe(c)', IsQuiet(c)'
      PROVE  IsQuiet(c) /\ ({c} \cup Beside[c]) \cap D = {}
  <2>1. ({c} \cup Beside[c]) \cap D = {}
    BY <1>2, <1>5, <1>7, QueuedAreNotQuiet
  <2>2. c \notin gtn.queue \cup batch
    BY <1>1, <1>5, <1>7 DEF IsQuiet
  <2>3. ASSUME NEW q \in {c} \cup Beside[c] PROVE ~ IsAway(q)
    <3>1. q \in Pos \ D
      BY <2>1, TransportAssumption
    <3>2. ~ IsAway(q)'
      BY <1>7 DEF IsQuiet
    <3>3. q \in Registered <=> q \in Registered'
      BY <1>5, <3>1
    <3>4. world[q] \in Kind => BlockOf[q] # b
      BY <1>3, <3>1
    <3> QED BY <1>1, <3>2, <3>3, <3>4 DEF IsAway
  <2> QED BY <2>1, <2>2, <2>3 DEF IsQuiet
<1>8. CleanAreWhole'
  <2>1. \A q \in Pos \ D : /\ q \in Registered <=> q \in Registered'
                           /\ q \in Registered => gtn'.members[q].network = gtn.members[q].network
    BY <1>5
  <2>2. \A q \in Registered' : \/ gtn'.members[q].network = Nil
                               \/ q \in Registered /\ gtn'.members[q].network = gtn.members[q].network
    BY <1>5
  <2> QED BY <1>2, <1>6, <1>7, <2>1, <2>2, LocalStep DEF SettleInv
<1>9. NamesAreKnown' /\ ActiveAreKnown' /\ PhasesInOrder'
  BY <1>1, <1>3, <1>5 DEF SettleInv, NamesAreKnown, ActiveAreKnown, PhasesInOrder
<1> QED BY <1>8, <1>9 DEF SettleInv
\* A block expires, or its members are found to be away: D leaves, and all
\* beside it is queued, or put into the batch at once.
LEMMA LeavingStep ==
  ASSUME SettleInv, Inv', NEW D \in SUBSET Registered, \A q \in D : BlockOf[q] \notin loaded,
         UNCHANGED <<world, loaded, activated, overlooked>>, phase = "idle",
         Registered' = Registered \ D,
         \A q \in Registered \ D : gtn'.members[q] = gtn.members[q],
         \A c \in Pos : IsDevice(c) /\ c \in gtn.queue \cup D \cup UNION {Beside[q] : q \in D}
                          => c \in gtn'.queue \cup batch'
  PROVE  CleanAreWhole' /\ NamesAreKnown' /\ ActiveAreKnown'
<1>1. D \in SUBSET Pos
  BY DEF SettleInv, Inv, Agree, MembersAgree, Registered
<1>2. \A x \in Pos : Seen[x] = Seen'[x]
  BY DEF Seen, NodeAt
<1>3. ASSUME NEW c \in Pos, IsPipe(c)', IsQuiet(c)'
      PROVE  IsQuiet(c) /\ ({c} \cup Beside[c]) \cap D = {}
  <2>1. IsDevice(c)
    BY <1>3 DEF IsPipe, Conducting, IsDevice, NodeAt
  <2>2. c \notin gtn.queue /\ c \notin D /\ \A q \in D : c \notin Beside[q]
    BY <1>3, <2>1 DEF IsQuiet
  <2>3. ({c} \cup Beside[c]) \cap D = {}
    BY <1>1, <2>2, MapAssumption
  <2>4. c \notin gtn.queue \cup batch
    BY <2>2 DEF SettleInv, PhasesInOrder
  <2>5. ASSUME NEW q \in {c} \cup Beside[c] PROVE ~ IsAway(q)
    <3>1. ~ IsAway(q)'
      BY <1>3 DEF IsQuiet
    <3>2. q \in Registered => q \in Registered'
      BY <2>3
    <3> QED BY <3>1, <3>2 DEF IsAway
  <2> QED BY <2>3, <2>4, <2>5 DEF IsQuiet
<1>4. CleanAreWhole'
  BY <1>1, <1>2, <1>3, LocalStep DEF SettleInv
<1>5. NamesAreKnown' /\ ActiveAreKnown'
  BY DEF SettleInv, NamesAreKnown, ActiveAreKnown, PhasesInOrder
<1> QED BY <1>4, <1>5

LEMMA ExpirySettles ==
  ASSUME SettleInv, Inv', NEW b \in Block, ExpireBlock(b)
  PROVE  SettleInv'
<1> DEFINE D == gtn.block_members[b]
<1>1. /\ gtn' = Unregister(D) /\ b \notin loaded
      /\ phase = "idle" /\ UNCHANGED <<world, loaded, activated, overlooked, phase, batch>>
  BY DEF ExpireBlock, UnregisterBlock
<1>2. D \in SUBSET Registered /\ \A q \in D : BlockOf[q] = b
  BY DEF SettleInv, Inv, Agree, MembersAgree, Registered
<1> HIDE DEF D
<1>3. /\ Registered' = Registered \ D
      /\ \A q \in Registered \ D : gtn'.members[q] = gtn.members[q]
      /\ gtn'.queue = gtn.queue \cup D \cup UNION {Beside[q] : q \in D}
  <2>1. D \cap Registered = D
    BY <1>2
  <2> QED BY <1>1, <2>1, UnregisterEffect DEF Registered
<1>4. CleanAreWhole' /\ NamesAreKnown' /\ ActiveAreKnown'
  BY <1>1, <1>2, <1>3, LeavingStep
<1>5. PhasesInOrder'
  BY <1>1 DEF SettleInv, PhasesInOrder
<1> QED BY <1>4, <1>5 DEF SettleInv

LEMMA BeginningSettles ==
  ASSUME SettleInv, Inv', BeginUpdate
  PROVE  SettleInv'
<1> DEFINE D == Mismatched(invalid)
           checked == Unregister(D)
<1>1. /\ gtn' = [checked EXCEPT !.queue = {}] /\ batch' = {p \in checked.queue : IsDevice(p)}
      /\ phase = "idle" /\ phase' = "queue" /\ UNCHANGED <<world, loaded, activated, overlooked>>
  BY DEF BeginUpdate
<1>2. D \in SUBSET Registered /\ \A q \in D : NodeAt(q) # gtn.members[q].name
  <2>1. \A n \in Networks : gtn.networks[n].members \subseteq Registered
    BY DEF SettleInv, Inv, Agree, NetworksAgree, AreNetworks, IsNetwork, Registered, Networks
  <2> QED BY <2>1 DEF Mismatched
<1>3. \A q \in D : BlockOf[q] \notin loaded
  BY <1>2 DEF SettleInv, NamesAreKnown, NodeAt
<1> HIDE DEF D
<1>4. Agree(checked)
  BY <1>2, UnregisterAgrees DEF SettleInv, Inv, Agree, MembersAgree, Registered
<1>5. /\ DOMAIN checked.members = Registered \ D
      /\ \A q \in Registered \ D : checked.members[q] = gtn.members[q]
      /\ checked.queue = gtn.queue \cup D \cup UNION {Beside[q] : q \in D}
  <2>1. D \cap Registered = D
    BY <1>2
  <2> QED BY <2>1, UnregisterEffect DEF Registered
<1> HIDE DEF checked
<1>6. gtn'.members = checked.members /\ gtn'.queue = {}
  <2>1. checked = [members |-> checked.members, by_type |-> checked.by_type, queue |-> checked.queue,
                   block_members |-> checked.block_members, networks |-> checked.networks]
    BY <1>4 DEF Agree
  <2> QED BY <1>1, <2>1
<1>7. Registered' = Registered \ D /\ \A q \in Registered \ D : gtn'.members[q] = gtn.members[q]
  BY <1>5, <1>6 DEF Registered
<1>8. CleanAreWhole' /\ NamesAreKnown' /\ ActiveAreKnown'
  <2>1. \A c \in Pos : IsDevice(c) /\ c \in gtn.queue \cup D \cup UNION {Beside[q] : q \in D}
                         => c \in gtn'.queue \cup batch'
    BY <1>1, <1>5
  <2> QED BY <1>1, <1>2, <1>3, <1>7, <2>1, LeavingStep
<1>9. PhasesInOrder'
  <2>1. checked.queue \subseteq Pos
    BY <1>4 DEF Agree
  <2>2. \A p \in batch' : IsDevice(p)'
    BY <1>1 DEF IsDevice, NodeAt
  <2> QED BY <1>1, <1>6, <2>1, <2>2 DEF SettleInv, PhasesInOrder
<1> QED BY <1>8, <1>9 DEF SettleInv

\* Blocks go and come: the devices in them are away.
LEMMA ComingAndGoingSettles ==
  ASSUME SettleInv, Inv', NEW b \in Block, UnloadBlock(b) \/ LoadBlock(b)
  PROVE  SettleInv'
<1> DEFINE D == {q \in Pos : BlockOf[q] = b /\ world[q] \in Kind}
<1>1. /\ phase = "idle" /\ UNCHANGED <<world, gtn, phase, batch>>
      /\ \/ /\ b \in loaded /\ loaded' = loaded \ {b} /\ activated' = activated \ {b}
            /\ overlooked' = IF b \in activated THEN overlooked ELSE overlooked \cup {b}
         \/ /\ b \notin loaded /\ loaded' = loaded \cup {b} /\ UNCHANGED <<activated, overlooked>>
  BY DEF UnloadBlock, LoadBlock
<1>2. \A x \in Pos \ D : Seen[x] = Seen'[x] \/ (Seen[x] \notin Kind /\ Seen'[x] \notin Kind)
  BY <1>1, TransportAssumption DEF Seen, NodeAt
<1>3. Registered' = Registered
  BY <1>1 DEF Registered
<1>4. ASSUME NEW q \in D PROVE IsAway(q)'
  <2>1. world'[q] \in Kind /\ BlockOf[q] = b
    BY <1>1
  <2>2. b \in activated => q \in Registered'
    BY <1>3 DEF SettleInv, ActiveAreKnown
  <2>3. b \in activated => b \in loaded
    BY DEF SettleInv, PhasesInOrder
  <2> QED BY <1>1, <2>1, <2>2, <2>3 DEF IsAway
<1>5. ASSUME NEW c \in Pos, IsPipe(c)', IsQuiet(c)'
      PROVE  IsQuiet(c) /\ ({c} \cup Beside[c]) \cap D = {}
  <2>1. ({c} \cup Beside[c]) \cap D = {}
    BY <1>4, <1>5 DEF IsQuiet
  <2>2. c \notin gtn.queue \cup batch
    BY <1>1, <1>5 DEF IsQuiet
  <2>3. ASSUME NEW q \in {c} \cup Beside[c] PROVE ~ IsAway(q)
    <3>1. q \in Pos \ D
      BY <2>1, TransportAssumption
    <3>2. ~ IsAway(q)'
      BY <1>5 DEF IsQuiet
    <3> QED BY <1>1, <1>3, <3>1, <3>2 DEF IsAway
  <2> QED BY <2>1, <2>2, <2>3 DEF IsQuiet
<1>6. CleanAreWhole'
  <2>1. D \in SUBSET Pos
    OBVIOUS
  <2> HIDE DEF D
  <2> QED BY <1>1, <1>2, <1>3, <1>5, <2>1, LocalStep DEF SettleInv
<1>7. NamesAreKnown' /\ ActiveAreKnown' /\ PhasesInOrder'
  BY <1>1, <1>3 DEF SettleInv, NamesAreKnown, ActiveAreKnown, PhasesInOrder
<1> QED BY <1>6, <1>7 DEF SettleInv
\* A new id is no longer that of any node that stays.
LEMMA NewIdsAreFree ==
  ASSUME Agree(gtn), NEW S \in SUBSET Registered, NEW id, IsNewId(id, S)
  PROVE  id \in NetworkId /\ id # Nil /\ \A p \in Registered \ S : gtn.members[p].network # id
<1>1. S \in SUBSET Pos /\ Registered \subseteq Pos
  BY DEF Agree, MembersAgree, Registered
<1>2. id \in NetworkId /\ id \notin DOMAIN MoveOut(S) /\ id # Nil
  BY <1>1, TransportAssumption DEF IsNewId
<1>3. ASSUME NEW p \in Registered \ S, gtn.members[p].network = id PROVE FALSE
  <2>1. id \in Networks
    BY <1>2, <1>3 DEF Agree, NetworksAgree, Registered, Networks
  <2>2. gtn.networks[id].members \subseteq S
    BY <1>2, <2>1, MoveOutIsExact DEF LeftBehind
  <2>3. p \in gtn.networks[id].members
    BY <1>1, <1>3, <2>1 DEF Agree, NetworksAgree, Registered, Networks
  <2> QED BY <2>2, <2>3
<1> QED BY <1>2, <1>3

LEMMA RegroupEffect ==
  ASSUME Agree(gtn), NEW S \in SUBSET Registered, NEW id
  PROVE  LET g == Regroup(S, id)
         IN /\ DOMAIN g.members = Registered /\ g.queue = gtn.queue
            /\ \A p \in Registered : g.members[p].name = gtn.members[p].name
            /\ \A p \in S : g.members[p].network = id
            /\ \A p \in Registered \ S : g.members[p] = gtn.members[p]
<1> DEFINE g == Regroup(S, id)
<1>1. gtn = [members |-> gtn.members, by_type |-> gtn.by_type, queue |-> gtn.queue,
             block_members |-> gtn.block_members, networks |-> gtn.networks]
      /\ gtn.members \in [Registered -> Member]
  BY DEF Agree, MembersAgree, Registered
<1>2. g.members = [p \in Registered |-> IF p \in S THEN [gtn.members[p] EXCEPT !.network = id]
                                                    ELSE gtn.members[p]]
      /\ g.queue = gtn.queue
  BY <1>1 DEF Regroup
<1> HIDE DEF g
<1>3. \A p \in Registered : gtn.members[p] = [name |-> gtn.members[p].name, network |-> gtn.members[p].network]
  BY <1>1 DEF Member
<1> QED BY <1>2, <1>3 DEF g

LEMMA ResolvingSettles ==
  ASSUME SettleInv, Inv', NEW p \in Pos, ResolvePosition(p)
  PROVE  SettleInv'
<1> DEFINE F == Flood(p, Seen)
           moved == Refreshed(p)
           id == CHOOSE n \in NewIds[moved] : IsNewId(n, moved)
<1>1. /\ phase = "queue" /\ p \in batch /\ batch' = batch \ ({p} \cup moved)
      /\ IsNewId(id, moved) /\ gtn' = Regroup(moved, id)
      /\ UNCHANGED <<world, loaded, activated, overlooked, phase>>
  BY DEF ResolvePosition
<1>2. moved = F \cap Registered
  BY DEF Refreshed
<1> HIDE DEF F, moved, id
<1>3. /\ Registered' = Registered /\ gtn'.queue = gtn.queue
      /\ \A q \in Registered : gtn'.members[q].name = gtn.members[q].name
      /\ \A q \in moved : gtn'.members[q].network = id
      /\ \A q \in Registered \ moved : gtn'.members[q] = gtn.members[q]
  <2>1. Agree(gtn) /\ moved \in SUBSET Registered
    BY <1>2 DEF SettleInv, Inv
  <2>2. /\ DOMAIN gtn'.members = Registered /\ gtn'.queue = gtn.queue
        /\ \A q \in Registered : gtn'.members[q].name = gtn.members[q].name
        /\ \A q \in moved : gtn'.members[q].network = id
        /\ \A q \in Registered \ moved : gtn'.members[q] = gtn.members[q]
    <3>1. gtn' = Regroup(moved, id)
      BY <1>1
    <3>2. LET g == Regroup(moved, id)
          IN /\ DOMAIN g.members = Registered /\ g.queue = gtn.queue
             /\ \A q \in Registered : g.members[q].name = gtn.members[q].name
             /\ \A q \in moved : g.members[q].network = id
             /\ \A q \in Registered \ moved : g.members[q] = gtn.members[q]
      BY <2>1, RegroupEffect
    <3> QED BY <3>1, <3>2
  <2> QED BY <2>2 DEF Registered
<1>4. id # Nil /\ \A q \in Registered \ moved : gtn.members[q].network # id
  BY <1>1, <1>2, NewIdsAreFree DEF SettleInv, Inv
<1>5. Seen' = Seen /\ \A q : NodeAt(q)' = NodeAt(q) /\ (IsAway(q)' <=> IsAway(q))
  BY <1>1, <1>3 DEF Seen, NodeAt, IsAway
<1>6. \A q \in Pos : IsPipe(q) <=> Conducting(Seen[q])
  BY DEF IsPipe, Seen
<1>7. Seen[p] \in Kind /\ p \in F /\ F \subseteq Pos
  <2>1. Seen[p] \in Kind
    BY <1>1 DEF SettleInv, PhasesInOrder, IsDevice, Seen
  <2> QED BY <2>1, FloodIsClosure DEF F
\* Floods that share a pipe are one.
<1>8. ASSUME NEW r \in Pos, IsPipe(r), NEW c \in Flood(r, Seen), IsPipe(c), c \in F
      PROVE  Flood(r, Seen) = F
  <2>1. c \in Pos /\ Seen[r] \in Kind
    BY <1>6, <1>7, <1>8 DEF Conducting
  <2>2. Flood(c, Seen) = Flood(r, Seen)
    BY <1>6, <1>8, <2>1, FloodsOfConductors
  <2>3. IsPipe(p)
    <3>1. ~ IsPipe(p) => F = {p}
      BY <1>6, <1>7, OthersAreAlone DEF F
    <3> QED BY <1>8, <3>1
  <2>4. Flood(c, Seen) = F
    BY <1>6, <1>8, <2>1, <2>3, FloodsOfConductors DEF F
  <2> QED BY <2>2, <2>4
<1>9. CleanAreWhole'
  <2> SUFFICES ASSUME NEW r \in Registered', IsPipe(r)', IsClean(r)'
               PROVE  IsWhole(r)'
    BY DEF CleanAreWhole
  <2> DEFINE A == Flood(r, Seen)
  <2>1. r \in Registered /\ r \in Pos /\ IsPipe(r)
    <3>1. Registered \subseteq Pos
      BY DEF SettleInv, Inv, Agree, MembersAgree, Registered
    <3> QED BY <1>3, <1>5, <3>1 DEF IsPipe
  <2>2. \A c \in A : IsPipe(c) => IsQuiet(c)'
    BY <1>5 DEF IsClean, IsPipe
  <2>3. r \in A /\ A \subseteq Pos
    BY <1>6, <2>1, FloodIsClosure DEF Conducting
  <2> HIDE DEF A
  <2>4. ASSUME NEW q \in A, IsPipe(q) PROVE q \in Registered
    <3>1. ~ IsAway(q)
      BY <1>5, <2>2, <2>4 DEF IsQuiet
    <3>2. BlockOf[q] \in loaded /\ world[q] \in Kind
      BY <2>4, TransportAssumption DEF IsPipe, Conducting, NodeAt
    <3>3. BlockOf[q] \in activated
      BY <3>1, <3>2 DEF IsAway
    <3> QED BY <2>3, <2>4, <3>2, <3>3 DEF SettleInv, ActiveAreKnown
  <2>5. CASE r \in F
    <3>1. A = F
      BY <1>8, <2>1, <2>3, <2>5 DEF A
    <3>2. gtn'.members[r].network = id
      BY <1>2, <1>3, <2>1, <2>5
    <3>3. \A q \in A : IsPipe(q) => q \in Registered /\ gtn'.members[q].network = id
      BY <1>2, <1>3, <2>4, <3>1
    <3>4. {q \in Registered' : gtn'.members[q].network = id} \subseteq A
      BY <1>2, <1>3, <1>4, <3>1
    <3> QED BY <1>3, <1>4, <1>5, <3>2, <3>3, <3>4 DEF IsWhole, MembersOf, IsPipe, A
  <2>6. CASE r \notin F
    <3>1. \A c \in A : IsPipe(c) => c \notin F
      BY <1>8, <2>1, <2>3, <2>6 DEF A
    <3>2. \A c \in A : IsPipe(c) => IsQuiet(c)
      BY <1>1, <1>2, <1>3, <1>5, <1>7, <2>2, <3>1 DEF IsQuiet
    <3>3. IsWhole(r)
      BY <2>1, <3>2 DEF A, IsClean, SettleInv, CleanAreWhole
    <3> DEFINE n == gtn.members[r].network
    <3>4. /\ n # Nil /\ MembersOf(n) \subseteq A
          /\ \A q \in A : IsPipe(q) => q \in Registered /\ gtn.members[q].network = n
      BY <3>3 DEF IsWhole, A
    <3>5. gtn'.members[r].network = n /\ n # id
      BY <1>2, <1>3, <1>4, <2>1, <2>6
    <3>6. \A q \in A : IsPipe(q) => q \in Registered /\ gtn'.members[q].network = n
      BY <1>2, <1>3, <3>1, <3>4
    <3>7. {q \in Registered' : gtn'.members[q].network = n} \subseteq A
      BY <1>3, <3>4, <3>5 DEF MembersOf
    <3> QED BY <1>3, <1>5, <3>4, <3>5, <3>6, <3>7 DEF IsWhole, MembersOf, IsPipe, A
  <2> QED BY <2>5, <2>6
<1>10. NamesAreKnown' /\ ActiveAreKnown' /\ PhasesInOrder'
  BY <1>1, <1>3 DEF SettleInv, NamesAreKnown, ActiveAreKnown, PhasesInOrder, IsDevice, NodeAt
<1> QED BY <1>9, <1>10 DEF SettleInv

LEMMA InitSettles == Init => SettleInv
<1> SUFFICES ASSUME Init PROVE SettleInv
  OBVIOUS
<1>1. Inv
  BY InitInv
<1> QED BY <1>1, TransportAssumption
  DEF Init, SettleInv, NamesAreKnown, ActiveAreKnown, PhasesInOrder, CleanAreWhole, Registered, Empty

LEMMA NextSettles == SettleInv /\ [Next]_vars => SettleInv'
<1> SUFFICES ASSUME SettleInv, [Next]_vars PROVE SettleInv'
  OBVIOUS
<1>1. Inv'
  BY NextInv DEF SettleInv
<1>2. CASE Environment
  BY <1>1, <1>2, BuildingSettles, DiggingSettles, ComingAndGoingSettles, ActivatingSettles, ExpirySettles
  DEF Environment
<1>3. CASE BeginUpdate
  BY <1>1, <1>3, BeginningSettles
<1>4. ASSUME NEW p \in Pos, ResolvePosition(p) PROVE SettleInv'
  BY <1>1, <1>4, ResolvingSettles
<1>5. ASSUME UNCHANGED <<world, loaded, activated, overlooked, gtn, batch>>,
             \/ phase' = phase
             \/ phase = "queue" /\ batch = {} /\ phase' = "networks"
             \/ phase = "networks" /\ phase' = "idle"
      PROVE  SettleInv'
  <2>1. CleanAreWhole'
    BY <1>5 DEF SettleInv, CleanAreWhole, IsPipe, IsClean, IsWhole, IsQuiet, IsAway, MembersOf, Registered,
                NodeAt, Seen
  <2>2. NamesAreKnown' /\ ActiveAreKnown' /\ PhasesInOrder'
    BY <1>5 DEF SettleInv, NamesAreKnown, ActiveAreKnown, PhasesInOrder, Registered, IsDevice, NodeAt
  <2> QED BY <1>1, <2>1, <2>2 DEF SettleInv
<1>6. CASE BeginNetworks
  BY <1>5, <1>6 DEF BeginNetworks
<1>7. ASSUME NEW n \in NetworkId, UpdateNetwork(n) PROVE SettleInv'
  BY <1>5, <1>7 DEF UpdateNetwork
<1>8. CASE EndUpdate
  BY <1>5, <1>8 DEF EndUpdate
<1>9. CASE UNCHANGED vars
  BY <1>5, <1>9 DEF vars
<1> QED BY <1>2, <1>3, <1>4, <1>6, <1>7, <1>8, <1>9 DEF Next

\* Where nothing is on its way, every pipe is clean.
LEMMA SettledAreWhole ==
  ASSUME SettleInv, BlocksAreSettled, gtn.queue = {}, batch = {}, NEW p \in Registered, IsPipe(p)
  PROVE  IsWhole(p)
<1>1. \A q : ~ IsAway(q)
  BY DEF IsAway, BlocksAreSettled
<1>2. IsClean(p)
  BY <1>1 DEF IsClean, IsQuiet
<1> QED BY <1>2 DEF SettleInv, CleanAreWhole

LEMMA SettledAreComponents == SettleInv => NetworksAreComponents
<1> SUFFICES ASSUME SettleInv, IsSettled PROVE NetworksAreComponents
  BY DEF NetworksAreComponents
<1>1. BlocksAreSettled /\ gtn.queue = {} /\ batch = {}
  BY DEF IsSettled, SettleInv, PhasesInOrder
<1>2. Registered \subseteq Pos /\ \A p \in Registered : gtn.members[p].name \in Kind
  BY DEF SettleInv, Inv, Agree, MembersAgree, Registered, Member
<1>3. ASSUME NEW p \in Registered
      PROVE  NodeAt(p) = world[p] /\ world[p] \in Kind /\ gtn.members[p].name = world[p]
  BY <1>1, <1>2 DEF BlocksAreSettled, NodeAt, SettleInv, NamesAreKnown
<1>4. Registered = {p \in Pos : IsDevice(p)}
  <2>1. ASSUME NEW p \in Pos, IsDevice(p) PROVE p \in Registered
    <3>1. world[p] \in Kind /\ BlockOf[p] \in loaded
      BY <2>1, TransportAssumption DEF IsDevice, NodeAt
    <3> QED BY <1>1, <3>1 DEF BlocksAreSettled, SettleInv, ActiveAreKnown
  <2> QED BY <1>2, <1>3, <2>1 DEF IsDevice
<1>5. ASSUME NEW p \in Registered, Conducts(p) PROVE IsWhole(p)
  <2>1. IsPipe(p)
    BY <1>3, <1>5 DEF IsPipe, Conducting, Conducts
  <2> QED BY <1>1, <2>1, SettledAreWhole
<1>6. ASSUME NEW p \in Registered, Conducts(p), NEW q \in Flood(p, Seen), Conducts(q)
      PROVE  gtn.members[q].network = gtn.members[p].network
  <2>1. Seen[p] \in Kind /\ p \in Pos
    BY <1>2, <1>3 DEF Seen
  <2>2. q \in Pos /\ Seen[q] \in Kind
    BY <1>6, <2>1, FloodIsClosure, FloodHasSources
  <2>3. IsPipe(q)
    BY <1>6, <2>2, TransportAssumption DEF Seen, NodeAt, IsPipe, Conducting, Conducts
  <2> QED BY <1>5, <1>6, <2>3 DEF IsWhole
<1>7. ASSUME NEW p \in Registered, Conducts(p), NEW q \in Registered,
             gtn.members[q].network = gtn.members[p].network
      PROVE  q \in Flood(p, Seen)
  BY <1>5, <1>7 DEF IsWhole, MembersOf
<1>8. \A p \in Registered : Conducts(p) => gtn.members[p].network # Nil
  BY <1>5 DEF IsWhole
<1> QED BY <1>3, <1>4, <1>6, <1>7, <1>8 DEF NetworksAreComponents

\* Once the world has settled, the networks of the transport network are the
\* connected parts of it, whatever was built, dug, switched, dropped from
\* memory and loaded before, in any order, and on any map.
THEOREM NetworksBecomeComponents == Spec => []NetworksAreComponents
BY InitSettles, NextSettles, SettledAreComponents, PTL DEF Spec

\* That of fluids as well.
THEOREM FluidNetworksBecomeComponents == FluidSpec => []NetworksAreComponents
BY FluidIsATransportNetwork, NetworksBecomeComponents, PTL

(***************************************************************************)
(* What a network of fluids finds in the tanks beside its extractors.      *)
(***************************************************************************)
LEMMA LeastOfTwo ==
  ASSUME NEW a \in Nat, NEW b \in Nat
  PROVE  Least({a, b}) \in {a, b} /\ Least({a, b}) <= a /\ Least({a, b}) <= b
<1>1. \E n \in {a, b} : \A m \in {a, b} : n <= m
  <2>1. CASE a <= b
    BY <2>1
  <2>2. CASE b <= a
    BY <2>2
  <2> QED BY <2>1, <2>2
<1> QED BY <1>1 DEF Least

LEMMA LeastOfThree ==
  ASSUME NEW a \in Nat, NEW b \in Nat, NEW c \in Nat
  PROVE  LET n == Least({a, b, c}) IN n \in {a, b, c} /\ n <= a /\ n <= b /\ n <= c
<1>1. \E n \in {a, b, c} : \A m \in {a, b, c} : n <= m
  <2>1. CASE a <= b /\ a <= c
    BY <2>1
  <2>2. CASE b <= a /\ b <= c
    BY <2>2
  <2>3. CASE c <= a /\ c <= b
    BY <2>3
  <2> QED BY <2>1, <2>2, <2>3
<1> QED BY <1>1 DEF Least

\* A tank gives no more than it is asked for, than its interface lets through
\* and than it has, and nothing while its block is away.
LEMMA DrainedBounds ==
  ASSUME FluidTypeOK, NEW t \in Tank, NEW a \in Nat
  PROVE  /\ Drained(t, a) \in Nat /\ Drained(t, a) <= a
         /\ Drained(t, a) <= TankBandwidth /\ Drained(t, a) <= level[t]
         /\ Drained(t, a) > 0 => IsTankLoaded(t)
<1>1. level[t] \in Nat /\ TankBandwidth \in Nat
  BY FluidAssumption DEF FluidTypeOK
<1>2. CASE t \in Outlet /\ IsTankLoaded(t)
  <2>1. Drained(t, a) = Least({a, TankBandwidth, level[t]})
    BY <1>2 DEF Drained
  <2> QED BY <1>1, <1>2, <2>1, LeastOfThree
<1>3. CASE ~ (t \in Outlet /\ IsTankLoaded(t))
  <2>1. Drained(t, a) = 0
    BY <1>3 DEF Drained
  <2> QED BY <1>1, <2>1
<1> QED BY <1>2, <1>3

\* A tank takes no more than it is offered and than it has room for.
LEMMA FilledBounds ==
  ASSUME FluidTypeOK, NEW t \in Tank, NEW a \in Nat
  PROVE  /\ Filled(t, a) \in Nat /\ Filled(t, a) <= a
         /\ Filled(t, a) <= TankBandwidth /\ level[t] + Filled(t, a) <= Capacity[t]
         /\ Filled(t, a) > 0 => IsTankLoaded(t)
<1>1. /\ level[t] \in Nat /\ TankBandwidth \in Nat
      /\ Capacity[t] \in Nat /\ level[t] <= Capacity[t]
  BY FluidAssumption DEF FluidTypeOK
<1>2. Capacity[t] - level[t] \in Nat
  BY <1>1
<1>3. CASE t \in Inlet /\ IsTankLoaded(t)
  <2>1. Filled(t, a) = Least({a, TankBandwidth, Capacity[t] - level[t]})
    BY <1>3 DEF Filled
  <2>2. /\ Filled(t, a) \in {a, TankBandwidth, Capacity[t] - level[t]} /\ Filled(t, a) <= a
        /\ Filled(t, a) <= TankBandwidth /\ Filled(t, a) <= Capacity[t] - level[t]
    BY <1>1, <1>2, <2>1, LeastOfThree
  <2> QED BY <1>1, <1>2, <1>3, <2>2
<1>4. CASE ~ (t \in Inlet /\ IsTankLoaded(t))
  <2>1. Filled(t, a) = 0
    BY <1>4 DEF Filled
  <2> QED BY <1>1, <2>1
<1> QED BY <1>3, <1>4

\* Every tank beside an extractor is asked, in whatever order.
LEMMA WalksPassAll ==
  ASSUME NEW S, IsFiniteSet(S), NEW walk \in Walks(S)
  PROVE  /\ Len(walk) \in Nat /\ walk \in [1..Len(walk) -> S]
         /\ \A t \in S : \E i \in 1..Len(walk) : walk[i] = t
<1> DEFINE n == Cardinality(S)
<1>1. n \in Nat
  BY FS_CardinalityType
<1> HIDE DEF n
<1>2. walk \in [1..n -> S] /\ IsInjective(walk)
  BY DEF Walks, n
<1>3. walk \in Seq(S) /\ Len(walk) = n
  BY <1>1, <1>2
<1>4. walk \in Injection(1..n, S)
  BY <1>2 DEF Injection, IsInjective
<1>5. Cardinality(1..n) = n
  BY <1>1, FS_Interval
<1>6. walk \in Surjection(1..n, S)
  BY <1>4, <1>5, FS_Injection DEF n
<1> QED BY <1>1, <1>2, <1>3, <1>6 DEF Surjection

\* What an extractor finds in a tank is no more than the tank has.
LEMMA FoundBounds ==
  ASSUME FluidTypeOK, NEW x, NEW S \in SUBSET Tank, NEW walk \in Walks(S), NEW t \in S
  PROVE  LET found == Found(x, walk)[<<x, t>>]
         IN /\ found \in Nat /\ found <= level[t] /\ found <= TankBandwidth
            /\ found > 0 => IsTankLoaded(t)
<1> DEFINE n == Len(walk)
           Asked[i \in 1..Len(walk) + 1] ==
             IF i = 1 THEN ExtractorBandwidth ELSE Asked[i - 1] - Drained(walk[i - 1], Asked[i - 1])
           Body(f) == [i \in 1..n + 1 |->
             IF i = 1 THEN ExtractorBandwidth ELSE f[i - 1] - Drained(walk[i - 1], f[i - 1])]
           step == [y \in Nat \X Nat |-> IF y[1] + 1 \in 1..n THEN y[2] - Drained(walk[y[1] + 1], y[2]) ELSE y[2]]
           result == [e \in {<<x, walk[i]>> : i \in 1..n} |->
             LET i == CHOOSE j \in 1..n : walk[j] = e[2] IN Drained(walk[i], Asked[i])]
<1>1. Found(x, walk) = result
  BY DEF Found
<1>2. Asked = CHOOSE f : f = Body(f)
  BY DEF Asked
<1>3. n \in Nat /\ walk \in [1..n -> S] /\ \A s \in S : \E i \in 1..n : walk[i] = s
  <2>1. IsFiniteSet(S)
    BY FluidAssumption, FS_Subset
  <2> QED BY <2>1, WalksPassAll
<1> HIDE DEF n, Asked
<1>4. step \in Steps(Nat)
  <2>1. ASSUME NEW m \in Nat, NEW a \in Nat, m + 1 \in 1..n
        PROVE  a - Drained(walk[m + 1], a) \in Nat
    <3>1. walk[m + 1] \in Tank
      BY <1>3, <2>1
    <3> QED BY <3>1, DrainedBounds
  <2> QED BY <2>1 DEF Steps
<1> HIDE DEF step
<1>5. ExtractorBandwidth \in Nat
  BY FluidAssumption
<1>6. PICK g \in [Nat -> Nat] : Iterates(g, ExtractorBandwidth, step)
  BY <1>4, <1>5, IterationExists
<1>7. ASSUME NEW i \in 1..n + 1, i # 1
      PROVE  g[i - 1] = g[(i - 1) - 1] - Drained(walk[i - 1], g[(i - 1) - 1])
  <2>1. i - 2 \in Nat /\ (i - 2) + 1 = i - 1 /\ i - 1 \in 1..n /\ (i - 1) - 1 = i - 2
    BY <1>3, <1>7
  <2>2. g[i - 1] = step[<<i - 2, g[i - 2]>>]
    BY <1>6, <2>1 DEF Iterates
  <2>3. g[i - 2] \in Nat
    BY <2>1
  <2> QED BY <2>1, <2>2, <2>3 DEF step
<1> DEFINE h == [i \in 1..n + 1 |-> g[i - 1]]
<1>8. h = Body(h)
  <2>1. ASSUME NEW i \in 1..n + 1
        PROVE  h[i] = IF i = 1 THEN ExtractorBandwidth ELSE h[i - 1] - Drained(walk[i - 1], h[i - 1])
    <3>1. CASE i = 1
      BY <1>6, <3>1 DEF Iterates
    <3>2. CASE i # 1
      <4>1. i - 1 \in 1..n + 1
        BY <1>3, <3>2
      <4> QED BY <1>7, <3>2, <4>1
    <3> QED BY <3>1, <3>2
  <2> HIDE DEF h
  <2>2. h = [i \in 1..n + 1 |-> h[i]]
    BY DEF h
  <2> QED BY <2>1, <2>2
<1> HIDE DEF h
<1>9. Asked = Body(Asked)
  <2> HIDE DEF Body
  <2> QED BY <1>2, <1>8
<1>10. ASSUME NEW i \in 1..n PROVE Asked[i] \in Nat
  <2> DEFINE G == {m \in Nat : m + 1 \in 1..n + 1 => Asked[m + 1] \in Nat}
  <2>1. 0 \in G
    BY <1>3, <1>5, <1>9
  <2>2. ASSUME NEW m \in Nat, m \in G PROVE m + 1 \in G
    <3> SUFFICES ASSUME (m + 1) + 1 \in 1..n + 1 PROVE Asked[(m + 1) + 1] \in Nat
      OBVIOUS
    <3>1. m + 1 \in 1..n + 1 /\ m + 1 \in 1..n /\ (m + 1) + 1 # 1 /\ ((m + 1) + 1) - 1 = m + 1
      BY <1>3
    <3>2. Asked[(m + 1) + 1] = Asked[m + 1] - Drained(walk[m + 1], Asked[m + 1])
      BY <1>9, <3>1
    <3>3. Asked[m + 1] \in Nat
      BY <2>2, <3>1
    <3>4. walk[m + 1] \in Tank
      BY <1>3, <3>1
    <3> QED BY <3>2, <3>3, <3>4, DrainedBounds
  <2>3. Nat \subseteq G
    <3> HIDE DEF G
    <3> QED BY <2>1, <2>2, NatSetInduction
  <2>4. i - 1 \in Nat /\ (i - 1) + 1 = i /\ i \in 1..n + 1
    BY <1>3
  <2> QED BY <2>3, <2>4
<1> DEFINE i == CHOOSE j \in 1..n : walk[j] = t
<1>11. i \in 1..n /\ walk[i] = t
  BY <1>3
<1>12. <<x, t>> \in {<<x, walk[j]>> : j \in 1..n}
  BY <1>11
<1>13. result[<<x, t>>] = Drained(walk[i], Asked[i])
  BY <1>12
<1> HIDE DEF i, result
<1>14. t \in Tank
  OBVIOUS
<1> QED BY <1>1, <1>10, <1>11, <1>13, <1>14, DrainedBounds

\* What the extractors of X find is more than nothing, is there, and is
\* beside them.
LEMMA AvailableBounds ==
  ASSUME FluidTypeOK, NEW X \in SUBSET Pos, NEW f \in Available(X)
  PROVE  /\ f \in [DOMAIN f -> Nat] /\ DOMAIN f \subseteq Entry
         /\ \A e \in DOMAIN f :
              /\ e[1] \in X /\ e[2] \in TankBeside[e[1]]
              /\ f[e] <= level[e[2]] /\ f[e] <= TankBandwidth /\ IsTankLoaded(e[2])
<1> DEFINE E == EntriesOf(X)
<1>1. PICK w \in TankWalks(X) : f = Positive([e \in E |-> Found(e[1], w[e[1]])[e]])
  BY DEF Available
<1> DEFINE all == [e \in E |-> Found(e[1], w[e[1]])[e]]
<1>2. ASSUME NEW e \in E
      PROVE  /\ e[1] \in X /\ e[2] \in TankBeside[e[1]] /\ e = <<e[1], e[2]>> /\ e \in Entry
             /\ all[e] \in Nat /\ all[e] <= level[e[2]] /\ all[e] <= TankBandwidth
             /\ all[e] > 0 => IsTankLoaded(e[2])
  <2>1. e[1] \in X /\ e[2] \in TankBeside[e[1]] /\ e = <<e[1], e[2]>>
    BY DEF EntriesOf
  <2>2. TankBeside[e[1]] \in SUBSET Tank /\ e[2] \in Tank
    BY <2>1, FluidAssumption
  <2>3. w[e[1]] \in Walks(TankBeside[e[1]])
    BY <1>1, <2>1 DEF TankWalks
  <2>4. all[e] = Found(e[1], w[e[1]])[<<e[1], e[2]>>]
    BY <2>1
  <2> HIDE DEF all, E
  <2>5. e \in Entry
    BY <2>1, <2>2 DEF Entry
  <2> QED BY <2>1, <2>2, <2>3, <2>4, <2>5, FoundBounds
<1>3. DOMAIN all = E
  OBVIOUS
<1> HIDE DEF all, E
<1>4. f = [e \in {d \in E : all[d] > 0} |-> all[e]]
  BY <1>1, <1>3 DEF Positive, Restrict, all
<1> QED BY <1>2, <1>4

(***************************************************************************)
(* While a network runs nothing else does: its ducts stay members, and an  *)
(* entry that no other shares the tank with is still there.                *)
(***************************************************************************)
IsDuct(p, y) == p \in MembersOf(flow.network) /\ DeviceTypeOf(p) = y /\ IsPresent(p)

\* Another entry of the list is of the same tank.
IsShared(e) == \E d \in DOMAIN flow.available : d # e /\ d[2] = e[2]

FlowIsSound ==
  /\ phase = "networks"
  /\ flow = [network |-> flow.network, available |-> flow.available, last |-> flow.last, left |-> flow.left]
  /\ flow.available \in [DOMAIN flow.available -> Nat]
  /\ \A e \in DOMAIN flow.available :
       /\ IsDuct(e[1], "extractor") /\ e[2] \in TankBeside[e[1]] /\ IsTankLoaded(e[2])
       /\ IsShared(e) \/ flow.available[e] <= level[e[2]]
  /\ \A o \in flow.left :
       /\ IsDuct(o[1], "inserter") /\ o[2] \in TankBeside[o[1]]
       /\ <<o[3], o[4]>> \in DOMAIN flow.available

FluidInv == SettleInv /\ FluidTypeOK /\ (flow # Nil => FlowIsSound)

LEMMA FluidInitInv == FluidInit => FluidInv
<1> SUFFICES ASSUME FluidInit PROVE FluidInv
  OBVIOUS
<1>1. SettleInv
  BY InitSettles DEF FluidInit
<1>2. level \in InitialLevels /\ flow = Nil
  BY DEF FluidInit
<1>3. FluidTypeOK
  BY <1>2, FluidAssumption DEF FluidTypeOK
<1> QED BY <1>1, <1>2, <1>3 DEF FluidInv

\* The tables of a network hold its members of the type.
LEMMA TablesOfType ==
  ASSUME SettleInv, NEW n \in Networks, NEW y \in DeviceType
  PROVE  \A p \in TableOf(n, y) : p \in MembersOf(n) /\ DeviceTypeOf(p) = y /\ p \in Pos
<1>1. TableOf(n, y) \subseteq OfType(MembersOf(n), y)
  BY DEF SettleInv, Inv, Agree, NetworksAgree, AreNetworks, IsNetwork, TableOf, OfType, MembersOf, Networks,
         Registered, DeviceTypeOf
<1>2. Registered \subseteq Pos
  BY DEF SettleInv, Inv, Agree, MembersAgree, Registered
<1> QED BY <1>1, <1>2 DEF OfType, MembersOf

LEMMA BeginFlowInv ==
  ASSUME FluidInv, SettleInv', NEW n \in NetworkId, BeginFlow(n)
  PROVE  FluidInv'
<1> DEFINE extractors == TableOf(n, "extractor")
           inserters == TableOf(n, "inserter")
           present == {p \in extractors \cup inserters : IsPresent(p)}
           X == extractors \cap present
           I == inserters \cap present
<1>1. SettleInv /\ FluidTypeOK
  BY DEF FluidInv
<1>2. /\ phase = "networks" /\ n \in due
      /\ UNCHANGED <<world, loaded, gtn, phase, level>>
  BY DEF BeginFlow
<1>3. PICK f \in Available(X) : flow' = [network |-> n, available |-> f, last |-> Nil, left |-> Offers(I, f)]
  BY DEF BeginFlow
<1>4. n \in Networks /\ "extractor" \in DeviceType /\ "inserter" \in DeviceType
  BY <1>1, <1>2 DEF SettleInv, Inv, DeviceType
<1>5. \A x \in X : x \in MembersOf(n) /\ DeviceTypeOf(x) = "extractor" /\ x \in Pos /\ IsPresent(x)
  BY <1>1, <1>4, TablesOfType
<1>6. \A i \in I : i \in MembersOf(n) /\ DeviceTypeOf(i) = "inserter" /\ i \in Pos /\ IsPresent(i)
  BY <1>1, <1>4, TablesOfType
<1> HIDE DEF X, I, extractors, inserters, present
<1>7. /\ f \in [DOMAIN f -> Nat] /\ DOMAIN f \subseteq Entry
      /\ \A e \in DOMAIN f :
           e[1] \in X /\ e[2] \in TankBeside[e[1]] /\ f[e] <= level[e[2]] /\ IsTankLoaded(e[2])
  <2>1. X \in SUBSET Pos
    BY <1>5
  <2> QED BY <1>1, <2>1, AvailableBounds
<1>8. \A o \in Offers(I, f) :
        o \in Offer /\ o[1] \in I /\ o[2] \in TankBeside[o[1]] /\ <<o[3], o[4]>> \in DOMAIN f
  BY DEF Offers
<1>9. \A p : (IsPresent(p))' = IsPresent(p) /\ (DeviceTypeOf(p))' = DeviceTypeOf(p)
  BY <1>2 DEF IsPresent, NodeAt, DeviceTypeOf
<1>10. (MembersOf(n))' = MembersOf(n) /\ \A t : (IsTankLoaded(t))' = IsTankLoaded(t)
  BY <1>2 DEF MembersOf, Registered, IsTankLoaded
<1>11. FluidTypeOK'
  BY <1>1, <1>2, <1>3, <1>7, <1>8 DEF FluidTypeOK
<1>12. FlowIsSound'
  BY <1>2, <1>3, <1>5, <1>6, <1>7, <1>8, <1>9, <1>10 DEF FlowIsSound, IsDuct, IsShared
<1> QED BY <1>11, <1>12 DEF FluidInv

\* What is filled in was found, and found room; less than that is drained
\* only from a tank that runs dry.
LEMMA MoveFluidEffect ==
  ASSUME FluidInv, NEW o, MoveFluid(o)
  PROVE  LET e == <<o[3], o[4]>>
         IN /\ flow # Nil /\ FlowIsSound
            /\ o \in flow.left /\ o[2] \in Tank /\ o[4] \in Tank
            /\ e \in DOMAIN flow.available /\ flow.available[e] \in Nat
            /\ UNCHANGED vars
            /\ \E used, d \in Nat :
                 LET filled == [level EXCEPT ![o[2]] = @ + used]
                 IN /\ used <= flow.available[e] /\ level[o[2]] + used <= Capacity[o[2]]
                    /\ used > 0 => IsTankLoaded(o[2])
                    /\ d <= used /\ d <= filled[o[4]] /\ (d < used => d = filled[o[4]])
                    /\ level' = [filled EXCEPT ![o[4]] = @ - d]
                    /\ flow' = [network |-> flow.network,
                                available |-> [flow.available EXCEPT ![e] = @ - used],
                                last |-> o, left |-> flow.left \ {o}]
<1> DEFINE e == <<o[3], o[4]>>
           offered == Least({flow.available[e], InserterBandwidth})
           used == Filled(o[2], offered)
           filled == [level EXCEPT ![o[2]] = @ + used]
           d == Least({used, TankBandwidth, filled[o[4]]})
<1>1. /\ flow # Nil /\ o \in flow.left /\ UNCHANGED vars
      /\ level' = [filled EXCEPT ![o[4]] = @ - d]
      /\ flow' = [flow EXCEPT !.available = Remaining(@, e, used), !.left = @ \ {o}, !.last = o]
  BY DEF MoveFluid, Drain
<1>2. FluidTypeOK /\ FlowIsSound
  BY <1>1 DEF FluidInv
<1>3. /\ o[2] \in Tank /\ o[4] \in Tank
      /\ e \in DOMAIN flow.available /\ flow.available[e] \in Nat
  <2>1. o \in Offer
    BY <1>1, <1>2 DEF FluidTypeOK
  <2> QED BY <1>1, <1>2, <2>1 DEF Offer, FluidTypeOK, FlowIsSound
<1>4. /\ TankBandwidth \in Nat /\ InserterBandwidth \in Nat
      /\ level \in [Tank -> Nat]
  BY <1>2, FluidAssumption DEF FluidTypeOK
<1> HIDE DEF e
<1>5. offered \in Nat /\ offered <= flow.available[e]
  BY <1>3, <1>4, LeastOfTwo
<1> HIDE DEF offered
<1>6. /\ used \in Nat /\ used <= offered /\ used <= TankBandwidth
      /\ level[o[2]] + used <= Capacity[o[2]] /\ (used > 0 => IsTankLoaded(o[2]))
  BY <1>2, <1>3, <1>5, FilledBounds
<1> HIDE DEF used
<1>7. filled[o[4]] \in Nat
  BY <1>3, <1>4, <1>6
<1> HIDE DEF filled
<1>8. /\ d \in Nat /\ d <= used /\ d <= filled[o[4]]
      /\ d < used => d = filled[o[4]]
  <2>1. /\ d \in {used, TankBandwidth, filled[o[4]]}
        /\ d <= used /\ d <= TankBandwidth /\ d <= filled[o[4]]
    BY <1>4, <1>6, <1>7, LeastOfThree
  <2> QED BY <1>4, <1>6, <1>7, <2>1
<1> HIDE DEF d
<1>9. used <= flow.available[e]
  BY <1>3, <1>5, <1>6
<1>10. flow' = [network |-> flow.network, available |-> [flow.available EXCEPT ![e] = @ - used],
                last |-> o, left |-> flow.left \ {o}]
  BY <1>1, <1>2 DEF FlowIsSound, Remaining
<1> QED BY <1>1, <1>2, <1>3, <1>6, <1>8, <1>9, <1>10 DEF filled, e

LEMMA MoveFluidInv ==
  ASSUME FluidInv, SettleInv', NEW o, MoveFluid(o)
  PROVE  FluidInv'
<1> DEFINE e == <<o[3], o[4]>>
           s == o[4]
           t == o[2]
<1>1. /\ flow # Nil /\ FlowIsSound
      /\ o \in flow.left /\ t \in Tank /\ s \in Tank
      /\ e \in DOMAIN flow.available /\ flow.available[e] \in Nat
      /\ UNCHANGED vars
  BY MoveFluidEffect
<1>2. PICK used \in Nat, d \in Nat :
        LET filled == [level EXCEPT ![t] = @ + used]
        IN /\ used <= flow.available[e] /\ level[t] + used <= Capacity[t]
           /\ d <= used /\ d <= filled[s]
           /\ level' = [filled EXCEPT ![s] = @ - d]
           /\ flow' = [network |-> flow.network,
                       available |-> [flow.available EXCEPT ![e] = @ - used],
                       last |-> o, left |-> flow.left \ {o}]
  BY MoveFluidEffect
<1>3. /\ FluidTypeOK /\ level \in [Tank -> Nat] /\ Capacity \in [Tank -> Nat]
      /\ \A u \in Tank : level[u] <= Capacity[u]
  BY FluidAssumption DEF FluidInv, FluidTypeOK
<1>4. /\ level' \in [Tank -> Nat]
      /\ \A u \in Tank : level'[u] <= Capacity[u] /\ (u # s => level'[u] >= level[u])
      /\ level'[s] >= level[s] - used
  <2> DEFINE filled == [level EXCEPT ![t] = @ + used]
  <2>1. filled \in [Tank -> Nat] /\ \A u \in Tank : filled[u] <= Capacity[u] /\ filled[u] >= level[u]
    BY <1>1, <1>2, <1>3
  <2>2. level' = [filled EXCEPT ![s] = @ - d] /\ d <= filled[s] /\ d <= used
    BY <1>2
  <2> HIDE DEF filled, s
  <2>3. filled[s] - d \in Nat
    BY <1>1, <2>1, <2>2
  <2>4. level' \in [Tank -> Nat]
    BY <2>1, <2>2, <2>3
  <2>5. \A u \in Tank : level'[u] = IF u = s THEN filled[s] - d ELSE filled[u]
    BY <2>1, <2>2
  <2>6. \A u \in Tank : filled[u] \in Nat /\ level[u] \in Nat /\ Capacity[u] \in Nat
    BY <1>3, <2>1
  <2> QED BY <1>1, <2>1, <2>2, <2>4, <2>5, <2>6
<1>5. /\ DOMAIN flow'.available = DOMAIN flow.available
      /\ flow'.network = flow.network /\ flow'.left = flow.left \ {o} /\ flow'.last = o
      /\ flow'.available \in [DOMAIN flow.available -> Nat]
      /\ \A c \in DOMAIN flow.available :
           flow'.available[c] = IF c = e THEN flow.available[e] - used ELSE flow.available[c]
  <2>1. /\ flow.available \in [DOMAIN flow.available -> Nat]
        /\ flow.available[e] - used \in Nat
    BY <1>1, <1>2 DEF FlowIsSound
  <2>2. flow' = [network |-> flow.network,
                 available |-> [flow.available EXCEPT ![e] = @ - used],
                 last |-> o, left |-> flow.left \ {o}]
    BY <1>2
  <2> HIDE DEF e
  <2> QED BY <1>1, <2>1, <2>2
<1>6. FluidTypeOK'
  <2>1. /\ flow.network \in NetworkId /\ DOMAIN flow.available \subseteq Entry
        /\ flow.left \subseteq Offer
    BY <1>1, <1>3 DEF FluidTypeOK
  <2> QED BY <1>1, <1>4, <1>5, <2>1 DEF FluidTypeOK
<1>7. \A p : (IsPresent(p))' = IsPresent(p) /\ (DeviceTypeOf(p))' = DeviceTypeOf(p)
  BY <1>1 DEF vars, IsPresent, NodeAt, DeviceTypeOf
<1>8. /\ (MembersOf(flow.network))' = MembersOf(flow.network)
      /\ \A u : (IsTankLoaded(u))' = IsTankLoaded(u)
  BY <1>1, <1>5 DEF vars, MembersOf, Registered, IsTankLoaded
<1>9. ASSUME NEW c \in DOMAIN flow.available, ~ IsShared(c)
      PROVE  flow'.available[c] <= level'[c[2]]
  <2>1. flow.available[c] <= level[c[2]]
    BY <1>1, <1>9 DEF FlowIsSound
  <2>2. c[2] \in Tank /\ flow.available[c] \in Nat
    BY <1>1, <1>3 DEF FluidTypeOK, Entry, FlowIsSound
  <2>3. level[c[2]] \in Nat /\ level'[c[2]] \in Nat
    BY <1>3, <1>4, <2>2
  <2>4. CASE c = e
    <3>1. c[2] = s
      BY <2>4
    <3>2. flow'.available[c] = flow.available[c] - used
      BY <1>5, <2>4
    <3> QED BY <1>4, <2>1, <2>2, <2>3, <3>1, <3>2
  <2>5. CASE c # e
    <3>1. c[2] # s
      BY <1>1, <1>9, <2>5 DEF IsShared
    <3>2. level'[c[2]] >= level[c[2]] /\ flow'.available[c] = flow.available[c]
      BY <1>4, <1>5, <2>2, <2>5, <3>1
    <3> QED BY <2>1, <2>2, <2>3, <3>2
  <2> QED BY <2>4, <2>5
<1>10. \A c \in DOMAIN flow.available : (IsShared(c))' = IsShared(c)
  BY <1>5 DEF IsShared
<1>11. FlowIsSound'
  <2>1. phase' = "networks" /\ flow' = [network |-> flow'.network, available |-> flow'.available,
                                        last |-> flow'.last, left |-> flow'.left]
    BY <1>1, <1>2 DEF FlowIsSound, vars
  <2>2. \A p, y : (IsDuct(p, y))' = IsDuct(p, y)
    BY <1>5, <1>7, <1>8 DEF IsDuct
  <2>3. /\ \A c \in DOMAIN flow.available :
             IsDuct(c[1], "extractor") /\ c[2] \in TankBeside[c[1]] /\ IsTankLoaded(c[2])
        /\ \A r \in flow.left :
             /\ IsDuct(r[1], "inserter") /\ r[2] \in TankBeside[r[1]]
             /\ <<r[3], r[4]>> \in DOMAIN flow.available
    BY <1>1 DEF FlowIsSound
  <2> HIDE DEF e
  <2> QED BY <1>5, <1>8, <1>9, <1>10, <2>1, <2>2, <2>3 DEF FlowIsSound
<1> QED BY <1>6, <1>11 DEF FluidInv

LEMMA FluidNextInv == FluidInv /\ [FluidNext]_fluidvars => FluidInv'
<1> SUFFICES ASSUME FluidInv, [FluidNext]_fluidvars PROVE FluidInv'
  OBVIOUS
<1>1. SettleInv /\ FluidTypeOK
  BY DEF FluidInv
<1>2. SettleInv'
  BY <1>1, FluidStep, NextSettles DEF SettleInv
<1>3. ASSUME UNCHANGED <<level, flow>>, flow = Nil \/ UNCHANGED vars PROVE FluidInv'
  <2>1. FluidTypeOK'
    BY <1>1, <1>3 DEF FluidTypeOK
  <2>2. ASSUME flow # Nil PROVE FlowIsSound'
    <3>1. UNCHANGED vars /\ FlowIsSound
      BY <1>3, <2>2 DEF FluidInv
    <3> QED BY <1>3, <3>1 DEF FlowIsSound, IsDuct, IsPresent, NodeAt, DeviceTypeOf, MembersOf, Registered,
                            IsTankLoaded, IsShared, vars
  <2> QED BY <1>2, <1>3, <2>1, <2>2 DEF FluidInv
<1>4. CASE flow # Nil => phase # "networks"
  <2>1. flow = Nil
    BY <1>4 DEF FluidInv, FlowIsSound
  <2> QED
    BY <1>2, <1>3, <2>1, BeginFlowInv DEF FluidNext, fluidvars, MoveFluid, EndFlow
<1>5. CASE flow # Nil /\ phase = "networks"
  <2>1. ~ Environment
    BY <1>5 DEF Environment, PlaceNode, SwitchValve, DigNode, IsActive, UnloadBlock, LoadBlock,
                ActivateBlock, ExpireBlock
  <2>2. ~ BeginUpdate /\ ~ BeginNetworks /\ \A p \in Pos : ~ ResolvePosition(p)
    BY <1>5 DEF BeginUpdate, BeginNetworks, ResolvePosition
  <2>3. \A n \in NetworkId : ~ BeginFlow(n)
    BY <1>5 DEF BeginFlow
  <2>4. ASSUME EndFlow PROVE FluidInv'
    BY <1>1, <1>2, <2>4 DEF EndFlow, FluidInv, FluidTypeOK
  <2>5. ASSUME UNCHANGED fluidvars PROVE FluidInv'
    BY <1>3, <2>5 DEF fluidvars
  <2> QED BY <1>2, <1>5, <2>1, <2>2, <2>3, <2>4, <2>5, MoveFluidInv DEF FluidNext
<1> QED BY <1>4, <1>5

\* A step that changes a level moves fluid.
LEMMA LevelsChangeByMoving ==
  ASSUME [FluidNext]_fluidvars, level' # level
  PROVE  \E o : MoveFluid(o)
BY DEF FluidNext, fluidvars, BeginFlow, EndFlow

LEMMA AlwaysFluidInv == FluidSpec => []FluidInv
BY FluidInitInv, FluidNextInv, PTL DEF FluidSpec

\* No tank holds less than nothing or more than it has room for, however many
\* networks, extractors and inserters share it.
THEOREM FluidTypeCorrect == FluidSpec => []FluidTypeOK
<1>1. FluidInv => FluidTypeOK
  BY DEF FluidInv
<1> QED BY <1>1, AlwaysFluidInv, PTL

\* Two pipes of one network lead to each other.
LEMMA MembersAreConnected ==
  ASSUME FluidInv, flow # Nil, FlowIsSound, BlocksAreSettled,
         NEW x, IsDuct(x, "extractor"), NEW i, IsDuct(i, "inserter")
  PROVE  /\ x \in Pos /\ IsDevice(x) /\ TypeOf[world[x]] = "extractor"
         /\ i \in Pos /\ IsDevice(i) /\ TypeOf[world[i]] = "inserter"
         /\ i \in Flood(x, Seen)
<1>1. SettleInv /\ gtn.queue = {} /\ batch = {}
  BY DEF FluidInv, SettleInv, PhasesInOrder, FlowIsSound
<1>2. \A p \in Registered : p \in Pos /\ gtn.members[p].name \in Kind /\ gtn.members[p].name = world[p]
  BY <1>1 DEF SettleInv, Inv, Agree, MembersAgree, NamesAreKnown, Registered, Member
<1>3. ASSUME NEW p, NEW y, IsDuct(p, y)
      PROVE  /\ p \in Pos /\ p \in Registered /\ IsDevice(p) /\ TypeOf[world[p]] = y
             /\ gtn.members[p].network = flow.network /\ NodeAt(p) = world[p]
  BY <1>2, <1>3 DEF IsDuct, MembersOf, IsPresent, DeviceTypeOf, IsDevice
<1>4. IsPipe(x)
  <2>1. NodeAt(x) \in Kind /\ TypeOf[NodeAt(x)] = "extractor"
    BY <1>3 DEF IsDevice
  <2> QED BY <2>1 DEF IsPipe, Conducting
<1>5. IsWhole(x)
  BY <1>1, <1>3, <1>4, SettledAreWhole
<1> QED BY <1>3, <1>5 DEF IsWhole, IsDuct

LEMMA FluidFollows ==
  ASSUME FluidInv, [FluidNext]_fluidvars, BlocksAreSettled, NEW t \in Tank, level'[t] > level[t]
  PROVE  \E s \in Tank \ {t} : IsPiped(s, t)
<1>1. PICK o : MoveFluid(o)
  <2>1. level[t] \in Nat
    BY DEF FluidInv, FluidTypeOK
  <2>2. level' # level
    BY <2>1
  <2> QED BY <2>2, LevelsChangeByMoving
<1> DEFINE e == <<o[3], o[4]>>
<1>2. /\ flow # Nil /\ FlowIsSound
      /\ o \in flow.left /\ o[2] \in Tank /\ o[4] \in Tank /\ e \in DOMAIN flow.available
  BY <1>1, MoveFluidEffect
<1>3. PICK used \in Nat, d \in Nat :
        LET filled == [level EXCEPT ![o[2]] = @ + used]
        IN /\ used > 0 => IsTankLoaded(o[2])
           /\ d < used => d = filled[o[4]]
           /\ level' = [filled EXCEPT ![o[4]] = @ - d]
  BY <1>1, MoveFluidEffect
<1>4. level \in [Tank -> Nat]
  BY DEF FluidInv, FluidTypeOK
<1>5. t = o[2] /\ used > 0
  BY <1>2, <1>3, <1>4
<1>6. IsTankLoaded(o[2]) /\ IsTankLoaded(o[4])
  BY <1>2, <1>3, <1>5 DEF FlowIsSound
<1>7. /\ IsDuct(o[3], "extractor") /\ o[4] \in TankBeside[o[3]]
      /\ IsDuct(o[1], "inserter") /\ o[2] \in TankBeside[o[1]]
  BY <1>2 DEF FlowIsSound
<1>8. IsPiped(o[4], o[2])
  BY <1>2, <1>6, <1>7, MembersAreConnected DEF IsPiped
\* A tank that takes its own fluid is drained of as much.
<1>9. o[4] # t
  BY <1>2, <1>3, <1>4, <1>5
<1> QED BY <1>2, <1>5, <1>8, <1>9

\* While no block is on its way, fluid rises in a tank only if pipes lead to
\* it from another one, on the map as it is at that moment.
THEOREM FluidAlwaysFollowsPipes == FluidSpec => FluidFollowsPipes
<1>1. FluidInv /\ [FluidNext]_fluidvars =>
        [BlocksAreSettled =>
           \A t \in Tank : level'[t] > level[t] => \E s \in Tank \ {t} : IsPiped(s, t)]_level
  BY FluidFollows
<1> QED BY <1>1, AlwaysFluidInv, PTL DEF FluidSpec, FluidFollowsPipes

\* A sum changes with one of its elements.
LEMMA SumWithOneChanged ==
  ASSUME NEW w \in [Tank -> Nat], NEW v \in [Tank -> Nat], NEW t \in Tank,
         \A u \in Tank : u # t => w[u] = v[u]
  PROVE  /\ Sum(w, Tank) \in Nat /\ Sum(v, Tank) \in Nat
         /\ Sum(v, Tank) + w[t] = Sum(w, Tank) + v[t]
<1> DEFINE R == Tank \ {t}
<1>1. IsFiniteSet(Tank) /\ IsFiniteSet(R) /\ \A c \in R : w[c] = v[c]
  BY FluidAssumption, FS_Subset
<1>2. Sum(w, R) = Sum(v, R)
  <2> HIDE DEF R
  <2> QED BY <1>1, SumOfSame, Zenon
<1>3. /\ Sum(w, Tank) \in Nat /\ Sum(w, R) \in Nat /\ Sum(w, Tank) = Sum(w, R) + w[t]
      /\ Sum(v, Tank) \in Nat /\ Sum(v, Tank) = Sum(v, R) + v[t]
  BY <1>1, SumOfSome
<1>4. w[t] \in Nat /\ v[t] \in Nat
  OBVIOUS
<1> HIDE DEF R
<1> QED BY <1>2, <1>3, <1>4

LEMMA FluidKept ==
  ASSUME FluidInv, FluidInv', [FluidNext]_fluidvars, level' # level
  PROVE  /\ Total' >= Total
         /\ Total' > Total =>
              \E x, y \in Pos, s \in Tank :
                x # y /\ {<<x, s>>, <<y, s>>} \subseteq DOMAIN flow.available
<1>1. PICK o : MoveFluid(o)
  BY LevelsChangeByMoving
<1> DEFINE e == <<o[3], o[4]>>
           t == o[2]
           s == o[4]
<1>2. /\ flow # Nil /\ FlowIsSound /\ o \in flow.left /\ t \in Tank /\ s \in Tank
      /\ e \in DOMAIN flow.available /\ flow.available[e] \in Nat
  BY <1>1, MoveFluidEffect
<1>3. PICK used \in Nat, d \in Nat :
        LET filled == [level EXCEPT ![t] = @ + used]
        IN /\ used <= flow.available[e] /\ d <= used /\ (d < used => d = filled[s])
           /\ level' = [filled EXCEPT ![s] = @ - d]
  BY <1>1, MoveFluidEffect
<1>4. level \in [Tank -> Nat] /\ level' \in [Tank -> Nat]
  BY DEF FluidInv, FluidTypeOK
<1> DEFINE filled == [level EXCEPT ![t] = @ + used]
<1>5. /\ Sum(level, Tank) \in Nat /\ Sum(level', Tank) \in Nat
      /\ Sum(level', Tank) + d = Sum(level, Tank) + used
  <2>1. /\ filled \in [Tank -> Nat] /\ filled[t] = level[t] + used
        /\ \A u \in Tank : u # t => level[u] = filled[u]
    BY <1>2, <1>4
  <2>2. level' = [filled EXCEPT ![s] = @ - d]
    BY <1>3
  <2>3. level[t] \in Nat /\ filled[s] \in Nat
    BY <1>2, <1>4, <2>1
  <2> HIDE DEF filled, s, t
  <2>4. level'[s] = filled[s] - d /\ \A u \in Tank : u # s => filled[u] = level'[u]
    BY <1>2, <2>1, <2>2
  <2>5. Sum(filled, Tank) \in Nat /\ Sum(filled, Tank) + level[t] = Sum(level, Tank) + filled[t]
    BY <1>2, <1>4, <2>1, SumWithOneChanged
  <2>6. /\ Sum(level, Tank) \in Nat /\ Sum(level', Tank) \in Nat
        /\ Sum(level', Tank) + filled[s] = Sum(filled, Tank) + level'[s]
    BY <1>2, <1>4, <2>1, <2>4, SumWithOneChanged
  <2> QED BY <2>1, <2>3, <2>4, <2>5, <2>6
<1>6. ASSUME d < used
      PROVE  \E x, y \in Pos, u \in Tank : x # y /\ {<<x, u>>, <<y, u>>} \subseteq DOMAIN flow.available
  <2>1. d = filled[s]
    BY <1>3, <1>6
  <2>2. level[s] \in Nat /\ level[t] \in Nat /\ d >= level[s]
    BY <1>2, <1>4, <2>1
  <2>3. level[s] < flow.available[e]
    BY <1>2, <1>3, <1>6, <2>2
  <2>4. IsShared(e)
    BY <1>2, <2>2, <2>3 DEF FlowIsSound
  <2>5. PICK c \in DOMAIN flow.available : c # e /\ c[2] = s
    BY <2>4 DEF IsShared
  <2>6. DOMAIN flow.available \subseteq Entry
    BY <1>2 DEF FluidInv, FluidTypeOK
  <2>7. c = <<c[1], s>> /\ c[1] \in Pos /\ o[3] \in Pos /\ c[1] # o[3]
    BY <1>2, <2>5, <2>6 DEF Entry
  <2> QED BY <1>2, <2>5, <2>7
<1>7. d \in Nat /\ used \in Nat /\ d <= used
  BY <1>3
<1>8. Sum(level', Tank) >= Sum(level, Tank) /\ (Sum(level', Tank) > Sum(level, Tank) => d < used)
  BY <1>5, <1>7
<1>9. Total = Sum(level, Tank) /\ Total' = Sum(level', Tank)
  BY DEF Total, Sum, Units, UnitsOf
<1> QED BY <1>6, <1>8, <1>9

\* No fluid is lost on the way, and what is more afterwards was found by two
\* extractors that share a tank.
THEOREM FluidIsAlwaysKept == FluidSpec => FluidIsKept
<1>1. FluidInv /\ FluidInv' /\ [FluidNext]_fluidvars =>
        [/\ Total' >= Total
         /\ Total' > Total =>
              \E x, y \in Pos, s \in Tank :
                x # y /\ {<<x, s>>, <<y, s>>} \subseteq DOMAIN flow.available]_level
  BY FluidKept
<1> QED BY <1>1, AlwaysFluidInv, PTL DEF FluidSpec, FluidIsKept
=============================================================================
