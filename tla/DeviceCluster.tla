---------------------------- MODULE DeviceCluster ----------------------------
(***************************************************************************)
(* yatm_cluster_devices/init.lua: the simple cluster of all devices, which *)
(* elects a controller whenever its nodes change and puts its devices in   *)
(* the state that follows.  Three events of three successive updates do    *)
(* it: add_node, refresh_controller and transition_state; the devices that *)
(* change their name because of it schedule update_node for a fourth.      *)
(***************************************************************************)
EXTENDS SimpleCluster

CONSTANTS
  Placeable,   \* the names players place: those of the default states
  TierOf,      \* [Kind -> 0..99], the tier as "device_controller", 0 if it is none
  VariantOf,   \* [Kind -> [DeviceState -> SUBSET Kind]], yatm_network.states: the
               \* names for a state, several where metadata decides, none for some
  OwnNames     \* [Kind -> SUBSET Kind], the names a device takes by itself

Controller == "device_controller"

ASSUME DeviceAssumption ==
  /\ DeviceState = {"up", "down", "conflict"}
  /\ Controller \in NodeGroup
  /\ Placeable \subseteq Kind
  /\ TierOf \in [Kind -> 0..99]
  /\ \A k \in Kind : TierOf[k] > 0 <=> Controller \in GroupsOf[k]
  /\ VariantOf \in [Kind -> [DeviceState -> SUBSET Kind]]
  /\ OwnNames \in [Kind -> SUBSET Kind]

\* The nodes a device is swapped between.
Variants(k) == OwnNames[k] \cup UNION {VariantOf[k][state] : state \in DeviceState}

\* register_stateful_network_device makes the nodes of all states of a device
\* out of one definition: they share its groups, its colour and its states.
VariantsAreAlike ==
  \A k \in Kind : \A v \in Variants(k) :
    /\ GroupsOf[v] = GroupsOf[k] /\ TierOf[v] = TierOf[k] /\ ColorOf[v] = ColorOf[k]
    /\ VariantOf[v] = VariantOf[k] /\ OwnNames[v] = OwnNames[k]

ASSUME VariantAssumption == VariantsAreAlike

Refresh(c) == [name |-> "refresh_controller", cluster_id |-> c]
Transition(c, state) == [name |-> "transition_state", cluster_id |-> c, state |-> state]

DeviceEvent ==
  Event \cup [name : {"refresh_controller"}, cluster_id : ClusterId]
        \cup [name : {"transition_state"}, cluster_id : ClusterId, state : DeviceState]

DeviceTypeOK ==
  /\ IsRegistry(reg)
  /\ world \in [Pos -> Kind \cup {Air}]
  /\ loaded \subseteq Block
  /\ queue \in Seq(DeviceEvent) /\ batch \in Seq(DeviceEvent)
  /\ phase \in {"idle", "events", "crashed"}

(***************************************************************************)
(* The election of _handle_refresh_controller.                             *)
(***************************************************************************)
Controllers(k) == {p \in Members(k) : <<Controller, p>> \in k.group_nodes}

Tier(k, p) == TierOf[k.nodes[p]]

\* The controllers of the lowest tier number.
Leaders(k) == {p \in Controllers(k) : \A q \in Controllers(k) : Tier(k, p) <= Tier(k, q)}

Hosts(k) == {p \in Controllers(k) : Tier(k, p) = 1}

\* The outcomes [controller, state] the handler can come to.
Elections(k) ==
  IF Controllers(k) = {} THEN {[controller |-> Nil, state |-> "down"]}
  ELSE IF Cardinality(Hosts(k)) > 1 THEN {[controller |-> Nil, state |-> "conflict"]}
  ELSE {[controller |-> p, state |-> "up"] : p \in Leaders(k)}

SetAssigns(r, c, assigns) == [r EXCEPT !.m_clusters = [@ EXCEPT ![c].assigns = assigns]]

(***************************************************************************)
(* The event handlers.                                                     *)
(***************************************************************************)
HandleAddDevice ==
  /\ TakeEvent("add_node") \/ TakeEvent("load_node")
  /\ \E c \in ClusterId \cap 1..NextId(reg) :
       /\ handle_add_node(Head(batch), c)
       /\ queue' = Append(queue, Refresh(c))
  /\ UNCHANGED <<world, loaded, phase>>

\* on_cluster_branch_changed schedules a refresh of every rebuilt branch.
HandleRemoveDevice ==
  /\ TakeEvent("remove_node")
  /\ \E walk \in Walks :
       LET branches == Branches(Head(batch).pos, walk)
       IN /\ handle_remove_node(Head(batch), branches)
          /\ queue' = queue \o [i \in 1..Cardinality(branches) |-> Refresh(reg.m_cluster_id + i)]
  /\ UNCHANGED <<world, loaded, phase>>

\* mutant: a refresh that is skipped is tried again
HandleRefreshSkipped_Retries ==
  /\ TakeEvent("refresh_controller")
  /\ LET c == Head(batch).cluster_id
     IN c \in Live(reg) => reg.m_clusters[c].assigns.generation_id
  /\ queue' = Append(queue, Head(batch))
  /\ UNCHANGED <<reg, world, loaded, phase>>

\* An event for a cluster that is gone, or already refreshed in this update.
HandleRefreshSkipped ==
  /\ TakeEvent("refresh_controller")
  /\ LET c == Head(batch).cluster_id
     IN c \in Live(reg) => reg.m_clusters[c].assigns.generation_id
  /\ UNCHANGED <<reg, world, loaded, queue, phase>>

HandleRefresh ==
  /\ TakeEvent("refresh_controller")
  /\ LET c == Head(batch).cluster_id
         k == reg.m_clusters[c]
     IN /\ c \in Live(reg) /\ ~k.assigns.generation_id
        /\ \E e \in Elections(k) :
             /\ reg' = SetAssigns(reg, c, [k.assigns EXCEPT !.generation_id = TRUE,
                                                            !.controller_id = e.controller])
             /\ queue' = Append(queue, Transition(c, e.state))
  /\ UNCHANGED <<world, loaded, phase>>

HandleTransitionSkipped ==
  /\ TakeEvent("transition_state")
  /\ Head(batch).cluster_id \notin Live(reg)
  /\ UNCHANGED <<reg, world, loaded, queue, phase>>

\* mutant: the walk over the members ends with the first one
Names_FirstOnly(k, state) ==
  LET all == {p \in Members(k) : IsVisible(p) /\ VariantOf[world[p]][state] # {}}
      first == IF all = {} THEN {} ELSE {CHOOSE p \in all : TRUE}
  IN {f \in [first -> Kind] : \A p \in first : f[p] \in VariantOf[world[p]][state]}

\* transition_device_state of every member still in the world: the names the
\* devices may take for the state, those that have one.  A device that is up
\* is "on" or what its metadata says (up_state, fuel).
Names(k, state) ==
  LET stateful == {p \in Members(k) : IsVisible(p) /\ VariantOf[world[p]][state] # {}}
  IN {f \in [stateful -> Kind] : \A p \in stateful : f[p] \in VariantOf[world[p]][state]}

\* Only a device whose name changes is swapped and schedules an update.
HandleTransition ==
  /\ TakeEvent("transition_state")
  /\ LET c == Head(batch).cluster_id
         state == Head(batch).state
         k == reg.m_clusters[c]
     IN /\ c \in Live(reg)
        /\ reg' = SetAssigns(reg, c, [k.assigns EXCEPT !.state = state])
        /\ \E name \in Names(k, state) :
             LET changing == {p \in DOMAIN name : name[p] # world[p]}
                 Updated(p) == [name |-> "update_node", pos |-> p, kind |-> name[p]]
             IN /\ world' = [p \in Pos |-> IF p \in changing THEN name[p] ELSE world[p]]
                /\ \E s \in Orders(changing) :
                     queue' = queue \o [i \in DOMAIN s |-> Updated(s[i])]
  /\ UNCHANGED <<loaded, phase>>

\* When all events are handed out the systems run, in an update that is long
\* enough.  A machine starts, stops or idles as its energy lasts, an engine as
\* its fuel does, whatever the state of their device cluster.  This does not
\* touch the clusters, so that it makes no difference that here it comes before
\* the empty cluster is destroyed.
Work(p, kind) ==
  /\ "work" \in Environment
  /\ phase = "events" /\ batch = <<>>
  /\ IsVisible(p)
  /\ kind \in OwnNames[world[p]] \ {world[p]}
  /\ Len(queue) < MaxQueue
  /\ world' = [world EXCEPT ![p] = kind]
  /\ Schedule("update_node", p, kind)
  /\ UNCHANGED <<reg, loaded, batch, phase>>

DeviceUpdate ==
  \/ BeginUpdate
  \/ HandleAddDevice
  \/ HandleUpdateNode
  \/ HandleUpdateNodeCrash
  \/ HandleRemoveDevice
  \/ HandleRefresh
  \/ HandleRefreshSkipped
  \/ HandleTransition
  \/ HandleTransitionSkipped
  \/ EndUpdate

DeviceNext ==
  \/ DeviceUpdate
  \/ EndShortUpdate
  \/ \E p \in Pos, kind \in Placeable : PlaceNode(p, kind)
  \/ \E p \in Pos, kind \in Kind : Work(p, kind)
  \/ \E p \in Pos : DigNode(p)
  \/ \E b \in Block : UnloadBlock(b) \/ ActivateBlock(b)

DeviceSpec == Init /\ [][DeviceNext]_vars

FairDeviceSpec == DeviceSpec /\ WF_vars(DeviceUpdate) /\ SF_vars(EndUpdate)

(***************************************************************************)
(* The election settles.                                                   *)
(***************************************************************************)
NonEmpty == {c \in Live(reg) : ~IsEmpty(reg.m_clusters[c])}

\* When all events are handled every cluster is in the state, and has the
\* controller, its present members elect: no sequence of merges, joins and
\* skipped refreshes leaves a decision behind that was taken for other nodes.
ElectionIsCurrent ==
  Settled => \A c \in NonEmpty :
    LET k == reg.m_clusters[c]
    IN [controller |-> k.assigns.controller_id, state |-> k.assigns.state] \in Elections(k)

\* When all events are handled every device shows the state of its cluster, or
\* what it has decided by itself: a cable, a bus or an idle machine never keeps a
\* name of a state its cluster has left.
DevicesFollowCluster ==
  Settled => \A c \in NonEmpty : \A p \in Members(reg.m_clusters[c]) :
    LET shown == VariantOf[world[p]][reg.m_clusters[c].assigns.state]
    IN IsVisible(p) /\ shown # {} => world[p] \in shown \cup OwnNames[world[p]]

\* The events a change sets off die out: once the world stops, so do they.
EventsDieOut ==
  <>[][DeviceUpdate \/ EndShortUpdate]_vars => <>[](queue = <<>>)

=============================================================================
