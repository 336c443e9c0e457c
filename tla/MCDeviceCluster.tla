--------------------------- MODULE MCDeviceCluster ---------------------------
(* Small worlds for DeviceCluster: controllers of the tiers 1 and 2, cables *)
(* that show the state of their cluster, and a machine that works.          *)
EXTENDS DeviceCluster, TLC

CONSTANTS
  host, bank, cable_off, cable_on, red_off, red_on, blue, machine_off, machine_on, machine_idle,
  near, far, none, crimson, azure

At(x) == <<x, 0, 0>>

Pair == {At(0), At(1)}
Line == {At(0), At(1), At(2)}

OneBlock == [p \in Pos |-> near]
TwoBlocks == [p \in Pos |-> IF p[1] = 0 THEN near ELSE far]

MCColorOf ==
  [k \in Kind |-> CASE k \in {red_off, red_on} -> crimson [] k = blue -> azure [] OTHER -> none]

MCTierOf == [k \in Kind |-> CASE k = host -> 1 [] k = bank -> 2 [] OTHER -> 0]

MCGroupsOf ==
  [k \in Kind |-> IF k \in {host, bank} THEN {"device_controller"} ELSE {}]

Machine == {machine_off, machine_on, machine_idle} \cap Kind

\* A conflict switches a cable off; a machine that is up may be idle.
MCVariantOf ==
  [k \in Kind |-> [s \in DeviceState |->
     CASE k \in {cable_off, cable_on} -> IF s = "up" THEN {cable_on} ELSE {cable_off}
       [] k \in {red_off, red_on} -> IF s = "up" THEN {red_on} ELSE {red_off}
       [] k \in Machine -> IF s = "up" THEN Machine \ {machine_off} ELSE {machine_off}
       [] OTHER -> {}]]

MCOwnNames == [k \in Kind |-> IF k \in Machine THEN Machine ELSE {}]

\* pairs() starts to the east, or to the west.
MCWalks == { << <<1, 0, 0>>, <<-1, 0, 0>>, <<0, 1, 0>>, <<0, -1, 0>>, <<0, 0, 1>>, <<0, 0, -1>> >>,
             << <<-1, 0, 0>>, <<0, 0, 1>>, <<0, 0, -1>>, <<0, 1, 0>>, <<0, -1, 0>>, <<1, 0, 0>> >> }
=============================================================================
