---------------------------- MODULE MCDataNetwork ----------------------------
(***************************************************************************)
(* Instances of DataNetwork: a line of four positions in two map blocks    *)
(* that come and go.                                                       *)
(***************************************************************************)
EXTENDS DataNetwork

CONSTANTS west, hub, gate, east, pulser, buffer, anybus, whitebus,
          greybus, multi, white, grey, far, near

Line ==
  [p \in Pos |-> CASE p = west -> {hub} [] p = hub -> {west, gate}
                   [] p = gate -> {hub, east} [] p = east -> {gate}]

MCTypeOf == [k \in Kind |-> IF k \in {pulser, buffer} THEN "device" ELSE "bus"]

\* A white bus connects to no grey one, a multi bus to both.
MCColorOf ==
  [k \in Kind |-> CASE k = greybus -> grey [] k = whitebus -> white [] OTHER -> multi]

\* A port of the grey bus is one of the multi bus, by another number.
MCOffset == [c \in Color |-> IF c = grey THEN 2 ELSE 0]
MCPortRange == [c \in Color |-> IF c = multi THEN 4 ELSE 2]

\* A buffer hears itself.
MCInput == [k \in Kind |-> IF k = buffer THEN {1} ELSE {}]
MCOutput == [k \in Kind |-> CASE k = pulser -> {1, 3} [] k = buffer -> {1} [] OTHER -> {}]

MCBuilt ==
  [p \in Pos |-> CASE p = west -> {pulser} [] p = hub -> {anybus, whitebus}
                   [] p = gate -> {greybus} [] p = east -> {buffer}]

MCBlockOf == [p \in Pos |-> IF p = west THEN far ELSE near]
=============================================================================
