--------------------------- MODULE MCEnergySystem ---------------------------
(* Small clusters for EnergySystem: two storages in front of two cells.     *)
EXTENDS EnergySystem, TLC

CONSTANTS generator, furnace, mill, north, south, slow, fast

\* Each storage has a cell of its own, or both front both cells.
OwnCells == [s \in Storage |-> IF s = north THEN {slow} ELSE {fast}]
SharedCells == [s \in Storage |-> Cell]

MCCapacity == [c \in Cell |-> IF c = slow THEN 3 ELSE 2]
MCBandwidth == [c \in Cell |-> IF c = slow THEN 1 ELSE 2]
=============================================================================
