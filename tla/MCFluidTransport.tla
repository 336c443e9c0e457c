-------------------------- MODULE MCFluidTransport --------------------------
(***************************************************************************)
(* Instances of FluidTransport: a pipe from a well to a basin whose       *)
(* middle is dug, replaced, switched and unloaded.                         *)
(***************************************************************************)
EXTENDS FluidTransport

CONSTANTS west, mid, east, extractor, inserter, open, closed, blue,
          near, far, well, basin, plain, crimson, azure

Line == [p \in Pos |-> IF p = mid THEN Pos \ {mid} ELSE {mid}]

MCTypeOf ==
  [k \in Kind |-> CASE k = extractor -> "extractor" [] k = inserter -> "inserter"
                    [] k \in {open, closed} -> "valve" [] OTHER -> "transporter"]

\* Extractors and inserters have no colour, which matches as the default one
\* does; a valve of another colour does not lead to a blue pipe.
MCColorOf ==
  [k \in Kind |-> CASE k \in {open, closed} -> crimson [] k = blue -> azure [] OTHER -> plain]

MCBuilt ==
  [p \in Pos |-> CASE p = west -> {extractor, blue}
                   [] p = mid -> {open, closed, inserter}
                   [] p = east -> {inserter, extractor}]

MCBlockOf == [p \in Pos |-> IF p = mid THEN far ELSE near]

MCTankBeside ==
  [p \in Pos |-> CASE p = west -> {well} [] p = mid -> {basin}
                   [] p = east -> {well, basin}]

MCTankBlock == [t \in Tank |-> IF t = basin THEN far ELSE near]
MCCapacity == [t \in Tank |-> IF t = well THEN 3 ELSE 2]

\* More than the basin holds, or so little that two extractors promise the
\* same rest.
MCInitialLevels == {[t \in Tank |-> IF t = well THEN n ELSE 0] : n \in {1, 3}}

\* generate_network_id gives every network another id; ids made of the
\* members and a number are as good and fewer.
MCNetworkId == (SUBSET Pos) \X (1..1 + Cardinality(Pos))
MCNewIds == [S \in SUBSET Pos |-> {S} \X (1..1 + Cardinality(Pos))]
=============================================================================
