--------------------------- MODULE MCSimpleCluster ---------------------------
(* Small worlds for SimpleCluster: positions on a grid, at most three map   *)
(* blocks along the x axis, cables of one colour or of no colour.           *)
EXTENDS SimpleCluster, TLC

CONSTANTS plain, lit, red, blue, near, middle, far, none, crimson, azure

At(x) == <<x, 0, 0>>

Pair == {At(0), At(1)}
Line == {At(0), At(1), At(2)}
Row == Line \cup {At(3)}

\* One block for all, or one block for each position.
OneBlock == [p \in Pos |-> near]
ManyBlocks == [p \in Pos |-> CASE p[1] = 0 -> near [] p[1] = 1 -> middle [] OTHER -> far]

MCColorOf == [k \in Kind |-> CASE k = red -> crimson [] k = blue -> azure [] OTHER -> none]

\* A lit node also belongs to the producers.
MCGroupsOf ==
  [k \in Kind |-> {"device_controller"} \cup IF k = lit THEN {"energy_producer"} ELSE {}]

East == <<1, 0, 0>>
West == <<-1, 0, 0>>
Up == <<0, 1, 0>>
Down == <<0, -1, 0>>
North == <<0, 0, 1>>
South == <<0, 0, -1>>

\* Walks that visit the eastern neighbour, the western one, and neither; none
\* visits both, since each direction is taken once and nothing is undone before.
MCWalks == { <<East, West, Up, Down, North, South>>,
             <<West, North, South, Up, Down, East>>,
             <<Up, North, East, West, South, Down>> }
=============================================================================
