-------------------------------- MODULE Blobs --------------------------------
(***************************************************************************)
(* What simple_cluster.lua promises in its first line: a simple cluster is *)
(* "a blob of nodes that interconnect just by being beside each other".    *)
(* The registered nodes and the blobs they form, with no identifiers, no   *)
(* indexes and no events.                                                  *)
(***************************************************************************)
EXTENDS Integers

CONSTANTS
  Node,                \* positions
  Name,                \* node names
  Linked(_, _, _, _)   \* Linked(p, m, q, n): m at p and n at q interconnect

VARIABLES
  nodes,               \* table from the registered nodes to their names
  blobs                \* the sets of nodes that form a cluster

vars == <<nodes, blobs>>

\* What the results below need of the links.
LinksGoBothWays ==
  \A p, q \in Node, m, n \in Name :
    /\ Linked(p, m, q, n) \in BOOLEAN
    /\ Linked(p, m, q, n) = Linked(q, n, p, m)

Touch(p, q) == Linked(p, nodes[p], q, nodes[q])

\* No way to cut S in two without cutting a link.
Connected(S) ==
  \A T \in SUBSET S : T # {} /\ T # S => \E p \in T, q \in S \ T : Touch(p, q)

\* The blobs the nodes of S form when they are all there is.
Components(S) ==
  {T \in SUBSET S : /\ T # {}
                    /\ Connected(T)
                    /\ \A p \in T, q \in S \ T : ~Touch(p, q)}

TypeOK ==
  /\ nodes = [p \in DOMAIN nodes |-> nodes[p]]
  /\ DOMAIN nodes \subseteq Node
  /\ \A p \in DOMAIN nodes : nodes[p] \in Name
  /\ blobs \subseteq SUBSET Node

Init == nodes = [p \in {} |-> 0] /\ blobs = {}

\* The blobs a node called n would touch at p.
Reached(p, n) == {B \in blobs : \E q \in B : Linked(p, n, q, nodes[q])}

\* A node appears and glues together all it touches.
Join(p, n) ==
  /\ p \notin DOMAIN nodes
  /\ nodes' = [q \in DOMAIN nodes \cup {p} |-> IF q = p THEN n ELSE nodes[q]]
  /\ blobs' = (blobs \ Reached(p, n)) \cup {(UNION Reached(p, n)) \cup {p}}

\* A node goes and its blob falls apart.  This is what a blob would do; the
\* handler of simple clusters keeps parts together or loses them.
Leave(p) ==
  /\ p \in DOMAIN nodes
  /\ nodes' = [q \in DOMAIN nodes \ {p} |-> nodes[q]]
  /\ blobs' = UNION {IF p \in B THEN Components(B \ {p}) ELSE {B} : B \in blobs}

\* A node takes another name that links to the same neighbours.
Rename(p, n) ==
  /\ p \in DOMAIN nodes
  /\ \A q \in DOMAIN nodes : Linked(p, n, q, nodes[q]) = Touch(p, q)
  /\ nodes' = [nodes EXCEPT ![p] = n]
  /\ UNCHANGED blobs

Next ==
  \/ \E p \in Node : Leave(p)
  \/ \E p \in Node, n \in Name : Join(p, n) \/ Rename(p, n)

Spec == Init /\ [][Next]_vars

(***************************************************************************)
(* The blobs are the connected components of the registered nodes.         *)
(***************************************************************************)

\* Every registered node is in exactly one blob.
BlobsPartitionNodes ==
  /\ UNION blobs = DOMAIN nodes
  /\ {} \notin blobs
  /\ \A A, B \in blobs : A # B => A \cap B = {}

\* Nodes that touch are in the same blob.
TouchingNodesShareBlob ==
  \A A, B \in blobs : \A p \in A, q \in B : Touch(p, q) => A = B

\* The nodes of a blob are held together by links.
BlobsAreConnected == \A B \in blobs : Connected(B)

=============================================================================
