---------------------------- MODULE BlobsProofs ----------------------------
(***************************************************************************)
(* The blobs are the connected components of the registered nodes, for     *)
(* every set of positions, every set of names and every way of linking     *)
(* them that does not depend on the side one looks from.                   *)
(***************************************************************************)
EXTENDS Blobs, TLAPS

\* Touching does not depend on the side.
LEMMA TouchIsSymmetric ==
  ASSUME LinksGoBothWays, TypeOK,
         NEW p \in DOMAIN nodes, NEW q \in DOMAIN nodes
  PROVE  Touch(p, q) \in BOOLEAN /\ Touch(p, q) = Touch(q, p)
BY DEF LinksGoBothWays, TypeOK, Touch

\* Sets that hold together and share a node hold together.
LEMMA SharedNodeConnects ==
  ASSUME NEW x, NEW F, \A T \in F : x \in T /\ Connected(T)
  PROVE  Connected(UNION F)
<1>. SUFFICES ASSUME NEW D \in SUBSET UNION F, D # {}, D # UNION F
              PROVE  \E p \in D, q \in (UNION F) \ D : Touch(p, q)
  BY DEF Connected
<1>1. PICK T \in F : T \cap D # {} /\ T \cap D # T
  <2>1. CASE x \in D
    <3>1. PICK y \in (UNION F) \ D : TRUE
      OBVIOUS
    <3>2. PICK T \in F : y \in T
      OBVIOUS
    <3>. QED BY <2>1, <3>1, <3>2
  <2>2. CASE x \notin D
    <3>1. PICK y \in D : TRUE
      OBVIOUS
    <3>2. PICK T \in F : y \in T
      OBVIOUS
    <3>. QED BY <2>2, <3>1, <3>2
  <2>. QED BY <2>1, <2>2
<1>2. Connected(T) /\ T \cap D \in SUBSET T
  OBVIOUS
<1>3. PICK p \in T \cap D, q \in T \ (T \cap D) : Touch(p, q)
  BY <1>1, <1>2 DEF Connected
<1>. QED BY <1>3

\* A set that holds together and a node that touches it hold together.
LEMMA NeighbourConnects ==
  ASSUME NEW T, NEW a \in T, NEW b, Connected(T), Touch(a, b), Touch(b, a)
  PROVE  Connected(T \cup {b})
<1>. SUFFICES ASSUME NEW D \in SUBSET (T \cup {b}), D # {}, D # T \cup {b}
              PROVE  \E p \in D, q \in (T \cup {b}) \ D : Touch(p, q)
  BY DEF Connected
<1>1. CASE T \cap D = {}
  BY <1>1
<1>2. CASE T \cap D = T
  BY <1>2
<1>3. CASE T \cap D # {} /\ T \cap D # T
  <2>1. PICK p \in T \cap D, q \in T \ (T \cap D) : Touch(p, q)
    BY <1>3 DEF Connected
  <2>. QED BY <2>1
<1>. QED BY <1>1, <1>2, <1>3

LEMMA OneNodeConnects == ASSUME NEW x PROVE Connected({x})
BY DEF Connected

\* Every node of a set is in one of its components.
LEMMA ComponentsCover ==
  ASSUME LinksGoBothWays, TypeOK, NEW S \in SUBSET DOMAIN nodes, NEW x \in S
  PROVE  \E T \in Components(S) : x \in T
<1>. DEFINE F == {T \in SUBSET S : x \in T /\ Connected(T)}
            C == UNION F
<1>1. {x} \in F
  BY OneNodeConnects
<1>2. C \in SUBSET S /\ x \in C
  BY <1>1
<1>3. Connected(C)
  <2>1. \A T \in F : x \in T /\ Connected(T)
    OBVIOUS
  <2>. HIDE DEF F
  <2>. QED BY <2>1, SharedNodeConnects
<1>4. ASSUME NEW a \in C, NEW b \in S \ C, Touch(a, b)
      PROVE  FALSE
  <2>1. PICK T \in F : a \in T
    OBVIOUS
  <2>2. Touch(b, a)
    BY <1>2, <1>4, TouchIsSymmetric
  <2>3. Connected(T \cup {b})
    BY <1>4, <2>1, <2>2, NeighbourConnects
  <2>4. T \cup {b} \in F
    BY <2>1, <2>3
  <2>. QED BY <1>4, <2>4
<1>. HIDE DEF C
<1>5. C \in Components(S)
  BY <1>2, <1>3, <1>4 DEF Components
<1>. QED BY <1>2, <1>5

\* Components that share a node are the same.
LEMMA ComponentsAreDisjoint ==
  ASSUME LinksGoBothWays, TypeOK, NEW S \in SUBSET DOMAIN nodes,
         NEW T \in Components(S), NEW U \in Components(S), T \cap U # {}
  PROVE  T = U
<1>1. ASSUME NEW A \in Components(S), NEW B \in Components(S), A \cap B # {}
      PROVE  A \subseteq B
  <2>. SUFFICES ASSUME ~(A \subseteq B) PROVE FALSE
    OBVIOUS
  <2>1. PICK p \in A \cap B, q \in A \ (A \cap B) : Touch(p, q)
    BY <1>1 DEF Components, Connected
  <2>. QED BY <2>1 DEF Components
<1>. QED BY <1>1

-----------------------------------------------------------------------------
BlobsInv ==
  /\ TypeOK
  /\ BlobsPartitionNodes
  /\ TouchingNodesShareBlob
  /\ BlobsAreConnected

\* A set whose inner links a step leaves alone holds together after it.
LEMMA ConnectedIsKept ==
  ASSUME NEW S, Connected(S),
         \A x, y \in S : x # y => (Touch(x, y) => Touch(x, y)')
  PROVE  Connected(S)'
BY DEF Connected

LEMMA InitiallyNone == Init => BlobsInv
BY DEF Init, BlobsInv, TypeOK, BlobsPartitionNodes, TouchingNodesShareBlob, BlobsAreConnected

LEMMA JoinKeepsBlobs ==
  ASSUME LinksGoBothWays, BlobsInv, NEW p \in Node, NEW n \in Name, Join(p, n)
  PROVE  BlobsInv'
<1>. USE DEF BlobsInv
<1>a. PICK R : R = Reached(p, n)
  OBVIOUS
<1>b. PICK N : N = (UNION R) \cup {p}
  OBVIOUS
<1>1. p \notin DOMAIN nodes /\ DOMAIN nodes' = DOMAIN nodes \cup {p} /\ nodes'[p] = n
  BY DEF Join
<1>2. \A q \in DOMAIN nodes : nodes'[q] = nodes[q]
  BY DEF Join
<1>3. blobs' = (blobs \ R) \cup {N} /\ R \subseteq blobs
  BY <1>a, <1>b DEF Join, Reached
<1>4. \A B \in blobs : B \subseteq DOMAIN nodes /\ B \subseteq Node /\ p \notin B
  BY <1>1 DEF BlobsPartitionNodes, TypeOK
<1>5. \A x, y \in DOMAIN nodes : Touch(x, y)' = Touch(x, y)
  BY <1>2 DEF Touch
<1>6. \A B \in blobs : B \in R <=> \E y \in B : Touch(p, y)'
  BY <1>a, <1>1, <1>2, <1>4 DEF Reached, Touch
<1>7. TypeOK'
  <2>1. nodes' = [q \in DOMAIN nodes' |-> nodes'[q]]
    BY DEF Join
  <2>2. DOMAIN nodes' \subseteq Node /\ \A q \in DOMAIN nodes' : nodes'[q] \in Name
    BY <1>1, <1>2 DEF TypeOK
  <2>3. blobs' \subseteq SUBSET Node
    BY <1>b, <1>3, <1>4 DEF TypeOK
  <2>. QED BY <2>1, <2>2, <2>3 DEF TypeOK
<1>8. \A x \in DOMAIN nodes' : \A y \in DOMAIN nodes' : Touch(x, y)' = Touch(y, x)'
  BY <1>7 DEF TypeOK, Touch, LinksGoBothWays
<1>9. BlobsPartitionNodes'
  <2>1. UNION blobs' = DOMAIN nodes'
    <3>1. UNION blobs' \subseteq DOMAIN nodes'
      BY <1>b, <1>1, <1>3, <1>4
    <3>2. ASSUME NEW x \in DOMAIN nodes' PROVE x \in UNION blobs'
      <4>1. CASE x = p
        BY <1>b, <1>3, <4>1
      <4>2. CASE x # p
        <5>1. PICK B \in blobs : x \in B
          BY <1>1, <4>2 DEF BlobsPartitionNodes
        <5>. QED BY <1>b, <1>3, <5>1
      <4>. QED BY <4>1, <4>2
    <3>. QED BY <3>1, <3>2
  <2>2. {} \notin blobs'
    BY <1>b, <1>3 DEF BlobsPartitionNodes
  <2>3. ASSUME NEW B \in blobs \ R PROVE B \cap N = {}
    BY <1>b, <1>3, <1>4 DEF BlobsPartitionNodes
  <2>4. ASSUME NEW A \in blobs', NEW B \in blobs', A # B
        PROVE  A \cap B = {}
    BY <1>3, <2>3, <2>4 DEF BlobsPartitionNodes
  <2>. QED BY <2>1, <2>2, <2>4 DEF BlobsPartitionNodes
<1>10. TouchingNodesShareBlob'
  <2>1. ASSUME NEW B \in blobs \ R, NEW x \in N, NEW y \in B
        PROVE  Touch(x, y)' = FALSE /\ Touch(y, x)' = FALSE
    <3>1. CASE x = p
      <4>1. ~Touch(p, y)'
        BY <1>6
      <4>2. Touch(p, y)' \in BOOLEAN
        BY <1>1, <1>4, <1>7 DEF TypeOK, Touch, LinksGoBothWays
      <4>. QED BY <3>1, <4>1, <4>2, <1>1, <1>4, <1>8
    <3>2. CASE x # p
      <4>1. PICK C \in R : x \in C
        BY <1>b, <3>2
      <4>2. C \in blobs /\ C # B
        BY <1>3
      <4>3. ~Touch(x, y) /\ x \in DOMAIN nodes /\ y \in DOMAIN nodes
        BY <4>1, <4>2, <1>4 DEF TouchingNodesShareBlob
      <4>4. ~Touch(x, y)' /\ Touch(x, y)' \in BOOLEAN
        BY <4>3, <1>5, TouchIsSymmetric
      <4>. QED BY <4>3, <4>4, <1>1, <1>8
    <3>. QED BY <3>1, <3>2
  <2>2. ASSUME NEW A \in blobs \ R, NEW B \in blobs \ R,
               NEW x \in A, NEW y \in B, Touch(x, y)'
        PROVE  A = B
    BY <1>4, <1>5, <2>2 DEF TouchingNodesShareBlob
  <2>3. ASSUME NEW A \in blobs', NEW B \in blobs',
               NEW x \in A, NEW y \in B, Touch(x, y)'
        PROVE  A = B
    BY <1>3, <2>1, <2>2, <2>3
  <2>. QED BY <2>3 DEF TouchingNodesShareBlob
<1>11. BlobsAreConnected'
  <2>1. ASSUME NEW B \in blobs PROVE Connected(B)'
    <3>1. \A x, y \in B : x # y => (Touch(x, y) => Touch(x, y)')
      BY <1>4, <1>5
    <3>2. Connected(B)
      BY DEF BlobsAreConnected
    <3>. QED BY <3>1, <3>2, ConnectedIsKept
  <2>2. Connected(N)'
    <3>. SUFFICES ASSUME NEW T \in SUBSET N, T # {}, T # N
                  PROVE  \E x \in T, y \in N \ T : Touch(x, y)'
      BY DEF Connected
    <3>1. \A C \in R : C \cap T # {} /\ ~(C \subseteq T)
                         => \E x \in T, y \in N \ T : Touch(x, y)'
      <4>. SUFFICES ASSUME NEW C \in R, C \cap T # {}, ~(C \subseteq T)
                    PROVE  \E x \in T, y \in N \ T : Touch(x, y)'
        OBVIOUS
      <4>1. Connected(C)' /\ C \cap T \in SUBSET C /\ C \cap T # C
        BY <2>1, <1>3
      <4>2. PICK x \in C \cap T, y \in C \ (C \cap T) : Touch(x, y)'
        BY <4>1 DEF Connected
      <4>. QED BY <1>b, <4>2
    <3>2. \A C \in R : \E y \in C : Touch(p, y)' /\ Touch(y, p)'
      BY <1>1, <1>3, <1>4, <1>6, <1>8
    <3>3. CASE p \in T
      <4>1. PICK C \in R : ~(C \subseteq T)
        BY <1>b, <3>3
      <4>2. CASE C \cap T = {}
        BY <1>b, <3>2, <3>3, <4>1, <4>2
      <4>. QED BY <3>1, <4>1, <4>2
    <3>4. CASE p \notin T
      <4>1. PICK C \in R : C \cap T # {}
        BY <1>b, <3>4
      <4>2. CASE C \subseteq T
        BY <1>b, <3>2, <3>4, <4>1, <4>2
      <4>. QED BY <3>1, <4>1, <4>2
    <3>. QED BY <3>3, <3>4
  <2>3. \A B \in blobs' : Connected(B)'
    BY <1>3, <2>1, <2>2
  <2>. QED BY <2>3 DEF BlobsAreConnected
<1>. QED BY <1>7, <1>9, <1>10, <1>11

LEMMA LeaveKeepsBlobs ==
  ASSUME LinksGoBothWays, BlobsInv, NEW p \in Node, Leave(p)
  PROVE  BlobsInv'
<1>. USE DEF BlobsInv
<1>1. p \in DOMAIN nodes /\ DOMAIN nodes' = DOMAIN nodes \ {p}
  BY DEF Leave
<1>2. \A q \in DOMAIN nodes' : nodes'[q] = nodes[q]
  BY DEF Leave
<1>3. \A x, y \in DOMAIN nodes' : Touch(x, y)' = Touch(x, y)
  BY <1>1, <1>2 DEF Touch
<1>4. \A B \in blobs : B \subseteq DOMAIN nodes
  BY DEF BlobsPartitionNodes
<1>5. \A T : T \in blobs' <=> \E B \in blobs : T \in IF p \in B THEN Components(B \ {p}) ELSE {B}
  BY DEF Leave
<1>6. ASSUME NEW T \in blobs'
      PROVE  \E B \in blobs : T # {} /\ T \subseteq B \ {p} /\ Connected(T)
                                /\ (p \in B => T \in Components(B \ {p}))
                                /\ (p \notin B => T = B)
  <2>1. PICK B \in blobs : T \in IF p \in B THEN Components(B \ {p}) ELSE {B}
    BY <1>5
  <2>2. CASE p \in B
    BY <2>1, <2>2 DEF Components
  <2>3. CASE p \notin B
    BY <2>1, <2>3 DEF BlobsAreConnected, BlobsPartitionNodes
  <2>. QED BY <2>2, <2>3
<1>7. TypeOK'
  <2>1. nodes' = [q \in DOMAIN nodes' |-> nodes'[q]]
    BY DEF Leave
  <2>2. DOMAIN nodes' \subseteq Node /\ \A q \in DOMAIN nodes' : nodes'[q] \in Name
    BY <1>1, <1>2 DEF TypeOK
  <2>3. blobs' \subseteq SUBSET Node
    BY <1>4, <1>6 DEF TypeOK
  <2>. QED BY <2>1, <2>2, <2>3 DEF TypeOK
<1>8. ASSUME NEW S \in blobs', NEW T \in blobs', NEW x \in S, NEW y \in T,
             x = y \/ Touch(x, y)
      PROVE  S = T
  <2>1. PICK A \in blobs : S # {} /\ S \subseteq A \ {p} /\ Connected(S)
                             /\ (p \in A => S \in Components(A \ {p}))
                             /\ (p \notin A => S = A)
    BY <1>6
  <2>2. PICK B \in blobs : T # {} /\ T \subseteq B \ {p} /\ Connected(T)
                             /\ (p \in B => T \in Components(B \ {p}))
                             /\ (p \notin B => T = B)
    BY <1>6
  <2>3. A = B
    BY <1>8, <2>1, <2>2 DEF BlobsPartitionNodes, TouchingNodesShareBlob
  <2>4. CASE p \notin A
    BY <2>1, <2>2, <2>3, <2>4
  <2>5. CASE p \in A
    <3>1. S \in Components(A \ {p}) /\ T \in Components(A \ {p})
      BY <2>1, <2>2, <2>3, <2>5
    <3>2. y \in S
      BY <1>8, <2>2, <2>3, <3>1 DEF Components
    <3>3. A \ {p} \in SUBSET DOMAIN nodes
      BY <1>4
    <3>. QED BY <3>1, <3>2, <3>3, ComponentsAreDisjoint
  <2>. QED BY <2>4, <2>5
<1>9. BlobsPartitionNodes'
  <2>1. UNION blobs' \subseteq DOMAIN nodes'
    BY <1>1, <1>4, <1>6
  <2>2. ASSUME NEW x \in DOMAIN nodes' PROVE x \in UNION blobs'
    <3>1. PICK B \in blobs : x \in B
      BY <1>1 DEF BlobsPartitionNodes
    <3>2. CASE p \in B
      <4>1. B \ {p} \in SUBSET DOMAIN nodes /\ x \in B \ {p}
        BY <1>1, <1>4, <3>1
      <4>2. PICK T \in Components(B \ {p}) : x \in T
        BY <4>1, ComponentsCover
      <4>. QED BY <1>5, <3>2, <4>2
    <3>3. CASE p \notin B
      BY <1>5, <3>1, <3>3
    <3>. QED BY <3>2, <3>3
  <2>3. {} \notin blobs'
    BY <1>6
  <2>4. \A S, T \in blobs' : S # T => S \cap T = {}
    BY <1>8
  <2>. QED BY <2>1, <2>2, <2>3, <2>4 DEF BlobsPartitionNodes
<1>10. \A T \in blobs' : T \subseteq DOMAIN nodes'
  BY <1>9 DEF BlobsPartitionNodes
<1>11. TouchingNodesShareBlob'
  <2>1. ASSUME NEW S \in blobs', NEW T \in blobs', NEW x \in S, NEW y \in T,
               Touch(x, y)'
        PROVE  S = T
    BY <1>3, <1>8, <1>10, <2>1
  <2>. QED BY <2>1 DEF TouchingNodesShareBlob
<1>12. BlobsAreConnected'
  <2>1. ASSUME NEW T \in blobs' PROVE Connected(T)'
    <3>1. Connected(T)
      BY <1>6
    <3>2. \A x, y \in T : x # y => (Touch(x, y) => Touch(x, y)')
      BY <1>3, <1>10
    <3>. QED BY <3>1, <3>2, ConnectedIsKept
  <2>. QED BY <2>1 DEF BlobsAreConnected
<1>. QED BY <1>7, <1>9, <1>11, <1>12

LEMMA RenameKeepsBlobs ==
  ASSUME LinksGoBothWays, BlobsInv, NEW p \in Node, NEW n \in Name, Rename(p, n)
  PROVE  BlobsInv'
<1>. USE DEF BlobsInv
<1>1. DOMAIN nodes' = DOMAIN nodes /\ blobs' = blobs /\ p \in DOMAIN nodes /\ nodes'[p] = n
  BY DEF Rename
<1>2. \A q \in DOMAIN nodes : q # p => nodes'[q] = nodes[q]
  BY DEF Rename
<1>3. TypeOK'
  <2>1. nodes' = [q \in DOMAIN nodes' |-> nodes'[q]]
    BY DEF Rename
  <2>. QED BY <1>1, <1>2, <2>1 DEF TypeOK
<1>4. BlobsPartitionNodes'
  BY <1>1 DEF BlobsPartitionNodes
<1>5. \A q \in DOMAIN nodes : q # p => Touch(p, q)' = Touch(p, q)
  BY <1>1, <1>2 DEF Rename, Touch
<1>6. ASSUME NEW x \in DOMAIN nodes, NEW y \in DOMAIN nodes, x # y
      PROVE  Touch(x, y)' = Touch(x, y)
  <2>1. CASE x = p
    BY <1>5, <1>6, <2>1
  <2>2. CASE y = p
    <3>1. Touch(y, x)' = Touch(y, x)
      BY <1>5, <1>6, <2>2
    <3>2. Touch(x, y) = Touch(y, x)
      BY TouchIsSymmetric
    <3>3. Touch(x, y)' = Touch(y, x)'
      BY <1>1, <1>3 DEF TypeOK, Touch, LinksGoBothWays
    <3>. QED BY <3>1, <3>2, <3>3
  <2>3. CASE x # p /\ y # p
    BY <1>2, <2>3 DEF Touch
  <2>. QED BY <2>1, <2>2, <2>3
<1>7. \A B \in blobs : B \subseteq DOMAIN nodes
  BY DEF BlobsPartitionNodes
<1>8. TouchingNodesShareBlob'
  <2>1. ASSUME NEW A \in blobs, NEW B \in blobs, NEW x \in A, NEW y \in B, Touch(x, y)'
        PROVE  A = B
    <3>1. CASE x = y
      BY <3>1 DEF BlobsPartitionNodes
    <3>2. CASE x # y
      BY <1>6, <1>7, <2>1, <3>2 DEF TouchingNodesShareBlob
    <3>. QED BY <3>1, <3>2
  <2>. QED BY <1>1, <2>1 DEF TouchingNodesShareBlob
<1>9. BlobsAreConnected'
  <2>1. ASSUME NEW B \in blobs PROVE Connected(B)'
    <3>1. Connected(B)
      BY DEF BlobsAreConnected
    <3>2. \A x, y \in B : x # y => (Touch(x, y) => Touch(x, y)')
      BY <1>6, <1>7
    <3>. QED BY <3>1, <3>2, ConnectedIsKept
  <2>. QED BY <1>1, <2>1 DEF BlobsAreConnected
<1>. QED BY <1>3, <1>4, <1>8, <1>9

-----------------------------------------------------------------------------
\* The blobs partition the registered nodes, no two of them touch, and none of
\* them can be cut without cutting a link: they are the connected components
\* that simple_cluster.lua:2 speaks of.
THEOREM BlobsAreComponents ==
  ASSUME LinksGoBothWays
  PROVE  Spec => [](BlobsPartitionNodes /\ TouchingNodesShareBlob /\ BlobsAreConnected)
<1>1. BlobsInv /\ [Next]_vars => BlobsInv'
  <2>. SUFFICES ASSUME BlobsInv, [Next]_vars PROVE BlobsInv'
    OBVIOUS
  <2>1. ASSUME NEW p \in Node, Leave(p) PROVE BlobsInv'
    BY <2>1, LeaveKeepsBlobs
  <2>2. ASSUME NEW p \in Node, NEW n \in Name, Join(p, n) PROVE BlobsInv'
    BY <2>2, JoinKeepsBlobs
  <2>3. ASSUME NEW p \in Node, NEW n \in Name, Rename(p, n) PROVE BlobsInv'
    BY <2>3, RenameKeepsBlobs
  <2>4. CASE UNCHANGED vars
    BY <2>4 DEF vars, BlobsInv, TypeOK, BlobsPartitionNodes, TouchingNodesShareBlob,
                BlobsAreConnected, Connected, Touch
  <2>. QED BY <2>1, <2>2, <2>3, <2>4 DEF Next
<1>2. BlobsInv => BlobsPartitionNodes /\ TouchingNodesShareBlob /\ BlobsAreConnected
  BY DEF BlobsInv
<1>. QED BY InitiallyNone, <1>1, <1>2, PTL DEF Spec
=============================================================================
