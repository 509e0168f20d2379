-------------------------- MODULE PathPlannerProofs --------------------------
(***************************************************************************)
(* Theorems about PathPlanner for all values of its constants.             *)
(***************************************************************************)
EXTENDS PathPlanner, SequenceTheorems, FiniteSetTheorems, WellFoundedInduction, TLAPS

-----------------------------------------------------------------------------
(* The smallest number.                                                    *)

LEMMA Smallest ==
  ASSUME NEW N, N \subseteq Nat, N # {}
  PROVE  \E m \in N : \A n \in N : m <= n
  <1>1. PICK m \in N : \A n \in N : <<n, m>> \notin OpToRel(<, Nat)
    <2> HIDE DEF OpToRel
    <2> QED BY NatLessThanWellFounded, WFMin
  <1>2. \A n \in N : ~(n < m)
    BY <1>1 DEF OpToRel
  <1> QED BY <1>2

-----------------------------------------------------------------------------
(* The samples of a way.                                                    *)

\* The rounds of checkCollision visit every sample: the one of step 1 is among
\* them, the one after it, of step 0, is not begun, since all are checked.
LEMMA AllSamples ==
  ASSUME NEW n \in Nat, n >= 2
  PROVE  SamplesChecked(n) = 1 .. n - 1
  <1> DEFINE Multiples(div) == {k \in 1 .. n - 1 : k % (n \div div) = 0}
             Rounds(f) == f = [div \in 1 .. n + 1 |->
                                 IF div = 1 THEN {}
                                 ELSE IF Cardinality(f[div - 1]) < n - 1 \/ n \div div > 0
                                 THEN f[div - 1] \cup Multiples(div)
                                 ELSE f[div - 1]]
             seen == CHOOSE f : Rounds(f)
             Visited(div) == {k \in 1 .. n - 1 : \E d \in 2 .. div : d <= n /\ k \in Multiples(d)}
             G == [div \in 1 .. n + 1 |-> Visited(div)]
  <1>1. SamplesChecked(n) = seen[n + 1]
    BY DEF SamplesChecked
  <1>2. n \div n = 1 /\ n \div (n + 1) = 0 /\ \A k \in Nat : k % 1 = 0
    OBVIOUS
  <1>3. Multiples(n) = 1 .. n - 1 /\ \A d \in Int : Multiples(d) \subseteq 1 .. n - 1
    BY <1>2
  <1>4. Cardinality(1 .. n - 1) = n - 1
    BY FS_Interval
  <1>5. \A d \in 2 .. n : n \div d > 0
    OBVIOUS
  <1> HIDE DEF Multiples
  <1>6. Visited(1) = {}
    OBVIOUS
  <1>7. ASSUME NEW div \in 2 .. n
        PROVE  Visited(div) = Visited(div - 1) \cup Multiples(div)
    <2>1. \A d \in Int : d \in 2 .. div <=> d \in 2 .. div - 1 \/ d = div
      OBVIOUS
    <2> QED BY <1>3, <2>1
  <1>8. Visited(n) = 1 .. n - 1 /\ Visited(n + 1) = Visited(n)
    <2>1. n \in 2 .. n /\ n \in 2 .. n + 1
      OBVIOUS
    <2> QED BY <1>3, <2>1
  <1> HIDE DEF Visited
  <1>9. \A div \in 1 .. n + 1 :
          Visited(div) = IF div = 1 THEN {}
                         ELSE IF Cardinality(Visited(div - 1)) < n - 1 \/ n \div div > 0
                         THEN Visited(div - 1) \cup Multiples(div)
                         ELSE Visited(div - 1)
    <2> SUFFICES ASSUME NEW div \in 1 .. n + 1
                 PROVE  Visited(div) = IF div = 1 THEN {}
                          ELSE IF Cardinality(Visited(div - 1)) < n - 1 \/ n \div div > 0
                          THEN Visited(div - 1) \cup Multiples(div)
                          ELSE Visited(div - 1)
      OBVIOUS
    <2>1. CASE div = 1
      BY <2>1, <1>6
    <2>2. CASE div \in 2 .. n
      BY <2>2, <1>5, <1>7
    <2>3. CASE div = n + 1
      <3>1. div - 1 = n /\ div # 1 /\ ~(n \div div > 0) /\ ~(Cardinality(Visited(div - 1)) < n - 1)
        BY <2>3, <1>2, <1>4, <1>8
      <3> QED BY <2>3, <3>1, <1>8
    <2> QED BY <2>1, <2>2, <2>3
  <1>10. Rounds(G)
    <2>1. \A div \in 1 .. n + 1 : G[div] = Visited(div) /\ (div # 1 => G[div - 1] = Visited(div - 1))
      OBVIOUS
    <2>2. \A div \in 1 .. n + 1 :
          G[div] = IF div = 1 THEN {}
                         ELSE IF Cardinality(G[div - 1]) < n - 1 \/ n \div div > 0
                         THEN G[div - 1] \cup Multiples(div)
                         ELSE G[div - 1]
      BY <1>9, <2>1
    <2>3. G = [div \in 1 .. n + 1 |-> G[div]]
      OBVIOUS
    <2> HIDE DEF G
    <2> QED BY <2>2, <2>3
  <1>11. Rounds(seen)
    <2> HIDE DEF Rounds
    <2> QED BY <1>10
  <1> HIDE DEF seen
  <1>12. \A div \in 1 .. n + 1 :
          seen[div] = IF div = 1 THEN {}
                         ELSE IF Cardinality(seen[div - 1]) < n - 1 \/ n \div div > 0
                         THEN seen[div - 1] \cup Multiples(div)
                         ELSE seen[div - 1]
    BY <1>11
  \* No round is the first that differs.
  <1>13. \A div \in 1 .. n + 1 : seen[div] = Visited(div)
    <2> DEFINE T == {div \in 1 .. n + 1 : seen[div] # Visited(div)}
    <2> SUFFICES ASSUME T # {} PROVE FALSE
      OBVIOUS
    <2>1. PICK d \in T : \A e \in T : d <= e
      <3>1. T \subseteq Nat
        OBVIOUS
      <3> HIDE DEF T
      <3> QED BY <3>1, Smallest
    <2>2. d \in 1 .. n + 1 /\ seen[d] # Visited(d)
      OBVIOUS
    <2>3. d # 1 => d - 1 \in 1 .. n + 1 /\ d - 1 \notin T
      BY <2>1, <2>2
    <2>4. d # 1 => seen[d - 1] = Visited(d - 1)
      BY <2>3
    <2> HIDE DEF T
    <2> QED BY <1>9, <1>12, <2>2, <2>4
  <1>14. n + 1 \in 1 .. n + 1
    OBVIOUS
  <1> QED BY <1>1, <1>8, <1>13, <1>14

\* What kind of things the constants are.
LEMMA Constants ==
  /\ Free \subseteq Config /\ Dist \in [Config \X Config -> Nat]
  /\ Toward \in [Config \X Config -> Config]
  /\ Eps \in Nat /\ MaxCalls \in Nat /\ InterpolationDistance \in Nat \ {0}
  BY PlannerAssumption

\* So isReachable accepts just the ways that do not collide.
LEMMA Accepted ==
  ASSUME NEW a \in Config, NEW b \in Config
  PROVE  <<a, b>> \in Reachable <=> Colliding[<<a, b>>] = {}
  <1> DEFINE d == Dist[<<a, b>>] \div InterpolationDistance
             n == Size(a, b)
             e == <<a, b>>
  <1>1. d \in Nat
    <2>1. Dist[<<a, b>>] \in Nat /\ InterpolationDistance \in Nat \ {0}
      BY Constants
    <2>2. \A x \in Nat, y \in Nat \ {0} : x \div y \in Nat
      OBVIOUS
    <2> QED BY <2>1, <2>2
  <1>2. n = d + 2
    BY DEF Size
  <1> HIDE DEF d
  <1>3. n \in Nat /\ n >= 2
    BY <1>1, <1>2
  <1>4. e \in Config \X Config /\ Size(e[1], e[2]) = n
    OBVIOUS
  <1>5. Colliding[e] \subseteq 0 .. n - 1
    BY <1>4, PlannerAssumption
  <1> HIDE DEF n
  <1>6. SamplesChecked(n) = 1 .. n - 1
    BY <1>3, AllSamples
  <1>7. {0} \cup SamplesChecked(n) = 0 .. n - 1
    BY <1>3, <1>6
  <1>8. e \in Reachable <=> Colliding[e] \cap ({0} \cup SamplesChecked(n)) = {}
    BY <1>4 DEF Reachable
  <1> QED BY <1>5, <1>7, <1>8

\* A way that isReachable accepts joins free configurations; from one to
\* itself there is such a way, and back, if the mobility is reversible.
LEMMA Ways ==
  /\ Reachable \subseteq Free \X Free
  /\ \A c \in Free : <<c, c>> \in Reachable
  /\ IsReversible => \A e \in Reachable : <<e[2], e[1]>> \in Reachable
  <1>1. \A e \in Reachable : \E a, b \in Config : e = <<a, b>>
    BY DEF Reachable
  <1>2. ASSUME NEW a \in Config, NEW b \in Config, <<a, b>> \in Reachable
        PROVE  a \in Free /\ b \in Free
    <2> DEFINE e == <<a, b>>
    <2>1. Colliding[e] = {}
      BY <1>2, Accepted
    <2>2. /\ 0 \in Colliding[e] <=> e[1] \notin Free
          /\ Size(e[1], e[2]) - 1 \in Colliding[e] <=> e[2] \notin Free
      BY PlannerAssumption
    <2> QED BY <2>1, <2>2
  <1>3. ASSUME NEW c \in Free PROVE <<c, c>> \in Reachable
    <2> DEFINE e == <<c, c>>
    <2>1. c \in Config /\ Dist[e] = 0 /\ InterpolationDistance \in Nat \ {0}
      BY PlannerAssumption
    <2>2. 0 \div InterpolationDistance = 0
      BY <2>1
    <2>3. Size(c, c) = 2
      BY <2>1, <2>2 DEF Size
    <2>4. /\ Colliding[e] \subseteq 0 .. Size(e[1], e[2]) - 1
          /\ 0 \in Colliding[e] <=> e[1] \notin Free
          /\ Size(e[1], e[2]) - 1 \in Colliding[e] <=> e[2] \notin Free
      BY <2>1, PlannerAssumption
    <2>7. e[1] = c /\ e[2] = c
      OBVIOUS
    <2>5. Colliding[e] \subseteq 0 .. 1 /\ 0 \notin Colliding[e] /\ 1 \notin Colliding[e]
      <3> HIDE DEF e
      <3>1. Size(e[1], e[2]) - 1 = 1
        BY <2>3, <2>7
      <3> QED BY <2>4, <2>7, <3>1
    <2>6. Colliding[e] = {}
      BY <2>5
    <2> QED BY <2>1, <2>6, Accepted
  <1>4. ASSUME IsReversible, NEW a \in Config, NEW b \in Config, <<a, b>> \in Reachable
        PROVE  <<b, a>> \in Reachable
    <2> DEFINE e == <<a, b>>
    <2>1. Colliding[e] = {} => Colliding[<<e[2], e[1]>>] = {}
      BY <1>4, PlannerAssumption
    <2> QED BY <1>4, <2>1, Accepted
  <1>5. Reachable \subseteq Free \X Free
    BY <1>1, <1>2
  <1>6. IsReversible => \A e \in Reachable : <<e[2], e[1]>> \in Reachable
    BY <1>1, <1>4
  <1> QED BY <1>3, <1>5, <1>6

-----------------------------------------------------------------------------
(* Edges and nodes.                                                         *)

In(tree) == {tree[k] : k \in DOMAIN tree}
LastOf(s) == s[Len(s)]

\* The edges join nodes: what follows from the type.
LEMMA EdgeEnds ==
  ASSUME TypeOK
  PROVE  /\ Len(edges) \in Nat /\ DOMAIN edges = 1 .. Len(edges)
         /\ Len(pos) \in Nat /\ DOMAIN pos = 1 .. Len(pos)
         /\ \A e \in DOMAIN edges : edges[e] = <<edges[e][1], edges[e][2]>>
                                    /\ edges[e][1] \in Nodes /\ edges[e][2] \in Nodes
         /\ \A n \in Nodes : pos[n] \in Config /\ n # NoNode
  <1>1. edges \in Seq(Nodes \X Nodes) /\ pos \in Seq(Config)
    BY DEF TypeOK
  <1>2. Len(edges) \in Nat /\ DOMAIN edges = 1 .. Len(edges)
    BY <1>1, LenProperties
  <1>3. Len(pos) \in Nat /\ DOMAIN pos = 1 .. Len(pos)
    BY <1>1, LenProperties
  <1>4. \A e \in DOMAIN edges : edges[e] \in Nodes \X Nodes
    BY <1>1, ElementOfSeq, <1>2
  <1>5. \A n \in Nodes : pos[n] \in Config
    BY <1>1, ElementOfSeq DEF Nodes
  <1> QED BY <1>2, <1>3, <1>4, <1>5 DEF Nodes, NoNode

LEMMA FirstEdgeIs ==
  ASSUME TypeOK, NEW E \in SUBSET (DOMAIN edges)
  PROVE  IF E = {} THEN FirstEdge(E) = <<NoNode, NoNode>>
         ELSE \E e \in E : FirstEdge(E) = edges[e]
  <1>1. CASE E = {}
    BY <1>1 DEF FirstEdge
  <1>2. CASE E # {}
    <2>1. \E e \in E : \A d \in E : e <= d
      BY <1>2, Smallest, EdgeEnds
    <2> DEFINE e == CHOOSE e \in E : \A d \in E : e <= d
    <2>2. e \in E
      BY <2>1
    <2>3. FirstEdge(E) = edges[e]
      BY <1>2 DEF FirstEdge
    <2> QED BY <1>2, <2>2, <2>3
  <1> QED BY <1>1, <1>2

LEMMA ParentIs ==
  ASSUME TypeOK, NEW n
  PROVE  IF Parent(n) = NoNode THEN \A e \in DOMAIN edges : edges[e][2] # n
         ELSE \E e \in DOMAIN edges : edges[e] = <<Parent(n), n>>
  <1> DEFINE E == {e \in DOMAIN edges : edges[e][2] = n}
  <1>1. Parent(n) = FirstEdge(E)[1]
    BY DEF Parent
  <1>2. IF E = {} THEN FirstEdge(E) = <<NoNode, NoNode>>
        ELSE \E e \in E : FirstEdge(E) = edges[e]
    BY FirstEdgeIs
  <1> QED BY <1>1, <1>2, EdgeEnds

LEMMA ChildIs ==
  ASSUME TypeOK, NEW n
  PROVE  IF Child(n) = NoNode THEN \A e \in DOMAIN edges : edges[e][1] # n
         ELSE \E e \in DOMAIN edges : edges[e] = <<n, Child(n)>>
  <1> DEFINE E == {e \in DOMAIN edges : edges[e][1] = n}
  <1>1. Child(n) = FirstEdge(E)[2]
    BY DEF Child
  <1>2. IF E = {} THEN FirstEdge(E) = <<NoNode, NoNode>>
        ELSE \E e \in E : FirstEdge(E) = edges[e]
    BY FirstEdgeIs
  <1> QED BY <1>1, <1>2, EdgeEnds

LEMMA UnvisitedIs ==
  ASSUME TypeOK, NEW n, Unvisited(n) # NoNode
  PROVE  \E e \in DOMAIN edges : edges[e] = <<n, Unvisited(n)>>
  <1> DEFINE E == {e \in DOMAIN edges : edges[e][1] = n /\ edges[e][2] \notin visited}
  <1>1. Unvisited(n) = FirstEdge(E)[2]
    BY DEF Unvisited
  <1>2. IF E = {} THEN FirstEdge(E) = <<NoNode, NoNode>>
        ELSE \E e \in E : FirstEdge(E) = edges[e]
    BY FirstEdgeIs
  <1> QED BY <1>1, <1>2, EdgeEnds

\* The nearest node is one of the tree.
LEMMA NearestIs ==
  ASSUME TypeOK, NEW tree \in Seq(Nodes), tree # <<>>, NEW q \in Config
  PROVE  Nearest(tree, q) \in In(tree)
  <1> DEFINE d(k) == Dist[<<pos[tree[k]], q>>]
  <1>1. Len(tree) \in Nat /\ Len(tree) >= 1 /\ DOMAIN tree = 1 .. Len(tree)
    BY LenProperties, EmptySeq
  <1>2. \A k \in DOMAIN tree : d(k) \in Nat
    <2>1. \A k \in DOMAIN tree : tree[k] \in Nodes
      BY <1>1, ElementOfSeq
    <2> QED BY <2>1, EdgeEnds, Constants
  <1>3. PICK m \in DOMAIN tree : \A l \in DOMAIN tree : d(m) <= d(l)
    <2> DEFINE D == [k \in DOMAIN tree |-> d(k)]
               N == {D[k] : k \in DOMAIN tree}
    <2>1. \A k \in DOMAIN tree : D[k] = d(k)
      OBVIOUS
    <2> HIDE DEF D
    <2>2. N \subseteq Nat /\ N # {}
      <3>1. 1 \in DOMAIN tree
        BY <1>1
      <3>2. \A k \in DOMAIN tree : D[k] \in Nat
        BY <1>2, <2>1
      <3> HIDE DEF d
      <3> QED BY <3>1, <3>2
    <2>3. PICK x \in N : \A n \in N : x <= n
      <3> HIDE DEF N
      <3> QED BY <2>2, Smallest
    <2>4. PICK m \in DOMAIN tree : x = D[m]
      BY <2>3
    <2>5. \A l \in DOMAIN tree : D[m] <= D[l]
      BY <2>3, <2>4
    <2> QED BY <2>1, <2>4, <2>5
  <1>4. PICK k \in DOMAIN tree : /\ d(k) = d(m)
                                 /\ \A l \in DOMAIN tree : d(l) = d(m) => k <= l
    <2> DEFINE N == {k \in DOMAIN tree : d(k) = d(m)}
    <2>1. N \subseteq Nat /\ N # {}
      <3> HIDE DEF d
      <3> QED BY <1>1, <1>3
    <2>2. PICK x \in N : \A n \in N : x <= n
      <3> HIDE DEF N
      <3> QED BY <2>1, Smallest
    <2> QED BY <2>2
  <1>5. /\ \A l \in DOMAIN tree : d(k) <= d(l)
        /\ \A l \in 1 .. k - 1 : d(k) < d(l)
    <2>1. \A l \in DOMAIN tree : d(k) <= d(l)
      BY <1>3, <1>4
    <2>2. ASSUME NEW l \in 1 .. k - 1 PROVE d(k) < d(l)
      <3>1. l \in DOMAIN tree /\ ~(k <= l)
        BY <1>1, <1>4
      <3>2. d(l) # d(k) /\ d(k) <= d(l) /\ d(k) \in Nat /\ d(l) \in Nat
        BY <1>2, <1>4, <2>1, <3>1
      <3> QED BY <3>2
    <2> QED BY <2>1, <2>2
  <1> DEFINE c == CHOOSE k_1 \in DOMAIN tree : /\ \A l \in DOMAIN tree : d(k_1) <= d(l)
                                             /\ \A l \in 1 .. k_1 - 1 : d(k_1) < d(l)
  <1>6. c \in DOMAIN tree
    BY <1>5, Zenon
  <1>7. Nearest(tree, q) = tree[c]
    BY DEF Nearest
  <1> QED BY <1>6, <1>7 DEF In

-----------------------------------------------------------------------------
(* Sequences.                                                              *)

LEMMA Widen ==
  ASSUME NEW n \in Nat, NEW m \in Nat, n <= m
  PROVE  /\ \A s \in Seq(1 .. n) : s \in Seq(1 .. m)
         /\ \A s \in Seq((1 .. n) \X (1 .. n)) : s \in Seq((1 .. m) \X (1 .. m))
  <1>1. \A k \in 1 .. n : k \in 1 .. m
    OBVIOUS
  <1>2. ASSUME NEW s \in Seq(1 .. n) PROVE s \in Seq(1 .. m)
    <2>1. Len(s) \in Nat /\ s \in [1 .. Len(s) -> 1 .. n]
      BY LenProperties
    <2>2. s \in [1 .. Len(s) -> 1 .. m]
      BY <1>1, <2>1
    <2> QED BY <2>1, <2>2, IsASeq
  <1>3. ASSUME NEW s \in Seq((1 .. n) \X (1 .. n)) PROVE s \in Seq((1 .. m) \X (1 .. m))
    <2>1. Len(s) \in Nat /\ s \in [1 .. Len(s) -> (1 .. n) \X (1 .. n)]
      BY LenProperties
    <2>2. (1 .. n) \X (1 .. n) \subseteq (1 .. m) \X (1 .. m)
      BY <1>1
    <2>3. s \in [1 .. Len(s) -> (1 .. m) \X (1 .. m)]
      BY <2>1, <2>2
    <2> QED BY <2>1, <2>3, IsASeq
  <1> QED BY <1>2, <1>3

LEMMA Retyped ==
  ASSUME NEW S, NEW T, NEW s \in Seq(S), \A k \in 1 .. Len(s) : s[k] \in T
  PROVE  s \in Seq(T)
  <1>1. Len(s) \in Nat /\ s \in [1 .. Len(s) -> S]
    BY LenProperties
  <1>2. s \in [1 .. Len(s) -> T]
    BY <1>1
  <1> QED BY <1>1, <1>2, IsASeq

LEMMA Numbered ==
  ASSUME NEW S, NEW s \in Seq(S)
  PROVE  /\ Len(s) \in Nat /\ DOMAIN s = 1 .. Len(s)
         /\ \A k \in 1 .. Len(s) : s[k] \in S
         /\ s # <<>> => Len(s) >= 1 /\ s[1] \in S /\ LastOf(s) \in S /\ LastOf(s) \in In(s)
         /\ In(s) \subseteq S
  <1>1. Len(s) \in Nat /\ DOMAIN s = 1 .. Len(s) /\ \A k \in 1 .. Len(s) : s[k] \in S
    BY LenProperties, ElementOfSeq
  <1>2. s # <<>> => Len(s) >= 1
    BY <1>1, EmptySeq
  <1> QED BY <1>1, <1>2 DEF LastOf, In

LEMMA Longer ==
  ASSUME NEW S, NEW s \in Seq(S), NEW x \in S
  PROVE  /\ Append(s, x) \in Seq(S) /\ Append(s, x) # <<>>
         /\ Len(Append(s, x)) = Len(s) + 1
         /\ \A k \in 1 .. Len(s) : Append(s, x)[k] = s[k]
         /\ Append(s, x)[Len(s) + 1] = x /\ LastOf(Append(s, x)) = x
         /\ In(Append(s, x)) = In(s) \cup {x}
  <1> DEFINE t == Append(s, x)
  <1>1. /\ t \in Seq(S) /\ Len(t) = Len(s) + 1
        /\ \A k \in 1 .. Len(s) : t[k] = s[k]
        /\ t[Len(s) + 1] = x
    BY AppendProperties
  <1>2. /\ DOMAIN s = 1 .. Len(s) /\ Len(s) \in Nat /\ DOMAIN t = 1 .. Len(t) /\ t # <<>>
    BY <1>1, LenProperties, EmptySeq
  <1> HIDE DEF t
  <1>3. In(t) = In(s) \cup {x}
    <2>1. \A k \in DOMAIN t : k \in DOMAIN s \/ k = Len(s) + 1
      BY <1>1, <1>2
    <2>2. \A k \in DOMAIN s : k \in DOMAIN t /\ t[k] = s[k]
      BY <1>1, <1>2
    <2>3. Len(s) + 1 \in DOMAIN t
      BY <1>1, <1>2
    <2> QED BY <1>1, <1>2, <2>1, <2>2, <2>3 DEF In
  <1> QED BY <1>1, <1>2, <1>3 DEF t, LastOf

LEMMA Joint ==
  ASSUME NEW S, NEW s \in Seq(S), NEW u \in Seq(S)
  PROVE  /\ s \o u \in Seq(S) /\ Len(s \o u) = Len(s) + Len(u)
         /\ \A k \in 1 .. Len(s) : (s \o u)[k] = s[k]
         /\ \A k \in 1 .. Len(u) : (s \o u)[Len(s) + k] = u[k]
         /\ In(s \o u) = In(s) \cup In(u)
  <1> DEFINE t == s \o u
  <1>1. /\ t \in Seq(S) /\ Len(t) = Len(s) + Len(u)
        /\ \A k \in 1 .. Len(s) + Len(u) : t[k] = IF k <= Len(s) THEN s[k] ELSE u[k - Len(s)]
    BY ConcatProperties
  <1>2. /\ DOMAIN s = 1 .. Len(s) /\ Len(s) \in Nat /\ DOMAIN t = 1 .. Len(t)
        /\ DOMAIN u = 1 .. Len(u) /\ Len(u) \in Nat
    BY <1>1, LenProperties
  <1> HIDE DEF t
  <1>3. \A k \in 1 .. Len(s) : k \in DOMAIN t /\ t[k] = s[k]
    BY <1>1, <1>2
  <1>4. \A k \in 1 .. Len(u) : Len(s) + k \in DOMAIN t /\ t[Len(s) + k] = u[k]
    <2> TAKE k \in 1 .. Len(u)
    <2>1. Len(s) + k \in 1 .. Len(s) + Len(u) /\ ~(Len(s) + k <= Len(s))
          /\ (Len(s) + k) - Len(s) = k
      BY <1>2
    <2> QED BY <1>1, <1>2, <2>1
  <1>5. \A k \in DOMAIN t : \/ k \in DOMAIN s /\ t[k] = s[k]
                            \/ k - Len(s) \in DOMAIN u /\ t[k] = u[k - Len(s)]
    BY <1>1, <1>2
  <1>6. In(t) = In(s) \cup In(u)
    <2>1. ASSUME NEW x \in In(t) PROVE x \in In(s) \cup In(u)
      BY <1>5, <2>1 DEF In
    <2>2. ASSUME NEW x \in In(s) PROVE x \in In(t)
      BY <1>2, <1>3, <2>2 DEF In
    <2>3. ASSUME NEW x \in In(u) PROVE x \in In(t)
      <3>1. PICK k \in 1 .. Len(u) : x = u[k]
        BY <1>2, <2>3 DEF In
      <3>2. Len(s) + k \in DOMAIN t /\ t[Len(s) + k] = x
        BY <1>4, <3>1
      <3> QED BY <3>2, Zenon DEF In
    <2> QED BY <2>1, <2>2, <2>3
  <1>7. /\ t \in Seq(S) /\ Len(t) = Len(s) + Len(u)
        /\ \A k \in 1 .. Len(s) : t[k] = s[k]
        /\ \A k \in 1 .. Len(u) : t[Len(s) + k] = u[k]
        /\ In(t) = In(s) \cup In(u)
    BY <1>1, <1>3, <1>4, <1>6
  <1> QED BY <1>7 DEF t

\* Two elements.
LEMMA Pair ==
  ASSUME NEW S, NEW a \in S, NEW b \in S
  PROVE  <<a, b>> \in Seq(S) /\ Len(<<a, b>>) = 2 /\ In(<<a, b>>) = {a, b}
  <1>1. <<a, b>> \in Seq(S) /\ Len(<<a, b>>) = 2
    OBVIOUS
  <1>2. DOMAIN <<a, b>> = {1, 2} /\ <<a, b>>[1] = a /\ <<a, b>>[2] = b
    OBVIOUS
  <1> DEFINE s == <<a, b>>
  <1> HIDE DEF s
  <1>3. In(s) = {a, b}
    BY <1>2 DEF In, s
  <1> QED BY <1>1, <1>3 DEF s

-----------------------------------------------------------------------------
(* Paths.                                                                  *)

LEMMA PathAppend ==
  ASSUME NEW p \in Seq(Config), NEW c \in Config
  PROVE  /\ Append(p, c) \in Seq(Config) /\ Append(p, c) # <<>>
         /\ LastOf(Append(p, c)) = c
         /\ p # <<>> => Append(p, c)[1] = p[1]
         /\ p # <<>> /\ Connected(p) /\ <<LastOf(p), c>> \in Reachable => Connected(Append(p, c))
  <1> DEFINE t == Append(p, c)
  <1>1. /\ t \in Seq(Config) /\ t # <<>> /\ Len(t) = Len(p) + 1
        /\ \A k \in 1 .. Len(p) : t[k] = p[k]
        /\ t[Len(p) + 1] = c /\ LastOf(t) = c
    BY Longer
  <1>2. Len(p) \in Nat /\ (p # <<>> => Len(p) >= 1)
    BY Numbered
  <1> HIDE DEF t
  <1>3. ASSUME p # <<>>, Connected(p), <<LastOf(p), c>> \in Reachable, NEW k \in 1 .. Len(t) - 1
        PROVE  <<t[k], t[k + 1]>> \in Reachable
    <2>1. CASE k = Len(p)
      BY <1>1, <1>2, <1>3, <2>1 DEF LastOf
    <2>2. CASE k # Len(p)
      <3>1. k \in 1 .. Len(p) - 1 /\ k + 1 \in 1 .. Len(p) /\ k \in 1 .. Len(p)
        BY <1>1, <1>2, <2>2
      <3> QED BY <1>1, <1>3, <3>1 DEF Connected
    <2> QED BY <2>1, <2>2
  <1> QED BY <1>1, <1>2, <1>3 DEF t, Connected

LEMMA PathPrepend ==
  ASSUME NEW p \in Seq(Config), NEW c \in Config
  PROVE  /\ <<c>> \o p \in Seq(Config) /\ <<c>> \o p # <<>>
         /\ (<<c>> \o p)[1] = c
         /\ LastOf(<<c>> \o p) = IF p = <<>> THEN c ELSE LastOf(p)
         /\ Connected(p) /\ (p # <<>> => <<c, p[1]>> \in Reachable) => Connected(<<c>> \o p)
  <1> DEFINE t == <<c>> \o p
  <1>1. <<c>> \in Seq(Config) /\ Len(<<c>>) = 1 /\ <<c>>[1] = c
    OBVIOUS
  <1>2. /\ t \in Seq(Config) /\ Len(t) = 1 + Len(p) /\ t[1] = c
        /\ \A k \in 1 .. Len(p) : t[1 + k] = p[k]
    BY <1>1, Joint
  <1>3. Len(p) \in Nat /\ (p # <<>> => Len(p) >= 1) /\ (p = <<>> => Len(p) = 0)
    BY Numbered
  <1> HIDE DEF t
  <1>4. t # <<>>
    BY <1>2, <1>3, EmptySeq
  <1>5. LastOf(t) = IF p = <<>> THEN c ELSE LastOf(p)
    BY <1>2, <1>3 DEF LastOf
  <1>6. ASSUME Connected(p), p # <<>> => <<c, p[1]>> \in Reachable, NEW k \in 1 .. Len(t) - 1
        PROVE  <<t[k], t[k + 1]>> \in Reachable
    <2>1. CASE k = 1
      <3>1. p # <<>> /\ t[1 + 1] = p[1]
        BY <1>2, <1>3, <1>6, <2>1
      <3> QED BY <1>2, <1>6, <2>1, <3>1
    <2>2. CASE k # 1
      <3>1. PICK m \in 1 .. Len(p) - 1 : k = 1 + m
        BY <1>2, <1>3, <2>2
      <3>2. m \in 1 .. Len(p) /\ m + 1 \in 1 .. Len(p) /\ k + 1 = 1 + (m + 1)
        BY <1>3, <3>1
      <3>3. t[k] = p[m] /\ t[k + 1] = p[m + 1]
        BY <1>2, <3>1, <3>2
      <3> QED BY <1>6, <3>1, <3>3 DEF Connected
    <2> QED BY <2>1, <2>2
  <1> QED BY <1>2, <1>4, <1>5, <1>6 DEF t, Connected

\* A path by the ways W over free configurations.
By(p, W) ==
  /\ \A k \in 1 .. Len(p) - 1 : <<p[k], p[k + 1]>> \in W
  /\ \A k \in 1 .. Len(p) : p[k] \in Free

\* The ways a path may go by.
Usable == Reachable \cup pieces

\* A path by accepted ways goes over free configurations.
LEMMA PathFree ==
  ASSUME NEW p \in Seq(Config), p # <<>>, Connected(p), LastOf(p) \in Free,
         NEW Z
  PROVE  By(p, Reachable \cup Z)
  <1>2. Len(p) \in Nat
    BY Numbered
  <1>3. ASSUME NEW k \in 1 .. Len(p) PROVE p[k] \in Free
    <2>1. CASE k = Len(p)
      BY <2>1 DEF LastOf
    <2>2. CASE k # Len(p)
      <3>1. k \in 1 .. Len(p) - 1
        BY <1>2, <2>2
      <3>2. <<p[k], p[k + 1]>> \in Reachable
        BY <3>1 DEF Connected
      <3>3. <<p[k], p[k + 1]>> \in Free \X Free
        BY <3>2, Ways
      <3> QED BY <3>3
    <2> QED BY <2>1, <2>2
  <1> QED BY <1>3 DEF Connected, By

-----------------------------------------------------------------------------
(* The inductive invariant.                                                *)

\* Every edge is a way that isReachable has accepted, within one of the trees.
Edges ==
  /\ \A e \in DOMAIN edges : Joins(edges[e][1], edges[e][2])
  /\ \A e \in DOMAIN edges : \E tree \in {Ta_, Tb_} : {edges[e][1], edges[e][2]} \subseteq In(tree)
  /\ In(Ta_) \cap In(Tb_) = {}

Runs == {"begin", "search", "connect", "trace", "traceGoal", "integrate", "build",
         "link", "ends", "attach", "dfs"}
Searches == {"search", "connect", "trace", "traceGoal", "integrate"}

\* Where the call stands tells the algorithm, which trees there are, that it has
\* no result yet and that the ends were found free.
Phase ==
  /\ at \in Searches \cup {"begin"} => IsRRT
  /\ at \in {"build", "link", "ends", "attach", "dfs"} => ~IsRRT
  /\ at = "traceGoal" => algorithm_ = "RRTconnect"
  /\ at \notin Searches => Tb_ = <<>>
  /\ at \in Searches => Ta_ # <<>> /\ Tb_ # <<>>
  /\ at \in {"prepare", "begin"} /\ fresh => Ta_ = <<>>
  /\ at \notin {"idle", "trace", "traceGoal", "integrate", "shortcut"} => ~result
  /\ at \in {"begin", "search", "connect"} => path = <<>>
  /\ at \in Runs => goal_ \in Free

\* The trees hang from the start and the goal, but for what earlier calls have
\* left in Ta_.
Rooted ==
  at \in Searches =>
    /\ fresh => \A n \in In(Ta_) : (\A e \in DOMAIN edges : edges[e][2] # n) => pos[n] = start_
    /\ \A n \in In(Tb_) : (\A e \in DOMAIN edges : edges[e][1] # n) => pos[n] = goal_

\* connect is after the node that was made last in the other tree, or after the
\* goal; when it has reached it, the trees meet.
Meets ==
  /\ at = "connect" =>
       IF algorithm_ = "RRT" THEN qNew = goal_
       ELSE qNew = pos[LastOf(IF isTaStart THEN Ta_ ELSE Tb_)]
  /\ at \in {"trace", "traceGoal", "integrate"} /\ result =>
       IF algorithm_ = "RRT" THEN pos[LastOf(Ta_)] = goal_
       ELSE Joins(LastOf(Ta_), LastOf(Tb_))

\* What path() has put together so far.
Traced ==
  /\ at = "trace" =>
       /\ node \in In(Ta_)
       /\ Connected(path)
       /\ path = <<>> => node = LastOf(Ta_)
       /\ path # <<>> => /\ <<pos[node], path[1]>> \in Reachable
                         /\ LastOf(path) = pos[LastOf(Ta_)]
  /\ at = "traceGoal" =>
       /\ node \in In(Tb_)
       /\ path # <<>>
       /\ result => Connected(path) /\ <<LastOf(path), pos[node]>> \in Reachable
       /\ fresh => path[1] = start_
  /\ at = "integrate" =>
       /\ path # <<>>
       /\ result => Connected(path) /\ LastOf(path) = goal_
       /\ fresh => path[1] = start_

\* The roadmap of PRM and the path of DFS through it.
OnRoadmap ==
  /\ at = "link" => i <= Len(Ta_) /\ j >= 1 /\ (j <= Len(Ta_) => i >= 1)
  /\ at = "attach" => i >= 1
  /\ at \in {"attach", "dfs"} =>
       /\ {startNode, goalNode} \subseteq In(Ta_)
       /\ pos[startNode] = start_ /\ pos[goalNode] = goal_
  /\ at = "dfs" =>
       /\ \A k \in 1 .. Len(stack) - 1 : Joins(stack[k], stack[k + 1])
       /\ stack # <<>> => stack[1] = startNode

Good(p, W) ==
  /\ p # <<>>
  /\ By(p, W)
  /\ LastOf(p) = goal_
  /\ fresh \/ ~IsRRT => p[1] = start_

Paths ==
  /\ at = "idle" /\ result => path_ # <<>>
  /\ path_ # <<>> => Good(path_, Usable)
  /\ at = "shortcut" => Good(optimized, Usable) /\ index \in 2 .. Len(optimized)

Planned ==
  /\ TypeOK /\ Edges /\ Phase /\ Rooted /\ Meets /\ Traced /\ OnRoadmap /\ Paths

LEMMA InitPlanned == Init => Planned
  <1> SUFFICES ASSUME Init PROVE Planned
    OBVIOUS
  <1>1. <<>> \in Seq(Config) /\ <<>> \in Seq(Nodes) /\ <<>> \in Seq(Nodes \X Nodes)
        /\ DOMAIN <<>> = {}
    OBVIOUS
  <1>2. TypeOK
    <2>1. isRunning_ \in BOOLEAN /\ isTaStart \in BOOLEAN /\ result \in BOOLEAN /\ fresh \in BOOLEAN
          /\ key \in BOOLEAN /\ cancelled \in BOOLEAN /\ pieces \subseteq Config \X Config
      BY Zenon DEF Init
    <2>2. i \in Nat /\ j \in Nat /\ index \in Nat /\ calls \in 0 .. MaxCalls
      BY Constants DEF Init
    <2>3. {startNode, goalNode, node} \subseteq Nodes \cup {NoNode} /\ visited \subseteq Nodes
      BY DEF Init
    <2>4. /\ pos \in Seq(Config) /\ edges \in Seq(Nodes \X Nodes)
          /\ Ta_ \in Seq(Nodes) /\ Tb_ \in Seq(Nodes) /\ stack \in Seq(Nodes)
          /\ path \in Seq(Config) /\ path_ \in Seq(Config) /\ optimized \in Seq(Config)
      BY <1>1, Zenon DEF Init
    <2> QED BY <2>1, <2>2, <2>3, <2>4, Zenon DEF Init, TypeOK
  <1>3. Edges
    <2>1. In(Ta_) = {} /\ DOMAIN edges = {}
      BY <1>1 DEF Init, In
    <2> QED BY <2>1 DEF Edges
  <1> QED BY <1>2, <1>3 DEF Planned, Init, Phase, Rooted, Meets, Traced, OnRoadmap, Paths, Searches, Runs

\* Steps that leave the graph alone.
LEMMA SameGraph ==
  ASSUME pos' = pos, edges' = edges, Ta_' = Ta_, Tb_' = Tb_, Edges
  PROVE  Edges'
  BY DEF Edges, Joins, In

LEMMA PlannedCall ==
  ASSUME Planned,
         NEW name \in {"RRT", "RRTconnect", "PRM"}, NEW s \in Config, NEW g \in Config,
         Call(name, s, g)
  PROVE  Planned'
  <1> USE DEF Planned
  <1>1. <<>> \in Seq(Config) /\ <<>> \in Seq(Nodes') /\ <<>> \in Seq(Nodes' \X Nodes')
        /\ DOMAIN <<>> = {}
    OBVIOUS
  <1>2. /\ at' = "prepare" /\ at = "idle" /\ result' = FALSE /\ path_' = <<>>
        /\ start_' = s /\ goal_' = g /\ calls' \in 0 .. MaxCalls
        /\ qNew' = s /\ i' = 0 /\ j' = 0 /\ index' = 0
        /\ startNode' = NoNode /\ goalNode' = NoNode /\ node' = NoNode
        /\ stack' = <<>> /\ visited' = {} /\ optimized' = <<>>
    BY Constants DEF Call, TypeOK
  <1>3. isTaStart' \in BOOLEAN /\ result' \in BOOLEAN /\ key' \in BOOLEAN
        /\ cancelled' \in BOOLEAN /\ pieces' \subseteq Config \X Config
    BY Zenon DEF Call
  <1>4. \/ /\ algorithm_' = name /\ pos' = <<>> /\ edges' = <<>> /\ Ta_' = <<>> /\ Tb_' = <<>>
           /\ isRunning_' = FALSE /\ path' = <<>> /\ fresh' = TRUE
        \/ /\ algorithm_' = algorithm_ /\ pos' = pos /\ edges' = edges /\ Ta_' = Ta_
           /\ Tb_' = Tb_ /\ isRunning_' = isRunning_ /\ path' = path /\ fresh' = FALSE
    BY DEF Call, graph
  <1>5. /\ algorithm_' \in {"none", "RRT", "RRTconnect", "PRM"}
        /\ pos' \in Seq(Config) /\ edges' \in Seq(Nodes' \X Nodes')
        /\ Ta_' \in Seq(Nodes') /\ Tb_' \in Seq(Nodes') /\ path' \in Seq(Config)
    BY <1>1, <1>4 DEF TypeOK, Nodes
  <1>6. isRunning_' \in BOOLEAN /\ fresh' \in BOOLEAN
    BY <1>4, Zenon DEF TypeOK
  <1>7. TypeOK'
    BY <1>1, <1>2, <1>3, <1>5, <1>6 DEF TypeOK, NoNode
  <1>8. Edges'
    <2>1. CASE edges' = <<>> /\ Ta_' = <<>> /\ Tb_' = <<>>
      <3>1. DOMAIN edges' = {} /\ In(Ta_)' = {}
        BY <1>1, <2>1 DEF In
      <3> QED BY <3>1 DEF Edges
    <2> QED BY <1>4, <2>1, SameGraph
  <1>9. Tb_' = <<>> /\ (fresh' => Ta_' = <<>>)
    BY <1>2, <1>4 DEF Phase, Searches, Runs
  <1> QED BY <1>2, <1>7, <1>8, <1>9
          DEF Phase, Rooted, Meets, Traced, OnRoadmap, Paths, Searches, Runs, Good

LEMMA PlannedStop ==
  ASSUME Planned, Stop PROVE Planned'
  <1> USE DEF Planned, Stop, graph, ends, search, dfs, opt
  <1>1. TypeOK'
    <2>1. isRunning_' \in BOOLEAN /\ cancelled' \in BOOLEAN
      BY Zenon
    <2> QED BY <2>1 DEF TypeOK, Nodes
  <1>2. Edges'
    BY SameGraph
  <1> QED BY <1>1, <1>2 DEF Phase, Rooted, Meets, Traced, OnRoadmap, Paths, Good, Joins, IsRRT,
                            Connected, Usable, By, LastOf, In, Runs

LEMMA PlannedPrepare ==
  ASSUME Planned, Prepare PROVE Planned'
  <1> USE DEF Planned
  <1>1. /\ pos' = pos /\ edges' = edges /\ Ta_' = Ta_ /\ Tb_' = Tb_ /\ algorithm_' = algorithm_
        /\ start_' = start_ /\ goal_' = goal_ /\ fresh' = fresh /\ calls' = calls
        /\ i' = i /\ j' = j /\ isTaStart' = isTaStart /\ qNew' = qNew
        /\ startNode' = startNode /\ goalNode' = goalNode /\ node' = node
        /\ stack' = stack /\ visited' = visited /\ index' = index /\ optimized' = optimized
        /\ key' = key /\ cancelled' = cancelled /\ pieces' = pieces /\ at = "prepare"
    BY DEF Prepare, graph, ends, search, dfs, opt
  <1>2. Edges'
    BY <1>1, SameGraph
  <1>3. CASE /\ path' = <<>> /\ path_' = path_ /\ at' = "idle" /\ result' = FALSE
    <2>1. TypeOK'
      <3>1. isRunning_' \in BOOLEAN /\ result' \in BOOLEAN /\ key' \in BOOLEAN /\ cancelled' \in BOOLEAN
        BY <1>1, <1>3, Zenon DEF Prepare, TypeOK
      <3> QED BY <1>1, <1>3, <3>1 DEF TypeOK, Nodes
    <2> QED BY <1>1, <1>2, <1>3, <2>1
            DEF Phase, Rooted, Meets, Traced, OnRoadmap, Paths, Searches, Good, IsRRT, Connected, LastOf, Runs, Usable, By
  <1>4. CASE /\ path' = <<start_, goal_>> /\ path_' = path' /\ at' = "idle" /\ result' = TRUE
             /\ <<start_, goal_>> \in Reachable
    <2>1. path' \in Seq(Config) /\ path' # <<>> /\ Len(path') = 2 /\ path'[1] = start_ /\ path'[2] = goal_
      BY <1>4 DEF TypeOK
    <2>2. TypeOK'
      <3>1. isRunning_' \in BOOLEAN /\ result' \in BOOLEAN /\ key' \in BOOLEAN /\ cancelled' \in BOOLEAN
        BY <1>1, <1>4, Zenon DEF Prepare, TypeOK
      <3>2. path_' \in Seq(Config) /\ at' = "idle"
        BY <1>4, <2>1
      <3> QED BY <1>1, <2>1, <3>1, <3>2 DEF TypeOK, Nodes
    <2>3. Good(path_', Usable')
      <3>1. Connected(path')
        BY <1>4, <2>1 DEF Connected
      <3>2. path_' = path' /\ start_' = start_ /\ goal_' = goal_ /\ path_'[Len(path_')] = goal_
        BY <1>1, <1>4, <2>1
      <3>3. LastOf(path') \in Free
        BY <1>4, <2>1, Ways DEF LastOf
      <3>4. By(path_', Usable')
        <4>1. By(path', Reachable \cup pieces')
          BY <2>1, <3>1, <3>3, PathFree
        <4> QED BY <3>2, <4>1 DEF Usable
      <3> QED BY <2>1, <3>2, <3>4 DEF Good, LastOf
    <2>4. Paths'
      BY <1>1, <1>4, <2>1, <2>3 DEF Paths, Good, IsRRT
    <2> QED BY <1>1, <1>2, <1>4, <2>1, <2>2, <2>4
            DEF Phase, Rooted, Meets, Traced, OnRoadmap, Searches, IsRRT, Runs
  <1>5. CASE /\ path' = <<>> /\ path_' = path_ /\ result' = result /\ goal_ \in Free
             /\ at' = IF IsRRT THEN "begin" ELSE IF Ta_ = <<>> THEN "build" ELSE "ends"
    <2>1. TypeOK'
      <3>1. isRunning_' \in BOOLEAN /\ key' \in BOOLEAN /\ cancelled' \in BOOLEAN
        BY <1>1, Zenon DEF Prepare, TypeOK
      <3> QED BY <1>1, <1>5, <3>1 DEF TypeOK, Nodes
    <2> QED BY <1>1, <1>2, <1>5, <2>1
            DEF Phase, Rooted, Meets, Traced, OnRoadmap, Paths, Searches, Good, IsRRT, Connected, LastOf, Runs, Usable, By
  <1> QED BY <1>3, <1>4, <1>5 DEF Prepare, Return

-----------------------------------------------------------------------------
(* Steps that make nodes.                                                  *)

\* What a step that makes nodes leaves as it was.
Grown ==
  /\ pos' \in Seq(Config) /\ Nodes \subseteq Nodes'
  /\ \A n \in Nodes : pos'[n] = pos[n]

\* New nodes and no new edges: u are the configurations, a and b the nodes put
\* into the trees.
LEMMA NewNodes ==
  ASSUME TypeOK, Edges, NEW u \in Seq(Config), pos' = pos \o u, edges' = edges,
         NEW a \in Seq(Nat), NEW b \in Seq(Nat), Ta_' = Ta_ \o a, Tb_' = Tb_ \o b,
         In(a) \cup In(b) \subseteq Len(pos) + 1 .. Len(pos) + Len(u), In(a) \cap In(b) = {}
  PROVE  /\ Grown /\ Len(pos') = Len(pos) + Len(u)
         /\ \A k \in 1 .. Len(u) : pos'[Len(pos) + k] = u[k]
         /\ edges' \in Seq(Nodes' \X Nodes') /\ Ta_' \in Seq(Nodes') /\ Tb_' \in Seq(Nodes')
         /\ Edges'
         /\ In(Ta_') = In(Ta_) \cup In(a) /\ In(Tb_') = In(Tb_) \cup In(b)
  <1>1. /\ pos' \in Seq(Config) /\ Len(pos') = Len(pos) + Len(u)
        /\ \A k \in 1 .. Len(pos) : pos'[k] = pos[k]
        /\ \A k \in 1 .. Len(u) : pos'[Len(pos) + k] = u[k]
    <2>1. pos \in Seq(Config)
      BY DEF TypeOK
    <2>2. /\ pos \o u \in Seq(Config) /\ Len(pos \o u) = Len(pos) + Len(u)
          /\ \A k \in 1 .. Len(pos) : (pos \o u)[k] = pos[k]
          /\ \A k \in 1 .. Len(u) : (pos \o u)[Len(pos) + k] = u[k]
      BY <2>1, Joint
    <2> QED BY <2>2
  <1>2. Len(u) \in Nat /\ Len(pos) \in Nat
    BY EdgeEnds, LenProperties
  <1>3. Grown
    BY <1>1, <1>2 DEF Grown, Nodes
  <1>4. edges' \in Seq(Nodes' \X Nodes') /\ Ta_ \in Seq(Nodes') /\ Tb_ \in Seq(Nodes')
    <2>1. Len(pos) <= Len(pos') /\ Len(pos') \in Nat
      BY <1>1, <1>2
    <2> QED BY <1>2, <2>1, Widen DEF TypeOK, Nodes
  <1>5. ASSUME NEW s \in Seq(Nat), In(s) \subseteq Len(pos) + 1 .. Len(pos) + Len(u)
        PROVE  s \in Seq(Nodes')
    <2>1. Len(s) \in Nat /\ s \in [1 .. Len(s) -> Nat] /\ DOMAIN s = 1 .. Len(s)
      BY LenProperties
    <2>2. \A k \in 1 .. Len(s) : s[k] \in Nodes'
      <3>1. \A k \in 1 .. Len(s) : s[k] \in Len(pos) + 1 .. Len(pos) + Len(u)
        BY <1>5, <2>1 DEF In
      <3> QED BY <1>1, <1>2, <3>1 DEF Nodes
    <2> QED BY <2>2, Retyped
  <1>6. a \in Seq(Nodes') /\ b \in Seq(Nodes')
    BY <1>5
  <1>7. /\ Ta_' \in Seq(Nodes') /\ Tb_' \in Seq(Nodes')
        /\ In(Ta_') = In(Ta_) \cup In(a) /\ In(Tb_') = In(Tb_) \cup In(b)
    BY <1>4, <1>6, Joint
  <1>8. Edges'
    <2>1. \A e \in DOMAIN edges : edges[e][1] \in Nodes /\ edges[e][2] \in Nodes
      BY EdgeEnds
    <2>2. \A e \in DOMAIN edges' : <<pos'[edges'[e][1]], pos'[edges'[e][2]]>> \in Reachable
      BY <1>3, <2>1 DEF Edges, Joins, Grown
    <2>3. \A e \in DOMAIN edges' :
            \E tree \in {Ta_', Tb_'} : {edges'[e][1], edges'[e][2]} \subseteq In(tree)
      BY <1>7 DEF Edges
    <2>4. In(Ta_') \cap In(Tb_') = {}
      <3>1. In(Ta_) \subseteq Nodes /\ In(Tb_) \subseteq Nodes
        BY Numbered DEF TypeOK
      <3>2. Nodes \cap (Len(pos) + 1 .. Len(pos) + Len(u)) = {}
        BY <1>2 DEF Nodes
      <3> QED BY <1>7, <3>1, <3>2 DEF Edges
    <2> QED BY <2>2, <2>3, <2>4 DEF Edges, In, Joins
  <1> QED BY <1>1, <1>3, <1>4, <1>7, <1>8

\* A node without an edge to it, or from it.
NoneInto(n) == \A e \in DOMAIN edges : edges[e][2] # n
NoneOutOf(n) == \A e \in DOMAIN edges : edges[e][1] # n

TreeOf(reverse) == IF reverse THEN Tb_ ELSE Ta_
Reverse(t) == algorithm_ = "RRTconnect" /\ t

\* extend: one node more in one of the trees.
LEMMA ExtendGrows ==
  ASSUME TypeOK, Edges, Ta_ # <<>>, Tb_ # <<>>,
         NEW reverse \in BOOLEAN, NEW q \in Config,
         CanExtend(TreeOf(reverse), q, reverse), Extend(TreeOf(reverse), q, reverse)
  PROVE  /\ Grown /\ Target(TreeOf(reverse), q) \in Free
         /\ edges' \in Seq(Nodes' \X Nodes') /\ Ta_' \in Seq(Nodes') /\ Tb_' \in Seq(Nodes')
         /\ Ta_' # <<>> /\ Tb_' # <<>>
         /\ IF reverse THEN Ta_' = Ta_ /\ pos'[LastOf(Tb_')] = Target(TreeOf(reverse), q)
                       ELSE Tb_' = Tb_ /\ pos'[LastOf(Ta_')] = Target(TreeOf(reverse), q)
         /\ Edges'
         /\ \A n \in In(Ta_') : NoneInto(n)' => n \in In(Ta_) /\ NoneInto(n)
         /\ \A n \in In(Tb_') : NoneOutOf(n)' => n \in In(Tb_) /\ NoneOutOf(n)
  <1> DEFINE tree == TreeOf(reverse)
             near == Nearest(tree, q)
             new == Len(pos) + 1
             target == Target(tree, q)
             edge == IF reverse THEN <<new, near>> ELSE <<near, new>>
  <1>1. tree \in Seq(Nodes) /\ tree # <<>>
    BY DEF TypeOK, TreeOf
  <1>2. near \in In(tree) /\ near \in Nodes
    <2>1. near \in In(tree)
      BY <1>1, NearestIs
    <2> QED BY <1>1, <2>1, Numbered
  <1>3. /\ pos' = Append(pos, target) /\ edges' = Append(edges, edge)
        /\ IF reverse THEN Tb_' = Append(Tb_, new) /\ Ta_' = Ta_
                      ELSE Ta_' = Append(Ta_, new) /\ Tb_' = Tb_
    BY DEF Extend
  <1>4. IF reverse THEN <<target, pos[near]>> \in Reachable
                   ELSE <<pos[near], target>> \in Reachable
    BY DEF CanExtend
  <1> HIDE DEF near, target, tree
  <1>5. target \in Free /\ target \in Config /\ pos[near] \in Config
    <2>1. target \in Free
      BY <1>4, Ways
    <2> QED BY <1>2, <2>1, EdgeEnds, Constants
  <1>6. /\ Len(pos) \in Nat /\ pos' \in Seq(Config) /\ Len(pos') = new /\ pos'[new] = target
        /\ \A n \in Nodes : pos'[n] = pos[n]
    BY <1>3, <1>5, Longer, EdgeEnds DEF TypeOK, Nodes
  <1>7. Nodes \subseteq Nodes' /\ new \in Nodes' /\ new \notin Nodes
    BY <1>6 DEF Nodes
  <1>8. Grown
    BY <1>6, <1>7 DEF Grown
  <1>9. edges \in Seq(Nodes' \X Nodes') /\ Ta_ \in Seq(Nodes') /\ Tb_ \in Seq(Nodes')
    <2>1. Len(pos) <= Len(pos') /\ Len(pos') \in Nat
      BY <1>6
    <2> QED BY <1>6, <2>1, Widen DEF TypeOK, Nodes
  <1>10. edge \in Nodes' \X Nodes'
    BY <1>2, <1>7
  <1>11. /\ edges' \in Seq(Nodes' \X Nodes') /\ Len(edges') = Len(edges) + 1
         /\ \A e \in 1 .. Len(edges) : edges'[e] = edges[e]
         /\ edges'[Len(edges) + 1] = edge
    BY <1>3, <1>9, <1>10, Longer
  <1>12. /\ DOMAIN edges' = 1 .. Len(edges) + 1 /\ DOMAIN edges = 1 .. Len(edges)
         /\ Len(edges) \in Nat
    BY <1>9, <1>11, LenProperties
  <1>13. /\ Ta_' \in Seq(Nodes') /\ Tb_' \in Seq(Nodes') /\ Ta_' # <<>> /\ Tb_' # <<>>
         /\ In(Ta_') = IF reverse THEN In(Ta_) ELSE In(Ta_) \cup {new}
         /\ In(Tb_') = IF reverse THEN In(Tb_) \cup {new} ELSE In(Tb_)
         /\ LastOf(IF reverse THEN Tb_' ELSE Ta_') = new
    <2>1. CASE reverse
      <3>1. Tb_' = Append(Tb_, new) /\ Ta_' = Ta_
        BY <1>3, <2>1
      <3>2. Append(Tb_, new) \in Seq(Nodes') /\ Append(Tb_, new) # <<>>
            /\ LastOf(Append(Tb_, new)) = new /\ In(Append(Tb_, new)) = In(Tb_) \cup {new}
        <4>1. new \in Nodes' /\ Tb_ \in Seq(Nodes')
          BY <1>7, <1>9
        <4> HIDE DEF new
        <4> QED BY <4>1, Longer
      <3> HIDE DEF new
      <3> QED BY <1>9, <2>1, <3>1, <3>2
    <2>2. CASE ~reverse
      <3>1. Ta_' = Append(Ta_, new) /\ Tb_' = Tb_
        BY <1>3, <2>2
      <3>2. Append(Ta_, new) \in Seq(Nodes') /\ Append(Ta_, new) # <<>>
            /\ LastOf(Append(Ta_, new)) = new /\ In(Append(Ta_, new)) = In(Ta_) \cup {new}
        <4>1. new \in Nodes' /\ Ta_ \in Seq(Nodes')
          BY <1>7, <1>9
        <4> HIDE DEF new
        <4> QED BY <4>1, Longer
      <3> HIDE DEF new
      <3> QED BY <1>9, <2>2, <3>1, <3>2
    <2> QED BY <2>1, <2>2
  <1>14. In(Ta_) \subseteq Nodes /\ In(Tb_) \subseteq Nodes
    BY Numbered DEF TypeOK
  <1>15. Edges'
    <2>1. ASSUME NEW e \in DOMAIN edges'
          PROVE  /\ <<pos'[edges'[e][1]], pos'[edges'[e][2]]>> \in Reachable
                 /\ \E t \in {Ta_', Tb_'} : {edges'[e][1], edges'[e][2]} \subseteq In(t)
      <3>1. CASE e \in DOMAIN edges
        <4>1. edges'[e] = edges[e] /\ edges[e][1] \in Nodes /\ edges[e][2] \in Nodes
          BY <1>11, <1>12, <3>1, EdgeEnds
        <4>2. <<pos'[edges'[e][1]], pos'[edges'[e][2]]>> \in Reachable
          BY <1>6, <3>1, <4>1 DEF Edges, Joins
        <4>3. \E t \in {Ta_, Tb_} : {edges'[e][1], edges'[e][2]} \subseteq In(t)
          BY <3>1, <4>1 DEF Edges
        <4>4. In(Ta_) \subseteq In(Ta_') /\ In(Tb_) \subseteq In(Tb_')
          BY <1>13
        <4> QED BY <4>2, <4>3, <4>4
      <3>2. CASE e = Len(edges) + 1
        <4>1. edges'[e] = edge
          BY <1>11, <3>2
        <4>2. <<pos'[edges'[e][1]], pos'[edges'[e][2]]>> \in Reachable
          <5>1. pos'[near] = pos[near] /\ pos'[new] = target
            BY <1>2, <1>6
          <5>2. CASE reverse
            <6>1. edges'[e][1] = new /\ edges'[e][2] = near
              BY <4>1, <5>2
            <6>2. <<target, pos[near]>> \in Reachable
              BY <1>4, <5>2
            <6> QED BY <5>1, <6>1, <6>2
          <5>3. CASE ~reverse
            <6>1. edges'[e][1] = near /\ edges'[e][2] = new
              BY <4>1, <5>3
            <6>2. <<pos[near], target>> \in Reachable
              BY <1>4, <5>3
            <6> QED BY <5>1, <6>1, <6>2
          <5> QED BY <5>2, <5>3
        <4>3. {edges'[e][1], edges'[e][2]} \subseteq In(IF reverse THEN Tb_' ELSE Ta_')
          BY <1>2, <1>13, <4>1 DEF tree, TreeOf
        <4> QED BY <4>2, <4>3
      <3> QED BY <1>12, <3>1, <3>2
    <2>2. In(Ta_') \cap In(Tb_') = {}
      BY <1>7, <1>13, <1>14 DEF Edges
    <2> QED BY <2>1, <2>2 DEF Edges, In, Joins
  <1>16. ASSUME NEW n \in In(Ta_'), NoneInto(n)' PROVE n \in In(Ta_) /\ NoneInto(n)
    <2>1. Len(edges) + 1 \in DOMAIN edges' /\ DOMAIN edges \subseteq DOMAIN edges'
      BY <1>12
    <2>2. \A e \in DOMAIN edges : edges[e][2] # n
      BY <1>11, <1>12, <1>16, <2>1 DEF NoneInto
    <2>3. reverse \/ n # new
      BY <1>11, <1>16, <2>1 DEF NoneInto
    <2> QED BY <1>13, <2>2, <2>3 DEF NoneInto
  <1>17. ASSUME NEW n \in In(Tb_'), NoneOutOf(n)' PROVE n \in In(Tb_) /\ NoneOutOf(n)
    <2>1. Len(edges) + 1 \in DOMAIN edges' /\ DOMAIN edges \subseteq DOMAIN edges'
      BY <1>12
    <2>2. \A e \in DOMAIN edges : edges[e][1] # n
      BY <1>11, <1>12, <1>17, <2>1 DEF NoneOutOf
    <2>3. ~reverse \/ n # new
      BY <1>11, <1>17, <2>1 DEF NoneOutOf
    <2> QED BY <1>13, <2>2, <2>3 DEF NoneOutOf
  <1>18. IF reverse THEN Ta_' = Ta_ /\ pos'[LastOf(Tb_')] = target
                    ELSE Tb_' = Tb_ /\ pos'[LastOf(Ta_')] = target
    BY <1>3, <1>6, <1>13
  <1> QED BY <1>5, <1>8, <1>11, <1>13, <1>15, <1>16, <1>17, <1>18 DEF target, tree

Places == {"idle", "prepare", "begin", "search", "connect", "trace", "traceGoal",
           "integrate", "build", "link", "ends", "attach", "dfs", "shortcut"}

Kept == /\ UNCHANGED <<algorithm_, start_, goal_, fresh, calls, cancelled, pieces>>
        /\ UNCHANGED <<isRunning_, path_, index, optimized>>

LEMMA TypeGrown ==
  ASSUME TypeOK, Grown, Kept, UNCHANGED <<stack, visited, path>>,
         edges' \in Seq(Nodes' \X Nodes'), Ta_' \in Seq(Nodes'), Tb_' \in Seq(Nodes'),
         {startNode', goalNode', node'} \subseteq Nodes' \cup {NoNode},
         qNew' \in Config, i' \in Nat, j' \in Nat, isTaStart' \in BOOLEAN, result' \in BOOLEAN,
         key' \in BOOLEAN, at' \in Places
  PROVE  TypeOK'
  <1>1. stack' \in Seq(Nodes') /\ visited' \subseteq Nodes'
    <2>1. \A k \in 1 .. Len(stack) : stack[k] \in Nodes'
      BY Numbered DEF TypeOK, Grown
    <2>2. stack \in Seq(Nodes) /\ visited \subseteq Nodes
      BY DEF TypeOK
    <2>3. stack \in Seq(Nodes')
      BY <2>1, <2>2, Retyped
    <2> QED BY <2>2, <2>3 DEF Grown
  <1>2. isRunning_' \in BOOLEAN /\ fresh' \in BOOLEAN /\ cancelled' \in BOOLEAN
        /\ pieces' \subseteq Config \X Config
    BY Zenon DEF TypeOK, Kept
  <1>3. /\ path' \in Seq(Config) /\ path_' \in Seq(Config) /\ optimized' \in Seq(Config)
        /\ start_' \in Config /\ goal_' \in Config /\ index' \in Nat /\ calls' \in 0 .. MaxCalls
        /\ algorithm_' \in {"none", "RRT", "RRTconnect", "PRM"}
    BY DEF TypeOK, Kept
  <1> QED BY <1>1, <1>2, <1>3, Zenon DEF TypeOK, Grown, Places

LEMMA PathsKept ==
  ASSUME Paths, Kept, at' \notin {"idle", "shortcut"}
  PROVE  Paths'
  BY DEF Paths, Kept, Good, Usable, IsRRT, By, LastOf

\* The roots of the trees are those there were.
LEMMA RootedKept ==
  ASSUME Rooted, Grown, Kept, at \in Searches,
         In(Ta_) \cup In(Tb_) \subseteq Nodes,
         \A n \in In(Ta_') : NoneInto(n)' => n \in In(Ta_) /\ NoneInto(n),
         \A n \in In(Tb_') : NoneOutOf(n)' => n \in In(Tb_) /\ NoneOutOf(n)
  PROVE  Rooted'
  <1>1. ASSUME fresh', NEW n \in In(Ta_'), \A e \in DOMAIN edges' : edges'[e][2] # n
        PROVE  pos'[n] = start_'
    <2>1. n \in In(Ta_) /\ NoneInto(n)
      BY <1>1 DEF NoneInto
    <2> QED BY <1>1, <2>1 DEF Rooted, Grown, Kept, NoneInto
  <1>2. ASSUME NEW n \in In(Tb_'), \A e \in DOMAIN edges' : edges'[e][1] # n
        PROVE  pos'[n] = goal_'
    <2>1. n \in In(Tb_) /\ NoneOutOf(n)
      BY <1>2 DEF NoneOutOf
    <2> QED BY <1>2, <2>1 DEF Rooted, Grown, Kept, NoneOutOf
  <1> QED BY <1>1, <1>2 DEF Rooted, In

LEMMA PlannedBegin ==
  ASSUME Planned, Begin PROVE Planned'
  <1> USE DEF Planned
  <1> DEFINE u == <<start_, goal_>>
             s == Len(pos) + 1
             g == Len(pos) + 2
  <1>1. /\ at = "begin" /\ at' = "search" /\ pos' = pos \o u /\ edges' = edges
        /\ Ta_' = Append(Ta_, s) /\ Tb_' = Append(Tb_, g) /\ startNode' = s /\ goalNode' = g
        /\ Kept /\ UNCHANGED <<stack, visited, path, i, j, isTaStart, qNew, key, node, result>>
    BY DEF Begin, ends, dfs, opt, Kept
  <1>2. /\ Tb_ = <<>> /\ path = <<>> /\ ~result /\ IsRRT /\ (fresh => Ta_ = <<>>)
    BY <1>1 DEF Phase, Searches, Runs
  <1>3. u \in Seq(Config) /\ Len(u) = 2 /\ u[1] = start_ /\ u[2] = goal_ /\ Len(pos) \in Nat
    BY EdgeEnds DEF TypeOK
  <1>4. /\ <<s>> \in Seq(Nat) /\ In(<<s>>) = {s} /\ <<g>> \in Seq(Nat) /\ In(<<g>>) = {g}
    <2>1. ASSUME NEW x \in Nat PROVE <<x>> \in Seq(Nat) /\ In(<<x>>) = {x}
      <3>1. DOMAIN <<x>> = {1} /\ <<x>>[1] = x
        OBVIOUS
      <3> QED BY <3>1 DEF In
    <2> QED BY <1>3, <2>1
  <1>5. Ta_' = Ta_ \o <<s>> /\ Tb_' = Tb_ \o <<g>> /\ Ta_' # <<>> /\ Tb_' # <<>>
    <2>1. ASSUME NEW t \in Seq(Nodes), NEW x \in Nat
          PROVE  Append(t, x) = t \o <<x>> /\ Append(t, x) # <<>>
      <3>1. t \in Seq(Nat)
        <4>1. \A k \in 1 .. Len(t) : t[k] \in Nodes
          BY Numbered
        <4>2. \A n \in Nodes : n \in Nat
          BY DEF Nodes
        <4>3. \A k \in 1 .. Len(t) : t[k] \in Nat
          BY <4>1, <4>2
        <4> QED BY <4>3, Retyped
      <3>2. Append(t, x) = t \o <<x>>
        BY <3>1, AppendIsConcat
      <3>3. Append(t, x) # <<>>
        BY <3>1, Longer
      <3> QED BY <3>2, <3>3
    <2>2. Ta_ \in Seq(Nodes) /\ Tb_ \in Seq(Nodes)
      BY DEF TypeOK
    <2> QED BY <1>1, <1>3, <2>1, <2>2
  <1> HIDE DEF u
  <1>6. /\ Grown /\ Len(pos') = Len(pos) + 2
        /\ pos'[s] = start_ /\ pos'[g] = goal_
        /\ edges' \in Seq(Nodes' \X Nodes') /\ Ta_' \in Seq(Nodes') /\ Tb_' \in Seq(Nodes')
        /\ Edges'
        /\ In(Ta_') = In(Ta_) \cup {s} /\ In(Tb_') = In(Tb_) \cup {g}
    <2>1. /\ In(<<s>>) \cup In(<<g>>) \subseteq Len(pos) + 1 .. Len(pos) + Len(u)
          /\ In(<<s>>) \cap In(<<g>>) = {}
      BY <1>3, <1>4
    <2> HIDE DEF s, g
    <2>2. /\ Grown /\ Len(pos') = Len(pos) + Len(u)
          /\ \A k \in 1 .. Len(u) : pos'[Len(pos) + k] = u[k]
          /\ edges' \in Seq(Nodes' \X Nodes') /\ Ta_' \in Seq(Nodes') /\ Tb_' \in Seq(Nodes')
          /\ Edges'
          /\ In(Ta_') = In(Ta_) \cup In(<<s>>) /\ In(Tb_') = In(Tb_) \cup In(<<g>>)
      BY <1>1, <1>3, <1>4, <1>5, <2>1, NewNodes
    <2>3. pos'[s] = start_ /\ pos'[g] = goal_
      BY <1>3, <2>2 DEF s, g
    <2> QED BY <1>3, <1>4, <2>2, <2>3
  <1>7. In(<<>>) = {}
    BY DEF In
  <1>8. TypeOK'
    <2>1. {startNode', goalNode', node'} \subseteq Nodes' \cup {NoNode}
      BY <1>1, <1>3, <1>6 DEF TypeOK, Grown, Nodes
    <2>2. isTaStart' \in BOOLEAN /\ result' \in BOOLEAN /\ key' \in BOOLEAN
      BY <1>1, Zenon DEF TypeOK
    <2> QED BY <1>1, <1>6, <2>1, <2>2, TypeGrown DEF TypeOK, Places
  <1>9. Rooted'
    <2>1. fresh => In(Ta_') = {s}
      BY <1>2, <1>6, <1>7
    <2>2. In(Tb_') = {g}
      BY <1>2, <1>6, <1>7
    <2> HIDE DEF s, g
    <2> QED BY <1>1, <1>6, <2>1, <2>2 DEF Rooted, Kept, In
  <1>10. Paths'
    BY <1>1, PathsKept
  <1>11. Phase'
    BY <1>1, <1>2, <1>5 DEF Phase, Searches, IsRRT, Kept, Runs
  <1>12. Meets' /\ Traced' /\ OnRoadmap'
    BY <1>1 DEF Meets, Traced, OnRoadmap
  <1> QED BY <1>6, <1>8, <1>9, <1>10, <1>11, <1>12

LEMMA PlannedSearch ==
  ASSUME Planned, NEW q \in Config, Search(q) PROVE Planned'
  <1> USE DEF Planned
  <1> DEFINE reverse == Reverse(~isTaStart)
             tree == TreeOf(reverse)
  <1>1. /\ at = "search" /\ Kept /\ i' = i + 1
        /\ UNCHANGED <<stack, visited, path, j, startNode, goalNode, node, result>>
    BY DEF Search, ends, dfs, opt, Kept
  <1>7. key' \in BOOLEAN
    BY Zenon DEF Search, Strays
  <1>2. /\ Ta_ # <<>> /\ Tb_ # <<>> /\ path = <<>> /\ ~result /\ IsRRT
    BY <1>1 DEF Phase, Searches, Runs
  <1>3. reverse \in BOOLEAN /\ isTaStart \in BOOLEAN
    BY Zenon DEF Reverse, TypeOK
  <1>4. In(Ta_) \cup In(Tb_) \subseteq Nodes
    BY Numbered DEF TypeOK
  <1>5. CASE CanExtend(tree, q, reverse)
    <2>1. /\ Extend(tree, q, reverse) /\ at' = "connect" /\ isTaStart' = isTaStart
          /\ qNew' = IF algorithm_ = "RRT" THEN goal_ ELSE Target(tree, q)
      BY <1>5 DEF Search, Reverse, TreeOf
    <2> HIDE DEF reverse
    <2>2. /\ Grown /\ Target(tree, q) \in Free
          /\ edges' \in Seq(Nodes' \X Nodes') /\ Ta_' \in Seq(Nodes') /\ Tb_' \in Seq(Nodes')
          /\ Ta_' # <<>> /\ Tb_' # <<>>
          /\ IF reverse THEN Ta_' = Ta_ /\ pos'[LastOf(Tb_')] = Target(tree, q)
                        ELSE Tb_' = Tb_ /\ pos'[LastOf(Ta_')] = Target(tree, q)
          /\ Edges'
          /\ \A n \in In(Ta_') : NoneInto(n)' => n \in In(Ta_) /\ NoneInto(n)
          /\ \A n \in In(Tb_') : NoneOutOf(n)' => n \in In(Tb_) /\ NoneOutOf(n)
      BY <1>2, <1>3, <1>5, <2>1, ExtendGrows
    <2>3. TypeOK'
      <3>1. {startNode', goalNode', node'} \subseteq Nodes' \cup {NoNode}
        BY <1>1, <2>2 DEF TypeOK, Grown
      <3>2. isTaStart' \in BOOLEAN /\ result' \in BOOLEAN
        BY <1>1, <2>1, Zenon DEF TypeOK
      <3>3. qNew' \in Config /\ i' \in Nat /\ j' \in Nat
        BY <1>1, <2>1, <2>2, Constants DEF TypeOK
      <3> QED BY <1>1, <1>7, <2>1, <2>2, <3>1, <3>2, <3>3, TypeGrown DEF Places
    <2>4. Rooted'
      BY <1>1, <1>4, <2>2, RootedKept DEF Searches
    <2>5. Meets'
      <3>1. CASE algorithm_ = "RRT"
        BY <1>1, <2>1, <3>1 DEF Meets, Kept
      <3>2. CASE algorithm_ # "RRT" /\ isTaStart
        <4>1. ~reverse /\ qNew' = pos'[LastOf(Ta_')]
          BY <2>1, <2>2, <3>2 DEF reverse, Reverse
        <4> QED BY <1>1, <2>1, <3>2, <4>1 DEF Meets, Kept, LastOf
      <3>3. CASE algorithm_ # "RRT" /\ ~isTaStart
        <4>1. reverse /\ qNew' = pos'[LastOf(Tb_')]
          BY <1>2, <2>1, <2>2, <3>3 DEF reverse, Reverse, IsRRT
        <4> QED BY <1>1, <2>1, <3>3, <4>1 DEF Meets, Kept, LastOf
      <3> QED BY <3>1, <3>2, <3>3
    <2>6. Phase'
      BY <1>1, <1>2, <2>1, <2>2 DEF Phase, Searches, IsRRT, Kept, Runs
    <2>7. Paths'
      BY <1>1, <2>1, PathsKept
    <2>8. Traced' /\ OnRoadmap'
      BY <2>1 DEF Traced, OnRoadmap
    <2> QED BY <2>2, <2>3, <2>4, <2>5, <2>6, <2>7, <2>8
  <1>6. CASE ~CanExtend(tree, q, reverse)
    <2>1. /\ pos' = pos /\ edges' = edges /\ Ta_' = Ta_ /\ Tb_' = Tb_ /\ qNew' = qNew
          /\ at' = "search" /\ isTaStart' = ~isTaStart
      BY <1>1, <1>6 DEF Search, Reverse, TreeOf
    <2>2. TypeOK'
      <3>1. isTaStart' \in BOOLEAN /\ result' \in BOOLEAN
        BY <1>1, <1>3, <2>1, Zenon DEF TypeOK
      <3>2. Grown
        BY <2>1 DEF Grown, TypeOK, Nodes
      <3> QED BY <1>1, <1>7, <2>1, <3>1, <3>2, TypeGrown DEF TypeOK, Places, Nodes
    <2>3. Edges'
      BY <2>1, SameGraph
    <2>4. Rooted' /\ Phase'
      BY <1>1, <2>1 DEF Rooted, Phase, Searches, IsRRT, Kept, In, Runs
    <2>5. Meets' /\ Traced' /\ OnRoadmap'
      BY <2>1 DEF Meets, Traced, OnRoadmap
    <2>6. Paths'
      BY <1>1, <2>1, PathsKept
    <2> QED BY <2>2, <2>3, <2>4, <2>5, <2>6
  <1> QED BY <1>5, <1>6

LEMMA PlannedConnect ==
  ASSUME Planned, Connect PROVE Planned'
  <1> USE DEF Planned
  <1> DEFINE reverse == Reverse(isTaStart)
             tree == TreeOf(reverse)
  <1>1. /\ at = "connect" /\ Kept
        /\ UNCHANGED <<stack, visited, path, i, j, qNew, startNode, goalNode>>
    BY DEF Connect, ends, dfs, opt, Kept
  <1>7. key' \in BOOLEAN
    BY Zenon DEF Connect, Strays
  <1>2. /\ Ta_ # <<>> /\ Tb_ # <<>> /\ path = <<>> /\ ~result /\ IsRRT
    BY <1>1 DEF Phase, Searches, Runs
  <1>3. reverse \in BOOLEAN /\ isTaStart \in BOOLEAN /\ qNew \in Config
    BY Zenon DEF Reverse, TypeOK
  <1>4. In(Ta_) \cup In(Tb_) \subseteq Nodes
        /\ LastOf(Ta_) \in Nodes /\ LastOf(Tb_) \in Nodes
        /\ LastOf(Ta_) \in In(Ta_) /\ LastOf(Tb_) \in In(Tb_)
    BY <1>2, Numbered DEF TypeOK
  <1>5. CASE CanExtend(tree, qNew, reverse)
    <2>1. /\ Extend(tree, qNew, reverse) /\ isTaStart' = isTaStart
          /\ at' = IF Reached(tree, qNew) THEN "trace" ELSE "connect"
          /\ result' = Reached(tree, qNew)
          /\ node' = IF Reached(tree, qNew) THEN LastOf(Ta_') ELSE node
      BY <1>5 DEF Connect, Reverse, TreeOf, LastOf
    <2> HIDE DEF reverse
    <2>2. /\ Grown /\ Target(tree, qNew) \in Free
          /\ edges' \in Seq(Nodes' \X Nodes') /\ Ta_' \in Seq(Nodes') /\ Tb_' \in Seq(Nodes')
          /\ Ta_' # <<>> /\ Tb_' # <<>>
          /\ IF reverse THEN Ta_' = Ta_ /\ pos'[LastOf(Tb_')] = Target(tree, qNew)
                        ELSE Tb_' = Tb_ /\ pos'[LastOf(Ta_')] = Target(tree, qNew)
          /\ Edges'
          /\ \A n \in In(Ta_') : NoneInto(n)' => n \in In(Ta_) /\ NoneInto(n)
          /\ \A n \in In(Tb_') : NoneOutOf(n)' => n \in In(Tb_) /\ NoneOutOf(n)
      BY <1>2, <1>3, <1>5, <2>1, ExtendGrows
    <2>3. LastOf(Ta_') \in In(Ta_') /\ LastOf(Ta_') \in Nodes'
      BY <2>2, Numbered
    <2>4. Reached(tree, qNew) => Target(tree, qNew) = qNew /\ qNew \in Free
      <3>1. tree \in Seq(Nodes) /\ tree # <<>>
        BY <1>2 DEF TypeOK, TreeOf
      <3>2. Nearest(tree, qNew) \in Nodes
        <4>1. Nearest(tree, qNew) \in In(tree)
          BY <1>3, <3>1, NearestIs
        <4> QED BY <3>1, <4>1, Numbered
      <3>3. Dist[<<pos[Nearest(tree, qNew)], qNew>>] \in Nat /\ Eps \in Nat
        BY <1>3, <3>2, EdgeEnds, Constants
      <3> QED BY <2>2, <3>3 DEF Reached, Target
    <2>5. TypeOK'
      <3>1. {startNode', goalNode', node'} \subseteq Nodes' \cup {NoNode}
        BY <1>1, <2>1, <2>2, <2>3 DEF TypeOK, Grown
      <3>2. isTaStart' \in BOOLEAN /\ result' \in BOOLEAN
        <4>1. isTaStart' \in BOOLEAN
          BY <2>1, Zenon DEF TypeOK
        <4>2. result' \in BOOLEAN
          BY <2>1, SMT DEF Reached
        <4> QED BY <4>1, <4>2
      <3>3. qNew' \in Config /\ i' \in Nat /\ j' \in Nat
        BY <1>1 DEF TypeOK
      <3> QED BY <1>1, <1>7, <2>1, <2>2, <3>1, <3>2, <3>3, TypeGrown DEF Places
    <2>6. Rooted'
      BY <1>1, <1>4, <2>2, RootedKept DEF Searches
    <2>7. /\ algorithm_ = "RRT" => qNew = goal_ /\ ~reverse
          /\ algorithm_ # "RRT" => algorithm_ = "RRTconnect" /\ (reverse <=> isTaStart)
          /\ algorithm_ # "RRT" /\ isTaStart => qNew = pos[LastOf(Ta_)]
          /\ algorithm_ # "RRT" /\ ~isTaStart => qNew = pos[LastOf(Tb_)]
      BY <1>1, <1>2 DEF Meets, IsRRT, reverse, Reverse
    <2>8. CASE Reached(tree, qNew)
      <3>1. /\ at' = "trace" /\ node' = LastOf(Ta_') /\ result' = TRUE
        BY <2>1, <2>8
      <3>2. <<qNew, qNew>> \in Reachable /\ Target(tree, qNew) = qNew
        BY <2>4, <2>8, Ways
      <3>3. Meets'
        <4>1. CASE algorithm_ = "RRT"
          BY <1>1, <2>2, <2>7, <3>1, <3>2, <4>1 DEF Meets, Kept, LastOf
        <4>2. CASE algorithm_ # "RRT"
          <5>1. <<pos'[LastOf(Ta_')], pos'[LastOf(Tb_')]>> = <<qNew, qNew>>
            <6>1. CASE isTaStart
              BY <1>4, <2>2, <2>7, <3>2, <4>2, <6>1 DEF Grown
            <6>2. CASE ~isTaStart
              BY <1>4, <2>2, <2>7, <3>2, <4>2, <6>2 DEF Grown
            <6> QED BY <6>1, <6>2
          <5> QED BY <1>1, <3>1, <3>2, <4>2, <5>1 DEF Meets, Joins, Kept, LastOf
        <4> QED BY <4>1, <4>2
      <3>4. Phase'
        BY <1>1, <1>2, <2>2, <3>1 DEF Phase, Searches, IsRRT, Kept, Runs
      <3>5. Paths'
        BY <1>1, <3>1, PathsKept
      <3>6. Traced'
        <4>1. path' = <<>> /\ Connected(path')
          BY <1>1, <1>2 DEF Connected
        <4> QED BY <2>3, <3>1, <4>1 DEF Traced, In, LastOf, Connected
      <3>7. OnRoadmap'
        BY <3>1 DEF OnRoadmap
      <3> QED BY <2>2, <2>5, <2>6, <3>3, <3>4, <3>5, <3>6, <3>7
    <2>9. CASE ~Reached(tree, qNew)
      <3>1. /\ at' = "connect" /\ node' = node /\ ~result'
        BY <2>1, <2>9
      <3>2. Meets'
        <4>1. CASE algorithm_ = "RRT"
          BY <1>1, <2>7, <3>1, <4>1 DEF Meets, Kept
        <4>2. CASE algorithm_ # "RRT" /\ isTaStart
          <5>1. qNew' = pos'[LastOf(Ta_')]
            BY <1>1, <1>4, <2>2, <2>7, <4>2 DEF Grown
          <5> QED BY <1>1, <2>1, <3>1, <4>2, <5>1 DEF Meets, Kept, LastOf
        <4>3. CASE algorithm_ # "RRT" /\ ~isTaStart
          <5>1. qNew' = pos'[LastOf(Tb_')]
            BY <1>1, <1>4, <2>2, <2>7, <4>3 DEF Grown
          <5> QED BY <1>1, <2>1, <3>1, <4>3, <5>1 DEF Meets, Kept, LastOf
        <4> QED BY <4>1, <4>2, <4>3
      <3>3. Phase'
        BY <1>1, <1>2, <2>2, <3>1 DEF Phase, Searches, IsRRT, Kept, Runs
      <3>4. Paths'
        BY <1>1, <3>1, PathsKept
      <3>5. Traced' /\ OnRoadmap'
        BY <3>1 DEF Traced, OnRoadmap
      <3> QED BY <2>2, <2>5, <2>6, <3>2, <3>3, <3>4, <3>5
    <2> QED BY <2>8, <2>9
  <1>6. CASE ~CanExtend(tree, qNew, reverse)
    <2>1. /\ pos' = pos /\ edges' = edges /\ Ta_' = Ta_ /\ Tb_' = Tb_
          /\ at' = "search" /\ isTaStart' = ~isTaStart /\ node' = node /\ result' = result
      BY <1>6 DEF Connect, Reverse, TreeOf
    <2>2. TypeOK'
      <3>1. isTaStart' \in BOOLEAN /\ result' \in BOOLEAN
        BY <1>3, <2>1, Zenon DEF TypeOK
      <3>2. Grown
        BY <2>1 DEF Grown, TypeOK, Nodes
      <3> QED BY <1>1, <1>7, <2>1, <3>1, <3>2, TypeGrown DEF TypeOK, Places, Nodes
    <2>3. Edges'
      BY <2>1, SameGraph
    <2>4. Rooted' /\ Phase'
      BY <1>1, <2>1 DEF Rooted, Phase, Searches, IsRRT, Kept, In, Runs
    <2>5. Meets' /\ Traced' /\ OnRoadmap'
      BY <2>1 DEF Meets, Traced, OnRoadmap
    <2>6. Paths'
      BY <1>1, <2>1, PathsKept
    <2> QED BY <2>2, <2>3, <2>4, <2>5, <2>6
  <1> QED BY <1>5, <1>6

LEMMA PlannedGiveUp ==
  ASSUME Planned, GiveUp PROVE Planned'
  <1> USE DEF Planned
  <1>1. /\ at = "search" /\ at' = "trace" /\ node' = LastOf(Ta_) /\ Kept
        /\ pos' = pos /\ edges' = edges /\ Ta_' = Ta_ /\ Tb_' = Tb_
        /\ UNCHANGED <<stack, visited, path, i, j, isTaStart, qNew, key, startNode, goalNode>>
        /\ UNCHANGED result
    BY DEF GiveUp, graph, ends, search, dfs, opt, Kept, LastOf
  <1>2. /\ Ta_ # <<>> /\ path = <<>> /\ ~result
    BY <1>1 DEF Phase, Searches, Runs
  <1>3. LastOf(Ta_) \in Nodes /\ LastOf(Ta_) \in In(Ta_)
    BY <1>2, Numbered DEF TypeOK
  <1>4. TypeOK'
    <2>1. Grown
      BY <1>1 DEF Grown, TypeOK, Nodes
    <2>2. isTaStart' \in BOOLEAN /\ result' \in BOOLEAN /\ key' \in BOOLEAN
      BY <1>1, Zenon DEF TypeOK
    <2>3. {startNode', goalNode', node'} \subseteq Nodes' \cup {NoNode}
      BY <1>1, <1>3 DEF TypeOK, Nodes
    <2> QED BY <1>1, <2>1, <2>2, <2>3, TypeGrown DEF TypeOK, Places, Nodes
  <1>5. Edges'
    BY <1>1, SameGraph
  <1>6. Rooted' /\ Phase'
    BY <1>1 DEF Rooted, Phase, Searches, IsRRT, Kept, In, Runs
  <1>7. Meets' /\ OnRoadmap'
    BY <1>1, <1>2 DEF Meets, OnRoadmap
  <1>8. Traced'
    <2>1. Connected(<<>>)
      BY DEF Connected
    <2> QED BY <1>1, <1>2, <1>3, <2>1 DEF Traced, In, LastOf, Connected
  <1>9. Paths'
    BY <1>1, PathsKept
  <1> QED BY <1>4, <1>5, <1>6, <1>7, <1>8, <1>9

\* The other end of an edge lies in the same tree.
LEMMA SameTree ==
  ASSUME TypeOK, Edges, NEW e \in DOMAIN edges
  PROVE  /\ edges[e][1] \in In(Ta_) <=> edges[e][2] \in In(Ta_)
         /\ edges[e][1] \in In(Tb_) <=> edges[e][2] \in In(Tb_)
         /\ Joins(edges[e][1], edges[e][2])
  <1>1. PICK tree \in {Ta_, Tb_} : {edges[e][1], edges[e][2]} \subseteq In(tree)
    BY DEF Edges
  <1> QED BY <1>1 DEF Edges

LEMMA RootedSame ==
  ASSUME Rooted, at \in Searches, pos' = pos, edges' = edges, Ta_' = Ta_, Tb_' = Tb_,
         fresh' = fresh, start_' = start_, goal_' = goal_
  PROVE  Rooted'
  <1>1. fresh => \A n \in In(Ta_) : (\A e \in DOMAIN edges : edges[e][2] # n) => pos[n] = start_
    BY DEF Rooted
  <1>2. \A n \in In(Tb_) : (\A e \in DOMAIN edges : edges[e][1] # n) => pos[n] = goal_
    BY DEF Rooted
  <1>3. fresh' => \A n \in In(Ta_') : (\A e \in DOMAIN edges' : edges'[e][2] # n) => pos'[n] = start_'
    BY <1>1
  <1>4. \A n \in In(Tb_') : (\A e \in DOMAIN edges' : edges'[e][1] # n) => pos'[n] = goal_'
    BY <1>2
  <1> QED BY <1>3, <1>4 DEF Rooted, In

LEMMA PlannedTraceStart ==
  ASSUME Planned, TraceStart PROVE Planned'
  <1> USE DEF Planned
  <1>1. /\ at = "trace" /\ path' = <<pos[node]>> \o path /\ pos' = pos /\ edges' = edges
        /\ Ta_' = Ta_ /\ Tb_' = Tb_ /\ algorithm_' = algorithm_ /\ start_' = start_
        /\ goal_' = goal_ /\ fresh' = fresh /\ calls' = calls /\ isRunning_' = isRunning_
        /\ path_' = path_ /\ i' = i /\ j' = j /\ isTaStart' = isTaStart /\ qNew' = qNew
        /\ startNode' = startNode /\ goalNode' = goalNode /\ stack' = stack
        /\ visited' = visited /\ index' = index /\ optimized' = optimized /\ result' = result
        /\ key' = key /\ cancelled' = cancelled /\ pieces' = pieces
    BY DEF TraceStart, graph, ends, search, dfs, opt
  <1>2. /\ Ta_ # <<>> /\ Tb_ # <<>> /\ IsRRT /\ node \in In(Ta_) /\ Connected(path)
    BY <1>1 DEF Phase, Searches, Traced, Runs
  <1>3. /\ In(Ta_) \subseteq Nodes /\ LastOf(Ta_) \in In(Ta_)
        /\ LastOf(Tb_) \in In(Tb_) /\ In(Tb_) \subseteq Nodes
    BY <1>2, Numbered DEF TypeOK
  <1>4. pos[node] \in Config /\ path \in Seq(Config)
    BY <1>2, <1>3, EdgeEnds DEF TypeOK
  <1>5. /\ path' \in Seq(Config) /\ path' # <<>> /\ path'[1] = pos[node] /\ Connected(path')
        /\ LastOf(path') = pos[LastOf(Ta_)]
    <2>1. /\ path # <<>> => <<pos[node], path[1]>> \in Reachable /\ LastOf(path) = pos[LastOf(Ta_)]
          /\ path = <<>> => node = LastOf(Ta_)
      BY <1>1 DEF Traced
    <2> DEFINE p == <<pos[node]>> \o path
    <2>2. /\ p \in Seq(Config) /\ p # <<>> /\ p[1] = pos[node] /\ Connected(p)
          /\ LastOf(p) = IF path = <<>> THEN pos[node] ELSE LastOf(path)
      BY <1>2, <1>4, <2>1, PathPrepend
    <2> HIDE DEF p
    <2>3. path' = p
      BY <1>1 DEF p
    <2> QED BY <2>1, <2>2, <2>3
  <1>6. \/ /\ Parent(node) # NoNode /\ node' = Parent(node) /\ at' = "trace"
        \/ /\ Parent(node) = NoNode /\ node' = LastOf(Tb_)
           /\ at' = IF algorithm_ = "RRTconnect" THEN "traceGoal" ELSE "integrate"
    BY DEF TraceStart, LastOf
  <1>7. IF Parent(node) = NoNode THEN \A e \in DOMAIN edges : edges[e][2] # node
        ELSE \E e \in DOMAIN edges : edges[e] = <<Parent(node), node>>
    BY ParentIs
  <1>8. Edges'
    BY <1>1, SameGraph
  <1>9. ASSUME node' \in Nodes, at' \in Places PROVE TypeOK'
    <2>1. isTaStart' \in BOOLEAN /\ result' \in BOOLEAN /\ isRunning_' \in BOOLEAN
          /\ fresh' \in BOOLEAN /\ key' \in BOOLEAN /\ cancelled' \in BOOLEAN
      BY <1>1, Zenon DEF TypeOK
    <2> QED BY <1>1, <1>5, <1>9, <2>1 DEF TypeOK, Places, Nodes
  <1>10. CASE Parent(node) # NoNode
    <2>1. node' = Parent(node) /\ at' = "trace"
      BY <1>6, <1>10
    <2>2. PICK e \in DOMAIN edges : edges[e] = <<Parent(node), node>>
      BY <1>7, <1>10
    <2>3. Parent(node) \in In(Ta_) /\ Joins(Parent(node), node)
      BY <1>2, <2>2, SameTree
    <2>4. TypeOK'
      BY <1>3, <1>9, <2>1, <2>3 DEF Places
    <2>5. Traced'
      BY <1>1, <1>5, <2>1, <2>3 DEF Traced, Joins, In, LastOf, Connected
    <2>6. Rooted' /\ Phase' /\ Meets' /\ OnRoadmap' /\ Paths'
      <3>1. Rooted'
        BY <1>1, RootedSame DEF Searches
      <3>2. Phase'
        BY <1>1, <2>1 DEF Phase, Searches, IsRRT, Runs
      <3>3. Meets'
        BY <1>1, <2>1 DEF Meets, Joins, LastOf, IsRRT
      <3>4. OnRoadmap'
        BY <2>1 DEF OnRoadmap
      <3>5. Paths'
        BY <1>1, <2>1, PathsKept DEF Kept
      <3> QED BY <3>1, <3>2, <3>3, <3>4, <3>5
    <2> QED BY <1>8, <2>4, <2>5, <2>6
  <1>11. CASE Parent(node) = NoNode
    <2>1. /\ node' = LastOf(Tb_)
          /\ at' = IF algorithm_ = "RRTconnect" THEN "traceGoal" ELSE "integrate"
      BY <1>6, <1>11
    <2>2. fresh => path'[1] = start_
      BY <1>1, <1>2, <1>5, <1>7, <1>11 DEF Rooted, Searches
    <2>3. TypeOK'
      BY <1>3, <1>9, <2>1 DEF Places
    <2>4. result => IF algorithm_ = "RRT" THEN pos[LastOf(Ta_)] = goal_
                    ELSE <<pos[LastOf(Ta_)], pos[LastOf(Tb_)]>> \in Reachable
      BY <1>1 DEF Meets, Joins
    <2>5. Traced'
      <3>1. CASE algorithm_ = "RRTconnect"
        <4>1. at' = "traceGoal"
          BY <2>1, <3>1
        <4>2. result' => Connected(path') /\ <<LastOf(path'), pos'[node']>> \in Reachable
          BY <1>1, <1>5, <2>1, <2>4, <3>1
        <4>3. node' \in In(Tb_') /\ (fresh' => path'[1] = start_')
          BY <1>1, <1>3, <2>1, <2>2
        <4> QED BY <1>5, <4>1, <4>2, <4>3 DEF Traced, In, LastOf, Connected
      <3>2. CASE algorithm_ # "RRTconnect"
        <4>1. at' = "integrate" /\ algorithm_ = "RRT"
          BY <1>2, <2>1, <3>2 DEF IsRRT
        <4>2. result' => Connected(path') /\ LastOf(path') = goal_'
          BY <1>1, <1>5, <2>4, <4>1
        <4>3. fresh' => path'[1] = start_'
          BY <1>1, <2>2
        <4> QED BY <1>5, <4>1, <4>2, <4>3 DEF Traced, LastOf, Connected
      <3> QED BY <3>1, <3>2
    <2>6. Rooted' /\ Phase' /\ Meets' /\ OnRoadmap' /\ Paths'
      <3>1. Rooted'
        BY <1>1, RootedSame DEF Searches
      <3>2. Phase'
        BY <1>1, <1>2, <2>1 DEF Phase, Searches, IsRRT, Runs
      <3>3. Meets'
        BY <1>1, <1>2, <2>1 DEF Meets, Joins, LastOf, IsRRT
      <3>4. OnRoadmap'
        BY <2>1 DEF OnRoadmap
      <3>5. Paths'
        BY <1>1, <2>1, PathsKept DEF Kept
      <3> QED BY <3>1, <3>2, <3>3, <3>4, <3>5
    <2> QED BY <1>8, <2>3, <2>5, <2>6
  <1> QED BY <1>10, <1>11

LEMMA PlannedTraceGoal ==
  ASSUME Planned, TraceGoal PROVE Planned'
  <1> USE DEF Planned
  <1>1. /\ at = "traceGoal" /\ path' = Append(path, pos[node]) /\ pos' = pos /\ edges' = edges
        /\ Ta_' = Ta_ /\ Tb_' = Tb_ /\ algorithm_' = algorithm_ /\ start_' = start_
        /\ goal_' = goal_ /\ fresh' = fresh /\ calls' = calls /\ isRunning_' = isRunning_
        /\ path_' = path_ /\ i' = i /\ j' = j /\ isTaStart' = isTaStart /\ qNew' = qNew
        /\ startNode' = startNode /\ goalNode' = goalNode /\ stack' = stack
        /\ visited' = visited /\ index' = index /\ optimized' = optimized /\ result' = result
        /\ key' = key /\ cancelled' = cancelled /\ pieces' = pieces
    BY DEF TraceGoal, graph, ends, search, dfs, opt
  <1>2. /\ IsRRT /\ node \in In(Tb_) /\ path # <<>> /\ (fresh => path[1] = start_)
        /\ (result => Connected(path) /\ <<LastOf(path), pos[node]>> \in Reachable)
    BY <1>1 DEF Phase, Searches, Traced, Runs
  <1>3. In(Tb_) \subseteq Nodes
    BY Numbered DEF TypeOK
  <1>4. pos[node] \in Config /\ path \in Seq(Config)
    BY <1>2, <1>3, EdgeEnds DEF TypeOK
  <1>5. /\ path' \in Seq(Config) /\ path' # <<>> /\ path'[1] = path[1]
        /\ result => Connected(path')
        /\ LastOf(path') = pos[node]
    <2> DEFINE p == Append(path, pos[node])
    <2>1. /\ p \in Seq(Config) /\ p # <<>> /\ p[1] = path[1] /\ LastOf(p) = pos[node]
          /\ result => Connected(p)
      BY <1>2, <1>4, PathAppend
    <2> HIDE DEF p
    <2>2. path' = p
      BY <1>1 DEF p
    <2> QED BY <2>1, <2>2
  <1>6. \/ /\ Child(node) # NoNode /\ node' = Child(node) /\ at' = "traceGoal"
        \/ /\ Child(node) = NoNode /\ node' = node /\ at' = "integrate"
    BY <1>1 DEF TraceGoal
  <1>7. IF Child(node) = NoNode THEN \A e \in DOMAIN edges : edges[e][1] # node
        ELSE \E e \in DOMAIN edges : edges[e] = <<node, Child(node)>>
    BY ChildIs
  <1>8. Edges'
    BY <1>1, SameGraph
  <1>9. ASSUME node' \in Nodes, at' \in Places PROVE TypeOK'
    <2>1. isTaStart' \in BOOLEAN /\ result' \in BOOLEAN /\ isRunning_' \in BOOLEAN
          /\ fresh' \in BOOLEAN /\ key' \in BOOLEAN /\ cancelled' \in BOOLEAN
      BY <1>1, Zenon DEF TypeOK
    <2> QED BY <1>1, <1>5, <1>9, <2>1 DEF TypeOK, Places, Nodes
  <1>10. CASE Child(node) # NoNode
    <2>1. node' = Child(node) /\ at' = "traceGoal"
      BY <1>6, <1>10
    <2>2. PICK e \in DOMAIN edges : edges[e] = <<node, Child(node)>>
      BY <1>7, <1>10
    <2>3. Child(node) \in In(Tb_) /\ Joins(node, Child(node))
      BY <1>2, <2>2, SameTree
    <2>4. TypeOK'
      BY <1>3, <1>9, <2>1, <2>3 DEF Places
    <2>5. Traced'
      <3>1. node' \in In(Tb_') /\ (fresh' => path'[1] = start_')
        BY <1>1, <1>2, <1>5, <2>1, <2>3
      <3>2. result' => Connected(path') /\ <<LastOf(path'), pos'[node']>> \in Reachable
        BY <1>1, <1>5, <2>1, <2>3 DEF Joins
      <3> QED BY <1>5, <2>1, <3>1, <3>2 DEF Traced, In, LastOf, Connected
    <2>6. Rooted' /\ Phase' /\ Meets' /\ OnRoadmap' /\ Paths'
      <3>1. Rooted'
        BY <1>1, RootedSame DEF Searches
      <3>2. Phase'
        BY <1>1, <2>1 DEF Phase, Searches, IsRRT, Runs
      <3>3. Meets'
        BY <1>1, <2>1 DEF Meets, Joins, LastOf, IsRRT
      <3>4. OnRoadmap'
        BY <2>1 DEF OnRoadmap
      <3>5. Paths'
        BY <1>1, <2>1, PathsKept DEF Kept
      <3> QED BY <3>1, <3>2, <3>3, <3>4, <3>5
    <2> QED BY <1>8, <2>4, <2>5, <2>6
  <1>11. CASE Child(node) = NoNode
    <2>1. /\ node' = node /\ at' = "integrate"
      BY <1>6, <1>11
    <2>2. pos[node] = goal_
      BY <1>1, <1>2, <1>7, <1>11 DEF Rooted, Searches
    <2>3. TypeOK'
      BY <1>2, <1>3, <1>9, <2>1 DEF Places
    <2>5. Traced'
      <3>1. result' => Connected(path') /\ LastOf(path') = goal_'
        BY <1>1, <1>5, <2>2
      <3>2. fresh' => path'[1] = start_'
        BY <1>1, <1>2, <1>5
      <3> QED BY <1>5, <2>1, <3>1, <3>2 DEF Traced, LastOf, Connected
    <2>6. Rooted' /\ Phase' /\ Meets' /\ OnRoadmap' /\ Paths'
      <3>1. Rooted'
        BY <1>1, RootedSame DEF Searches
      <3>2. Phase'
        BY <1>1, <1>2, <2>1 DEF Phase, Searches, IsRRT, Runs
      <3>3. Meets'
        BY <1>1, <1>2, <2>1 DEF Meets, Joins, LastOf, IsRRT
      <3>4. OnRoadmap'
        BY <2>1 DEF OnRoadmap
      <3>5. Paths'
        BY <1>1, <2>1, PathsKept DEF Kept
      <3> QED BY <3>1, <3>2, <3>3, <3>4, <3>5
    <2> QED BY <1>8, <2>3, <2>5, <2>6
  <1> QED BY <1>10, <1>11

LEMMA PlannedIntegrate ==
  ASSUME Planned, Integrate PROVE Planned'
  <1> USE DEF Planned
  <1>1. /\ at = "integrate" /\ at' = "idle" /\ path' = path /\ pos' = pos /\ edges' = edges
        /\ Ta_' = Ta_ \o Tb_ /\ Tb_' = <<>> /\ algorithm_' = algorithm_ /\ start_' = start_
        /\ goal_' = goal_ /\ fresh' = fresh /\ calls' = calls /\ isRunning_' = isRunning_
        /\ path_' = (IF result THEN path ELSE path_)
        /\ i' = i /\ j' = j /\ isTaStart' = isTaStart /\ qNew' = qNew /\ node' = node
        /\ startNode' = startNode /\ goalNode' = goalNode /\ stack' = stack
        /\ visited' = visited /\ index' = index /\ optimized' = optimized /\ result' = result
        /\ key' = key /\ cancelled' = cancelled /\ pieces' = pieces
    BY DEF Integrate, Return, ends, search, dfs, opt
  <1>2. /\ IsRRT /\ path # <<>> /\ (fresh => path[1] = start_)
        /\ (result => Connected(path) /\ LastOf(path) = goal_)
        /\ goal_ \in Free /\ path \in Seq(Config)
    BY <1>1 DEF Phase, Searches, Runs, Traced, TypeOK
  <1>3. /\ Ta_' \in Seq(Nodes) /\ In(Ta_') = In(Ta_) \cup In(Tb_)
    BY <1>1, Joint DEF TypeOK
  <1>4. In(Tb_') = {} /\ Tb_' \in Seq(Nodes)
    BY <1>1 DEF In
  <1>5. TypeOK'
    <2>1. isTaStart' \in BOOLEAN /\ result' \in BOOLEAN /\ isRunning_' \in BOOLEAN
          /\ fresh' \in BOOLEAN /\ key' \in BOOLEAN /\ cancelled' \in BOOLEAN
      BY <1>1, Zenon DEF TypeOK
    <2>2. path_' \in Seq(Config) /\ path' \in Seq(Config)
      BY <1>1 DEF TypeOK
    <2> QED BY <1>1, <1>3, <1>4, <2>1, <2>2 DEF TypeOK, Nodes
  <1>6. Edges'
    <2>1. \A e \in DOMAIN edges' : {edges'[e][1], edges'[e][2]} \subseteq In(Ta_')
      <3>1. ASSUME NEW e \in DOMAIN edges PROVE {edges[e][1], edges[e][2]} \subseteq In(Ta_')
        <4>1. PICK tree \in {Ta_, Tb_} : {edges[e][1], edges[e][2]} \subseteq In(tree)
          BY <3>1 DEF Edges
        <4> QED BY <1>3, <4>1
      <3> QED BY <1>1, <3>1
    <2>2. \A e \in DOMAIN edges' : <<pos'[edges'[e][1]], pos'[edges'[e][2]]>> \in Reachable
      BY <1>1 DEF Edges, Joins
    <2> QED BY <1>4, <2>1, <2>2 DEF Edges, Joins, In
  <1>7. Good(path_', Usable') \/ path_' = <<>>
    <2>1. CASE result
      <3>1. path_' = path
        BY <1>1, <2>1
      <3>2. By(path, Usable)
        BY <1>2, <2>1, PathFree DEF Usable
      <3>3. Usable' = Usable
        BY <1>1 DEF Usable
      <3> QED BY <1>1, <1>2, <2>1, <3>1, <3>2, <3>3 DEF Good, IsRRT
    <2>2. CASE ~result
      <3>1. path_' = path_ /\ Usable' = Usable
        BY <1>1, <2>2 DEF Usable
      <3> QED BY <1>1, <3>1 DEF Paths, Good, IsRRT
    <2> QED BY <2>1, <2>2
  <1>8. Paths'
    <2>1. result' => path_' # <<>>
      BY <1>1, <1>2
    <2> QED BY <1>1, <1>7, <2>1 DEF Paths, Good, IsRRT
  <1>9. Rooted' /\ Phase' /\ Meets' /\ Traced' /\ OnRoadmap'
    BY <1>1 DEF Rooted, Phase, Meets, Traced, OnRoadmap, Searches, IsRRT, Runs
  <1> QED BY <1>5, <1>6, <1>8, <1>9

-----------------------------------------------------------------------------
(* PRM.                                                                    *)

\* Edges within the roadmap.
EdgesOk(E) ==
  /\ E \in Seq(Nodes \X Nodes)
  /\ \A e \in DOMAIN E : Joins(E[e][1], E[e][2]) /\ {E[e][1], E[e][2]} \subseteq In(Ta_)

LEMMA RoadmapEdges ==
  ASSUME TypeOK, Tb_ = <<>>
  PROVE  Edges <=> EdgesOk(edges)
  <1>1. In(Tb_) = {}
    BY DEF In
  <1>2. edges \in Seq(Nodes \X Nodes)
    BY DEF TypeOK
  <1>3. ASSUME Edges PROVE EdgesOk(edges)
    <2>1. ASSUME NEW e \in DOMAIN edges PROVE {edges[e][1], edges[e][2]} \subseteq In(Ta_)
      <3>1. PICK tree \in {Ta_, Tb_} : {edges[e][1], edges[e][2]} \subseteq In(tree)
        BY <1>3, <2>1 DEF Edges
      <3> QED BY <1>1, <3>1
    <2> QED BY <1>2, <1>3, <2>1 DEF Edges, EdgesOk
  <1>4. ASSUME EdgesOk(edges) PROVE Edges
    BY <1>1, <1>4 DEF Edges, EdgesOk
  <1> QED BY <1>3, <1>4

LEMMA EdgesJoined ==
  ASSUME NEW E, EdgesOk(E), NEW F, EdgesOk(F)
  PROVE  EdgesOk(E \o F)
  <1> DEFINE G == E \o F
  <1>1. E \in Seq(Nodes \X Nodes) /\ F \in Seq(Nodes \X Nodes)
    BY DEF EdgesOk
  <1>2. G \in Seq(Nodes \X Nodes) /\ In(G) = In(E) \cup In(F)
    BY <1>1, Joint
  <1> HIDE DEF G
  <1>3. ASSUME NEW e \in DOMAIN G
        PROVE  Joins(G[e][1], G[e][2]) /\ {G[e][1], G[e][2]} \subseteq In(Ta_)
    <2>1. G[e] \in In(E) \cup In(F)
      BY <1>2, <1>3 DEF In
    <2>2. CASE G[e] \in In(E)
      <3>1. PICK d \in DOMAIN E : G[e] = E[d]
        BY <2>2 DEF In
      <3> QED BY <3>1 DEF EdgesOk
    <2>3. CASE G[e] \in In(F)
      <3>1. PICK d \in DOMAIN F : G[e] = F[d]
        BY <2>3 DEF In
      <3> QED BY <3>1 DEF EdgesOk
    <2> QED BY <2>1, <2>2, <2>3
  <1>4. EdgesOk(G)
    BY <1>2, <1>3 DEF EdgesOk
  <1> QED BY <1>4 DEF G

LEMMA ConnectionOk ==
  ASSUME TypeOK, NEW a \in In(Ta_), NEW b \in In(Ta_)
  PROVE  EdgesOk(NearConnection(a, b))
  <1>1. a \in Nodes /\ b \in Nodes
    BY Numbered DEF TypeOK
  <1>2. EdgesOk(<<>>)
    BY EmptySeq DEF EdgesOk
  <1>3. ASSUME NEW c \in In(Ta_), NEW d \in In(Ta_), Joins(c, d)
        PROVE  EdgesOk(<<<<c, d>>>>)
    <2>1. c \in Nodes /\ d \in Nodes
      BY Numbered DEF TypeOK
    <2> DEFINE e == <<c, d>>
    <2>2. e \in Nodes \X Nodes /\ e[1] = c /\ e[2] = d
      BY <2>1
    <2> HIDE DEF e
    <2>3. <<e>> \in Seq(Nodes \X Nodes) /\ DOMAIN <<e>> = {1} /\ <<e>>[1] = e
      BY <2>2
    <2>4. EdgesOk(<<e>>)
      BY <1>3, <2>2, <2>3 DEF EdgesOk
    <2> QED BY <2>4 DEF e
  <1>4. IsReversible /\ Joins(a, b) => Joins(b, a)
    <2>1. ASSUME IsReversible, <<pos[a], pos[b]>> \in Reachable
          PROVE  <<pos[b], pos[a]>> \in Reachable
      BY <2>1, Ways
    <2> QED BY <2>1 DEF Joins
  <1>5. <<<<a, b>>, <<b, a>>>> = <<<<a, b>>>> \o <<<<b, a>>>>
    OBVIOUS
  <1>6. EdgesOk(Connection(a, b))
    <2>1. CASE IsReversible
      <3>1. Connection(a, b) = IF Joins(a, b) THEN <<<<a, b>>, <<b, a>>>> ELSE <<>>
        BY <2>1 DEF Connection
      <3>2. CASE Joins(a, b)
        <4>1. EdgesOk(<<<<a, b>>>>) /\ EdgesOk(<<<<b, a>>>>)
          BY <1>3, <1>4, <2>1, <3>2
        <4>2. EdgesOk(<<<<a, b>>>> \o <<<<b, a>>>>)
          BY <4>1, EdgesJoined
        <4>3. Connection(a, b) = <<<<a, b>>>> \o <<<<b, a>>>>
          BY <1>5, <3>1, <3>2
        <4> QED BY <4>2, <4>3
      <3> QED BY <1>2, <3>1, <3>2
    <2>2. CASE ~IsReversible
      <3> DEFINE E == IF Joins(a, b) THEN <<<<a, b>>>> ELSE <<>>
                 F == IF Joins(b, a) THEN <<<<b, a>>>> ELSE <<>>
      <3>1. Connection(a, b) = E \o F
        BY <2>2 DEF Connection
      <3>2. EdgesOk(E) /\ EdgesOk(F)
        <4>1. CASE Joins(a, b) /\ Joins(b, a)
          BY <1>3, <4>1
        <4>2. CASE Joins(a, b) /\ ~Joins(b, a)
          BY <1>2, <1>3, <4>2
        <4>3. CASE ~Joins(a, b) /\ Joins(b, a)
          BY <1>2, <1>3, <4>3
        <4>4. CASE ~Joins(a, b) /\ ~Joins(b, a)
          BY <1>2, <4>4
        <4> QED BY <4>1, <4>2, <4>3, <4>4
      <3> HIDE DEF E, F
      <3> QED BY <3>1, <3>2, EdgesJoined
    <2> QED BY <2>1, <2>2
  <1> QED BY <1>2, <1>6 DEF NearConnection

\* A step that adds edges to the roadmap, and changes no node.
LEMMA MoreEdges ==
  ASSUME TypeOK, EdgesOk(edges'), Tb_ = <<>>, pos' = pos, Ta_' = Ta_, Tb_' = Tb_
  PROVE  edges' \in Seq(Nodes' \X Nodes') /\ Edges' /\ Grown
  <1>1. In(Tb_') = {} /\ Nodes' = Nodes
    BY DEF In, Nodes
  <1>2. \A e \in DOMAIN edges' : /\ <<pos'[edges'[e][1]], pos'[edges'[e][2]]>> \in Reachable
                                 /\ {edges'[e][1], edges'[e][2]} \subseteq In(Ta_')
    BY DEF EdgesOk, Joins
  <1>3. Edges'
    BY <1>1, <1>2 DEF Edges, Joins, In
  <1> QED BY <1>1, <1>3 DEF EdgesOk, Grown, TypeOK

LEMMA OneNode ==
  ASSUME NEW x \in Nat
  PROVE  <<x>> \in Seq(Nat) /\ In(<<x>>) = {x}
  <1>1. DOMAIN <<x>> = {1} /\ <<x>>[1] = x
    OBVIOUS
  <1> QED BY <1>1 DEF In

LEMMA PlannedBuild ==
  ASSUME Planned, NEW q \in Config, Build(q) PROVE Planned'
  <1> USE DEF Planned
  <1> DEFINE s == Len(pos) + 1
  <1>1. /\ at = "build" /\ at' = "build" /\ q \in Free /\ pos' = Append(pos, q) /\ edges' = edges
        /\ Ta_' = Append(Ta_, s) /\ Tb_' = Tb_ /\ Kept
        /\ UNCHANGED <<stack, visited, path, i, j, isTaStart, qNew, key, node, startNode, goalNode>>
        /\ UNCHANGED result
    BY DEF Build, ends, search, dfs, opt, Kept
  <1>2. Tb_ = <<>> /\ ~IsRRT /\ ~result /\ Len(pos) \in Nat
    BY <1>1, EdgeEnds DEF Phase, Searches, Runs
  <1>3. /\ pos' = pos \o <<q>> /\ Ta_' = Ta_ \o <<s>> /\ Tb_' = Tb_ \o <<>>
        /\ <<q>> \in Seq(Config) /\ Len(<<q>>) = 1 /\ Ta_' # <<>>
    <2>1. Ta_ \in Seq(Nat)
      <3>1. \A k \in 1 .. Len(Ta_) : Ta_[k] \in Nat
        BY Numbered, <1>2 DEF Nodes, TypeOK
      <3> QED BY <3>1, Retyped DEF TypeOK
    <2>2. Append(Ta_, s) = Ta_ \o <<s>> /\ Append(Ta_, s) # <<>>
      BY <1>2, <2>1, AppendIsConcat, AppendProperties
    <2>3. Append(pos, q) = pos \o <<q>>
      BY AppendIsConcat DEF TypeOK
    <2>4. Tb_ \o <<>> = Tb_
      BY ConcatEmptySeq DEF TypeOK
    <2> QED BY <1>1, <2>2, <2>3, <2>4
  <1>4. <<s>> \in Seq(Nat) /\ In(<<s>>) = {s} /\ <<>> \in Seq(Nat) /\ In(<<>>) = {}
    <2>1. In(<<>>) = {}
      BY DEF In
    <2> QED BY <1>2, <2>1, OneNode, EmptySeq
  <1>5. /\ Grown /\ edges' \in Seq(Nodes' \X Nodes') /\ Ta_' \in Seq(Nodes') /\ Tb_' \in Seq(Nodes')
        /\ Edges'
    <2>1. In(<<s>>) \cup In(<<>>) \subseteq Len(pos) + 1 .. Len(pos) + Len(<<q>>)
      BY <1>2, <1>3, <1>4
    <2>2. In(<<s>>) \cap In(<<>>) = {}
      BY <1>4
    <2> HIDE DEF s
    <2> QED BY <1>1, <1>3, <1>4, <2>1, <2>2, NewNodes
  <1>6. TypeOK'
    <2>1. {startNode', goalNode', node'} \subseteq Nodes' \cup {NoNode}
      BY <1>1, <1>5 DEF TypeOK, Grown
    <2>2. isTaStart' \in BOOLEAN /\ result' \in BOOLEAN /\ key' \in BOOLEAN
      BY <1>1, Zenon DEF TypeOK
    <2> QED BY <1>1, <1>5, <2>1, <2>2, TypeGrown DEF TypeOK, Places
  <1>7. Paths'
    BY <1>1, PathsKept
  <1>8. Phase'
    BY <1>1, <1>2, <1>3 DEF Phase, Searches, IsRRT, Kept, Runs
  <1>9. Rooted' /\ Meets' /\ Traced' /\ OnRoadmap'
    BY <1>1 DEF Rooted, Meets, Traced, OnRoadmap, Searches
  <1> QED BY <1>5, <1>6, <1>7, <1>8, <1>9

\* Steps of PRM that change the counters and add edges.
LEMMA PlannedLinking ==
  ASSUME Planned, at \in {"build", "link", "attach"},
         pos' = pos, Ta_' = Ta_, Tb_' = Tb_, EdgesOk(edges'), Kept,
         UNCHANGED <<path, isTaStart, qNew, key, startNode, goalNode, node, result>>,
         UNCHANGED <<stack, visited>>,
         i' \in Nat, j' \in Nat, at' \in {"link", "ends", "attach"}, OnRoadmap'
  PROVE  Planned'
  <1> USE DEF Planned
  <1>1. Tb_ = <<>> /\ ~IsRRT /\ ~result
    BY DEF Phase, Searches, Runs
  <1>2. edges' \in Seq(Nodes' \X Nodes') /\ Edges' /\ Grown
    BY <1>1, MoreEdges
  <1>3. TypeOK'
    <2>1. isTaStart' \in BOOLEAN /\ result' \in BOOLEAN /\ key' \in BOOLEAN
      BY Zenon DEF TypeOK
    <2> QED BY <1>2, <2>1, TypeGrown DEF TypeOK, Places, Nodes
  <1>4. Paths'
    BY PathsKept
  <1>5. Phase'
    BY <1>1 DEF Phase, Searches, IsRRT, Kept, Runs
  <1>6. Rooted' /\ Meets' /\ Traced'
    BY DEF Rooted, Meets, Traced, Searches
  <1> QED BY <1>2, <1>3, <1>4, <1>5, <1>6

LEMMA PlannedBuildDone ==
  ASSUME Planned, BuildDone PROVE Planned'
  <1> USE DEF Planned
  <1>1. /\ at = "build" /\ at' \in {"link", "ends"} /\ i' = 0 /\ j' = Len(Ta_) + 1
        /\ pos' = pos /\ Ta_' = Ta_ /\ Tb_' = Tb_ /\ edges' = edges /\ Kept
        /\ UNCHANGED <<path, isTaStart, qNew, key, startNode, goalNode, node, result>>
        /\ UNCHANGED <<stack, visited>>
    BY DEF BuildDone, graph, ends, dfs, opt, Kept
  <1>2. Len(Ta_) \in Nat
    BY Numbered DEF TypeOK
  <1>3. EdgesOk(edges')
    <2>1. EdgesOk(edges)
      BY <1>1, RoadmapEdges DEF Phase, Searches, Runs
    <2> QED BY <1>1, <2>1
  <1>4. OnRoadmap'
    BY <1>1, <1>2 DEF OnRoadmap
  <1> QED BY <1>1, <1>2, <1>3, <1>4, PlannedLinking

LEMMA PlannedLink ==
  ASSUME Planned, Link PROVE Planned'
  <1> USE DEF Planned
  <1>1. /\ at = "link" /\ pos' = pos /\ Ta_' = Ta_ /\ Tb_' = Tb_ /\ Kept
        /\ UNCHANGED <<path, isTaStart, qNew, key, startNode, goalNode, node, result>>
        /\ UNCHANGED <<stack, visited>>
    BY DEF Link, ends, dfs, opt, Kept
  <1>2. Len(Ta_) \in Nat /\ i \in Nat /\ j \in Nat
    BY Numbered DEF TypeOK
  <1>3. i <= Len(Ta_) /\ j >= 1 /\ (j <= Len(Ta_) => i >= 1)
    BY <1>1 DEF OnRoadmap
  <1>4. EdgesOk(edges)
    BY <1>1, RoadmapEdges DEF Phase, Searches, Runs
  <1>5. CASE j <= Len(Ta_)
    <2>1. /\ edges' = edges \o NearConnection(Ta_[i], Ta_[j]) /\ j' = j + 1 /\ i' = i /\ at' = "link"
      BY <1>1, <1>2, <1>5 DEF Link
    <2>2. Ta_[i] \in In(Ta_) /\ Ta_[j] \in In(Ta_)
      <3>1. Ta_ \in Seq(Nodes)
        BY DEF TypeOK
      <3>2. DOMAIN Ta_ = 1 .. Len(Ta_)
        BY <3>1, Numbered
      <3>3. i \in DOMAIN Ta_ /\ j \in DOMAIN Ta_
        BY <1>2, <1>3, <1>5, <3>2
      <3> QED BY <3>3 DEF In
    <2>3. EdgesOk(edges \o NearConnection(Ta_[i], Ta_[j]))
      BY <1>4, <2>2, ConnectionOk, EdgesJoined
    <2>4. OnRoadmap'
      BY <1>1, <1>2, <1>3, <1>5, <2>1 DEF OnRoadmap
    <2> QED BY <1>1, <1>2, <2>1, <2>3, <2>4, PlannedLinking
  <1>6. CASE j > Len(Ta_)
    <2>1. /\ edges' = edges
          /\ \/ i < Len(Ta_) /\ i' = i + 1 /\ j' = i + 2 /\ at' = "link"
             \/ i' = i /\ j' = j /\ at' = "ends"
      BY <1>1, <1>2, <1>6 DEF Link
    <2>2. EdgesOk(edges')
      BY <1>4, <2>1
    <2>3. OnRoadmap'
      BY <1>1, <1>2, <1>3, <2>1 DEF OnRoadmap
    <2>4. i' \in Nat /\ j' \in Nat /\ at' \in {"link", "ends", "attach"}
      BY <1>2, <2>1
    <2> QED BY <1>1, <2>2, <2>3, <2>4, PlannedLinking
  <1> QED BY <1>2, <1>5, <1>6

LEMMA PlannedAddEnds ==
  ASSUME Planned, AddEnds PROVE Planned'
  <1> USE DEF Planned
  <1> DEFINE u == <<start_, goal_>>
             s == Len(pos) + 1
             g == Len(pos) + 2
             a == <<s, g>>
  <1>1. /\ at = "ends" /\ at' = "attach" /\ pos' = pos \o u /\ edges' = edges /\ i' = 1
        /\ Ta_' = Ta_ \o a /\ Tb_' = Tb_ /\ startNode' = s /\ goalNode' = g
        /\ Kept /\ UNCHANGED <<stack, visited, path, j, isTaStart, qNew, key, node, result>>
    BY DEF AddEnds, ends, dfs, opt, Kept
  <1>2. /\ Tb_ = <<>> /\ ~IsRRT /\ ~result /\ Len(pos) \in Nat
    BY <1>1, EdgeEnds DEF Phase, Searches, Runs
  <1>3. u \in Seq(Config) /\ Len(u) = 2 /\ u[1] = start_ /\ u[2] = goal_
    BY DEF TypeOK
  <1>4. /\ a \in Seq(Nat) /\ In(a) = {s, g} /\ Len(a) = 2
        /\ <<>> \in Seq(Nat) /\ In(<<>>) = {} /\ Tb_' = Tb_ \o <<>>
    <2>1. s \in Nat /\ g \in Nat
      BY <1>2
    <2>2. In(<<>>) = {}
      BY DEF In
    <2>3. Tb_ \o <<>> = Tb_
      BY ConcatEmptySeq DEF TypeOK
    <2> HIDE DEF s, g
    <2> QED BY <1>1, <2>1, <2>2, <2>3, Pair, EmptySeq
  <1> HIDE DEF u, a
  <1>5. /\ Grown /\ Len(pos') = Len(pos) + 2
        /\ pos'[s] = start_ /\ pos'[g] = goal_
        /\ edges' \in Seq(Nodes' \X Nodes') /\ Ta_' \in Seq(Nodes') /\ Tb_' \in Seq(Nodes')
        /\ Edges' /\ In(Ta_') = In(Ta_) \cup {s, g}
    <2>1. /\ In(a) \cup In(<<>>) \subseteq Len(pos) + 1 .. Len(pos) + Len(u)
          /\ In(a) \cap In(<<>>) = {}
      BY <1>2, <1>3, <1>4
    <2> HIDE DEF s, g
    <2>2. /\ Grown /\ Len(pos') = Len(pos) + Len(u)
          /\ \A k \in 1 .. Len(u) : pos'[Len(pos) + k] = u[k]
          /\ edges' \in Seq(Nodes' \X Nodes') /\ Ta_' \in Seq(Nodes') /\ Tb_' \in Seq(Nodes')
          /\ Edges' /\ In(Ta_') = In(Ta_) \cup In(a)
      BY <1>1, <1>3, <1>4, <2>1, NewNodes
    <2>3. pos'[s] = start_ /\ pos'[g] = goal_
      BY <1>3, <2>2 DEF s, g
    <2> QED BY <1>3, <1>4, <2>2, <2>3
  <1>6. TypeOK'
    <2>1. {startNode', goalNode', node'} \subseteq Nodes' \cup {NoNode}
      BY <1>1, <1>2, <1>5 DEF TypeOK, Grown, Nodes
    <2>2. isTaStart' \in BOOLEAN /\ result' \in BOOLEAN /\ key' \in BOOLEAN
      BY <1>1, Zenon DEF TypeOK
    <2> QED BY <1>1, <1>5, <2>1, <2>2, TypeGrown DEF TypeOK, Places
  <1>7. Paths'
    BY <1>1, PathsKept
  <1>8. Phase'
    BY <1>1, <1>2 DEF Phase, Searches, IsRRT, Kept, Runs
  <1>9. OnRoadmap'
    <2>1. {startNode', goalNode'} \subseteq In(Ta_')
      <3>1. startNode' = s /\ goalNode' = g /\ In(Ta_') = In(Ta_) \cup {s, g}
        BY <1>1, <1>5
      <3> QED BY <3>1
    <2>2. pos'[startNode'] = start_' /\ pos'[goalNode'] = goal_'
      BY <1>1, <1>5 DEF Kept
    <2>3. at' = "attach" /\ i' >= 1
      BY <1>1
    <2> QED BY <2>1, <2>2, <2>3, Zenon DEF OnRoadmap
  <1>10. Rooted' /\ Meets' /\ Traced'
    BY <1>1 DEF Rooted, Meets, Traced, Searches
  <1> QED BY <1>5, <1>6, <1>7, <1>8, <1>9, <1>10

LEMMA PlannedAttach ==
  ASSUME Planned, Attach PROVE Planned'
  <1> USE DEF Planned
  <1>1. /\ at = "attach" /\ pos' = pos /\ Ta_' = Ta_ /\ Tb_' = Tb_ /\ Kept
        /\ UNCHANGED <<path, j, isTaStart, qNew, key, startNode, goalNode, node, result>>
    BY DEF Attach, ends, opt, Kept
  <1>2. /\ Len(Ta_) \in Nat /\ i \in Nat /\ i >= 1 /\ startNode \in In(Ta_) /\ goalNode \in In(Ta_)
        /\ pos[startNode] = start_ /\ pos[goalNode] = goal_
    BY <1>1, Numbered DEF TypeOK, OnRoadmap
  <1>3. EdgesOk(edges)
    BY <1>1, RoadmapEdges DEF Phase, Searches, Runs
  <1>4. CASE i <= Len(Ta_)
    <2> DEFINE E == NearConnection(startNode, Ta_[i])
               F == NearConnection(goalNode, Ta_[i])
    <2>1. /\ edges' = (edges \o E) \o F /\ i' = i + 1 /\ at' = "attach"
          /\ UNCHANGED <<stack, visited>>
      BY <1>1, <1>4 DEF Attach, dfs
    <2>2. Ta_[i] \in In(Ta_)
      BY <1>2, <1>4, Numbered DEF In, TypeOK
    <2>3. EdgesOk(E) /\ EdgesOk(F)
      BY <1>2, <2>2, ConnectionOk
    <2> HIDE DEF E, F
    <2>4. EdgesOk(edges \o E)
      BY <1>3, <2>3, EdgesJoined
    <2>5. EdgesOk((edges \o E) \o F)
      BY <2>3, <2>4, EdgesJoined
    <2>6. EdgesOk(edges')
      BY <2>1, <2>5
    <2>7. OnRoadmap'
      BY <1>1, <1>2, <2>1 DEF OnRoadmap, In, Kept
    <2>8. i' \in Nat /\ j' \in Nat
      BY <1>1, <1>2, <2>1 DEF TypeOK
    <2> QED BY <1>1, <2>1, <2>6, <2>7, <2>8, PlannedLinking
  <1>5. CASE i > Len(Ta_)
    <2>1. /\ at' = "dfs" /\ stack' = <<startNode>> /\ visited' = {startNode}
          /\ edges' = edges /\ i' = i
      BY <1>1, <1>2, <1>5 DEF Attach
    <2>2. startNode \in Nodes
      BY <1>2, Numbered DEF TypeOK
    <2>3. /\ <<startNode>> \in Seq(Nodes) /\ Len(<<startNode>>) = 1
          /\ <<startNode>>[1] = startNode
      BY <2>2
    <2>4. TypeOK'
      <3>1. isTaStart' \in BOOLEAN /\ result' \in BOOLEAN /\ isRunning_' \in BOOLEAN
            /\ fresh' \in BOOLEAN /\ key' \in BOOLEAN /\ cancelled' \in BOOLEAN
        BY <1>1, Zenon DEF TypeOK, Kept
      <3>2. stack' \in Seq(Nodes) /\ visited' \subseteq Nodes /\ at' \in Places
        BY <2>1, <2>2, <2>3 DEF Places
      <3> QED BY <1>1, <2>1, <3>1, <3>2 DEF TypeOK, Nodes, Places, Kept
    <2>5. Edges'
      BY <1>1, <2>1, SameGraph
    <2>6. Phase'
      BY <1>1, <2>1 DEF Phase, Searches, IsRRT, Kept, Runs
    <2>7. Paths'
      BY <1>1, <2>1, PathsKept
    <2>8. OnRoadmap'
      <3>1. \A k \in 1 .. Len(stack') - 1 : FALSE
        BY <2>1, <2>3
      <3>2. {startNode', goalNode'} \subseteq In(Ta_') /\ pos'[startNode'] = start_'
            /\ pos'[goalNode'] = goal_'
        BY <1>1, <1>2 DEF Kept
      <3>3. stack'[1] = startNode'
        BY <1>1, <2>1, <2>3
      <3> QED BY <2>1, <3>1, <3>2, <3>3 DEF OnRoadmap, In
    <2>9. Rooted' /\ Meets' /\ Traced'
      BY <2>1 DEF Rooted, Meets, Traced, Searches
    <2> QED BY <2>4, <2>5, <2>6, <2>7, <2>8, <2>9
  <1> QED BY <1>2, <1>4, <1>5

\* Three facts about numbers, for the ends of stacks and paths.
LEMMA OneLess ==
  ASSUME NEW n \in Nat, n >= 1, NEW m, m = IF 1 <= n - 1 THEN (n - 1) - 1 + 1 ELSE 0
  PROVE  m = n - 1
  <1>1. CASE n = 1
    BY <1>1
  <1>2. CASE n # 1
    <2>1. 1 <= n - 1
      BY <1>2
    <2> QED BY <2>1
  <1> QED BY <1>1, <1>2

LEMMA NotLast ==
  ASSUME NEW n \in Nat, NEW k \in 1 .. (n + 1) - 1, k # n
  PROVE  k \in 1 .. n - 1 /\ k \in 1 .. n /\ k + 1 \in 1 .. n
  OBVIOUS

LEMMA InSecond ==
  ASSUME NEW n \in Nat, NEW l \in Nat, NEW k \in 1 .. (n + l) - 1, k > n
  PROVE  \E m \in 1 .. l - 1 : k = n + m
  <1>1. k - n \in 1 .. l - 1 /\ k = n + (k - n)
    OBVIOUS
  <1> QED BY <1>1

LEMMA PlannedDFS ==
  ASSUME Planned, DFS PROVE Planned'
  <1> USE DEF Planned
  <1>1. /\ at = "dfs" /\ pos' = pos /\ edges' = edges /\ Ta_' = Ta_ /\ Tb_' = Tb_
        /\ algorithm_' = algorithm_ /\ start_' = start_
        /\ goal_' = goal_ /\ fresh' = fresh /\ calls' = calls /\ isRunning_' = isRunning_
        /\ i' = i /\ j' = j /\ isTaStart' = isTaStart /\ qNew' = qNew /\ node' = node
        /\ startNode' = startNode /\ goalNode' = goalNode /\ index' = index
        /\ optimized' = optimized
        /\ key' = key /\ cancelled' = cancelled /\ pieces' = pieces
    BY DEF DFS, graph, ends, search, opt
  <1>2. /\ Tb_ = <<>> /\ ~IsRRT /\ ~result
    BY <1>1 DEF Phase, Searches, Runs
  <1>3. /\ pos[startNode] = start_ /\ pos[goalNode] = goal_
        /\ {startNode, goalNode} \subseteq In(Ta_)
        /\ \A k \in 1 .. Len(stack) - 1 : Joins(stack[k], stack[k + 1])
        /\ stack # <<>> => stack[1] = startNode
    BY <1>1 DEF OnRoadmap
  <1>4. /\ stack \in Seq(Nodes) /\ Len(stack) \in Nat /\ DOMAIN stack = 1 .. Len(stack)
        /\ \A k \in 1 .. Len(stack) : stack[k] \in Nodes
        /\ stack # <<>> => Len(stack) >= 1
    BY Numbered DEF TypeOK
  <1>5. Edges'
    BY <1>1, SameGraph
  <1>6. isTaStart' \in BOOLEAN /\ isRunning_' \in BOOLEAN /\ fresh' \in BOOLEAN
        /\ key' \in BOOLEAN /\ cancelled' \in BOOLEAN
    BY <1>1, Zenon DEF TypeOK
  <1>7. CASE stack = <<>>
    <2>1. path' = path /\ stack' = stack /\ visited' = visited /\ at' = "idle" /\ ~result'
          /\ result' \in BOOLEAN /\ path_' = path_
      BY <1>7 DEF DFS, dfs, Return
    <2>2. TypeOK'
      BY <1>1, <1>6, <2>1 DEF TypeOK, Nodes
    <2>3. Paths'
      <3>1. Usable' = Usable
        BY <1>1 DEF Usable
      <3> QED BY <1>1, <2>1, <3>1 DEF Paths, Good, IsRRT
    <2>4. Phase' /\ Rooted' /\ Meets' /\ Traced' /\ OnRoadmap'
      BY <1>1, <1>2, <2>1 DEF Phase, Rooted, Meets, Traced, OnRoadmap, Searches, Runs
    <2> QED BY <1>5, <2>2, <2>3, <2>4
  <1>8. CASE stack # <<>> /\ stack[Len(stack)] = goalNode
    <2> DEFINE p == [k \in DOMAIN stack |-> pos[stack[k]]]
    <2>1. path' = p /\ stack' = stack /\ visited' = visited /\ at' = "idle" /\ result'
          /\ result' \in BOOLEAN /\ path_' = p
      BY <1>8 DEF DFS, dfs, Return
    <2>2. p \in Seq(Config) /\ Len(p) = Len(stack)
      <3>1. \A k \in 1 .. Len(stack) : pos[stack[k]] \in Config
        BY <1>4, EdgeEnds
      <3>2. p \in [1 .. Len(stack) -> Config]
        BY <1>4, <3>1
      <3> HIDE DEF p
      <3>3. p \in Seq(Config)
        BY <1>4, <3>2, SeqDef
      <3>4. DOMAIN p = 1 .. Len(stack) /\ DOMAIN p = 1 .. Len(p) /\ Len(p) \in Nat
        BY <3>2, <3>3, LenProperties
      <3>5. Len(p) = Len(stack)
        BY <1>4, <3>4
      <3> QED BY <3>3, <3>5
    <2>3. \A k \in 1 .. Len(stack) : p[k] = pos[stack[k]]
      BY <1>4
    <2> HIDE DEF p
    <2>4. p # <<>> /\ LastOf(p) = goal_ /\ p[1] = start_
      <3>1. p # <<>>
        BY <1>4, <1>8, <2>2, EmptySeq
      <3>2. 1 \in 1 .. Len(stack) /\ Len(stack) \in 1 .. Len(stack)
        BY <1>4, <1>8
      <3> QED BY <1>3, <1>8, <2>2, <2>3, <3>1, <3>2 DEF LastOf
    <2>5. Connected(p)
      <3>1. ASSUME NEW k \in 1 .. Len(p) - 1 PROVE <<p[k], p[k + 1]>> \in Reachable
        <4>1. k \in 1 .. Len(stack) - 1 /\ k \in 1 .. Len(stack) /\ k + 1 \in 1 .. Len(stack)
          BY <1>4, <2>2
        <4> QED BY <1>3, <2>3, <4>1 DEF Joins
      <3> QED BY <3>1 DEF Connected
    <2>6. TypeOK'
      BY <1>1, <1>6, <2>1, <2>2 DEF TypeOK, Nodes
    <2>7. Paths'
      <3>1. goal_ \in Free
        BY <1>1 DEF Phase, Runs
      <3>2. By(p, Usable)
        BY <2>2, <2>4, <2>5, <3>1, PathFree DEF Usable
      <3>3. Usable' = Usable
        BY <1>1 DEF Usable
      <3> QED BY <1>1, <2>1, <2>4, <3>2, <3>3 DEF Paths, Good, IsRRT
    <2>8. Phase' /\ Rooted' /\ Meets' /\ Traced' /\ OnRoadmap'
      BY <1>1, <1>2, <2>1 DEF Phase, Rooted, Meets, Traced, OnRoadmap, Searches, Runs
    <2> QED BY <1>5, <2>6, <2>7, <2>8
  <1>9. CASE stack # <<>> /\ stack[Len(stack)] # goalNode
    <2> DEFINE child == Unvisited(stack[Len(stack)])
    <2>1. /\ path' = path /\ path_' = path_ /\ at' = "dfs" /\ result' = result
          /\ stack' = IF child = NoNode THEN SubSeq(stack, 1, Len(stack) - 1)
                      ELSE Append(stack, child)
          /\ visited' = IF child = NoNode THEN visited ELSE visited \cup {child}
      BY <1>1, <1>9 DEF DFS
    <2> HIDE DEF child
    <2>2. /\ stack' \in Seq(Nodes) /\ visited' \subseteq Nodes
          /\ \A k \in 1 .. Len(stack') - 1 : Joins(stack'[k], stack'[k + 1])
          /\ stack' # <<>> => stack'[1] = startNode
      <3>1. CASE child = NoNode
        <4> DEFINE t == SubSeq(stack, 1, Len(stack) - 1)
        <4>1. /\ t \in Seq(Nodes) /\ Len(t) = Len(stack) - 1
              /\ \A k \in 1 .. Len(stack) - 1 : t[k] = stack[k]
          <5>1. \A k \in 1 .. Len(stack) - 1 : stack[k] \in Nodes
            BY <1>4
          <5>2. /\ t \in Seq(Nodes)
                /\ Len(t) = IF 1 <= Len(stack) - 1 THEN (Len(stack) - 1) - 1 + 1 ELSE 0
                /\ \A k \in 1 .. (Len(stack) - 1) - 1 + 1 : t[k] = stack[1 + k - 1]
            BY <1>4, <5>1, SubSeqProperties
          <5> HIDE DEF t
          <5>3. Len(t) = Len(stack) - 1
            <6>1. Len(stack) \in Nat /\ Len(stack) >= 1
              BY <1>4, <1>9, Numbered
            <6> QED BY <5>2, <6>1, OneLess
          <5>4. ASSUME NEW k \in 1 .. Len(stack) - 1 PROVE t[k] = stack[k]
            <6>1. 1 + k - 1 = k /\ k \in 1 .. (Len(stack) - 1) - 1 + 1
              BY <1>4
            <6> QED BY <5>2, <6>1
          <5> QED BY <5>2, <5>3, <5>4
        <4>2. stack' = t /\ visited' = visited
          BY <2>1, <3>1
        <4> HIDE DEF t
        <4>3. \A k \in 1 .. Len(t) - 1 : Joins(t[k], t[k + 1])
          <5>1. ASSUME NEW k \in 1 .. Len(t) - 1
                PROVE  Joins(t[k], t[k + 1])
            <6>1. k \in 1 .. Len(stack) - 1 /\ k + 1 \in 1 .. Len(stack) - 1
              BY <1>4, <4>1
            <6> QED BY <1>3, <4>1, <6>1
          <5> QED BY <5>1
        <4>4. t # <<>> => t[1] = startNode
          <5>1. t # <<>> => Len(t) >= 1
            BY <4>1, Numbered
          <5> QED BY <1>3, <1>4, <1>9, <4>1, <5>1
        <4> QED BY <4>1, <4>2, <4>3, <4>4 DEF TypeOK
      <3>2. CASE child # NoNode
        <4>1. PICK e \in DOMAIN edges : edges[e] = <<stack[Len(stack)], child>>
          BY <3>2, UnvisitedIs DEF child
        <4>2. child \in Nodes /\ Joins(stack[Len(stack)], child)
          BY <4>1, EdgeEnds DEF Edges
        <4> DEFINE t == Append(stack, child)
        <4>3. /\ t \in Seq(Nodes) /\ Len(t) = Len(stack) + 1
              /\ \A k \in 1 .. Len(stack) : t[k] = stack[k]
              /\ t[Len(stack) + 1] = child
          BY <1>4, <4>2, Longer
        <4>4. stack' = t /\ visited' = visited \cup {child}
          BY <2>1, <3>2
        <4> HIDE DEF t
        <4>5. \A k \in 1 .. Len(t) - 1 : Joins(t[k], t[k + 1])
          <5>1. ASSUME NEW k \in 1 .. Len(t) - 1
                PROVE  Joins(t[k], t[k + 1])
            <6>1. CASE k = Len(stack)
              <7>1. k \in 1 .. Len(stack)
                BY <1>4, <1>9, <6>1
              <7>2. t[k] = stack[k]
                BY <4>3, <7>1
              <7>3. k + 1 = Len(stack) + 1
                BY <6>1
              <7>4. t[k + 1] = child
                BY <4>3, <7>3
              <7> QED BY <4>2, <6>1, <7>2, <7>4
            <6>2. CASE k # Len(stack)
              <7>1. k \in 1 .. Len(stack) - 1 /\ k \in 1 .. Len(stack) /\ k + 1 \in 1 .. Len(stack)
                <8>1. k \in 1 .. (Len(stack) + 1) - 1
                  BY <4>3
                <8> QED BY <1>4, <6>2, <8>1, NotLast
              <7> QED BY <1>3, <4>3, <7>1
            <6> QED BY <6>1, <6>2
          <5> QED BY <5>1
        <4>6. t[1] = startNode
          BY <1>3, <1>4, <1>9, <4>3
        <4> QED BY <4>2, <4>3, <4>4, <4>5, <4>6 DEF TypeOK
      <3> QED BY <3>1, <3>2
    <2>3. TypeOK'
      <3>1. result' \in BOOLEAN
        BY <2>1, Zenon DEF TypeOK
      <3> QED BY <1>1, <1>6, <2>1, <2>2, <3>1 DEF TypeOK, Nodes
    <2>4. OnRoadmap'
      <3>1. \A k \in 1 .. Len(stack') - 1 : <<pos'[stack'[k]], pos'[stack'[k + 1]]>> \in Reachable
        BY <1>1, <2>2 DEF Joins
      <3>2. {startNode', goalNode'} \subseteq In(Ta_') /\ pos'[startNode'] = start_'
            /\ pos'[goalNode'] = goal_' /\ (stack' # <<>> => stack'[1] = startNode')
        BY <1>1, <1>3, <2>2
      <3> QED BY <2>1, <3>1, <3>2 DEF OnRoadmap, In, Joins
    <2>5. Paths'
      BY <1>1, <2>1, PathsKept DEF Kept
    <2>6. Phase' /\ Rooted' /\ Meets' /\ Traced'
      BY <1>1, <1>2, <2>1 DEF Phase, Rooted, Meets, Traced, Searches, IsRRT, Runs
    <2> QED BY <1>5, <2>3, <2>4, <2>5, <2>6
  <1> QED BY <1>7, <1>8, <1>9

-----------------------------------------------------------------------------
(* The optimizers.                                                         *)

LEMMA PathJoin ==
  ASSUME NEW W, NEW p \in Seq(Config), NEW r \in Seq(Config), p # <<>>, r # <<>>,
         By(p, W), By(r, W), <<LastOf(p), r[1]>> \in W
  PROVE  /\ p \o r \in Seq(Config) /\ p \o r # <<>> /\ By(p \o r, W)
         /\ (p \o r)[1] = p[1] /\ LastOf(p \o r) = LastOf(r)
         /\ Len(p \o r) = Len(p) + Len(r)
  <1> DEFINE t == p \o r
  <1>1. /\ t \in Seq(Config) /\ Len(t) = Len(p) + Len(r)
        /\ \A k \in 1 .. Len(p) : t[k] = p[k]
        /\ \A k \in 1 .. Len(r) : t[Len(p) + k] = r[k]
    BY Joint
  <1>2. Len(p) \in Nat /\ Len(p) >= 1 /\ Len(r) \in Nat /\ Len(r) >= 1
    BY Numbered
  <1> HIDE DEF t
  <1>3. t # <<>> /\ t[1] = p[1] /\ LastOf(t) = LastOf(r)
    BY <1>1, <1>2, EmptySeq DEF LastOf
  <1>4. ASSUME NEW k \in 1 .. Len(t) - 1 PROVE <<t[k], t[k + 1]>> \in W
    <2>1. CASE k < Len(p)
      <3>1. k \in 1 .. Len(p) - 1 /\ k \in 1 .. Len(p) /\ k + 1 \in 1 .. Len(p)
        BY <1>2, <2>1
      <3> QED BY <1>1, <3>1 DEF By
    <2>2. CASE k = Len(p)
      <3>1. k \in 1 .. Len(p) /\ 1 \in 1 .. Len(r)
        BY <1>2, <2>2
      <3>2. t[k] = LastOf(p)
        BY <1>1, <2>2, <3>1 DEF LastOf
      <3>3. k + 1 = Len(p) + 1
        BY <2>2
      <3>4. t[k + 1] = r[1]
        BY <1>1, <3>1, <3>3
      <3> QED BY <3>2, <3>4
    <2>3. CASE k > Len(p)
      <3>1. PICK m \in 1 .. Len(r) - 1 : k = Len(p) + m
        <4>1. k \in 1 .. (Len(p) + Len(r)) - 1
          BY <1>1
        <4> QED BY <1>2, <2>3, <4>1, InSecond
      <3>2. m \in 1 .. Len(r) /\ m + 1 \in 1 .. Len(r) /\ k + 1 = Len(p) + (m + 1)
        BY <1>2, <3>1
      <3>3. t[k] = r[m] /\ t[k + 1] = r[m + 1]
        BY <1>1, <3>1, <3>2
      <3> QED BY <3>1, <3>3 DEF By
    <2> QED BY <1>2, <2>1, <2>2, <2>3
  <1>5. ASSUME NEW k \in 1 .. Len(t) PROVE t[k] \in Free
    <2>1. CASE k <= Len(p)
      <3>1. k \in 1 .. Len(p)
        BY <1>2, <2>1
      <3> QED BY <1>1, <3>1 DEF By
    <2>2. CASE k > Len(p)
      <3>1. PICK m \in 1 .. Len(r) : k = Len(p) + m
        <4>1. k - Len(p) \in 1 .. Len(r) /\ k = Len(p) + (k - Len(p))
          BY <1>1, <1>2, <2>2
        <4> QED BY <4>1
      <3> QED BY <1>1, <3>1 DEF By
    <2> QED BY <1>2, <2>1, <2>2
  <1>6. By(t, W)
    BY <1>4, <1>5 DEF By
  <1> QED BY <1>1, <1>3, <1>6 DEF t

\* A piece of a path.
LEMMA PathPiece ==
  ASSUME NEW W, NEW p \in Seq(Config), By(p, W), NEW m \in 1 .. Len(p), NEW n \in m .. Len(p)
  PROVE  LET t == SubSeq(p, m, n) IN
         /\ t \in Seq(Config) /\ t # <<>> /\ By(t, W) /\ Len(t) = n - m + 1
         /\ t[1] = p[m] /\ LastOf(t) = p[n]
  <1> DEFINE t == SubSeq(p, m, n)
  <1>1. Len(p) \in Nat /\ \A k \in 1 .. Len(p) : p[k] \in Config
    BY Numbered
  <1>2. /\ t \in Seq(Config) /\ Len(t) = IF m <= n THEN n - m + 1 ELSE 0
        /\ \A k \in 1 .. n - m + 1 : t[k] = p[m + k - 1]
    <2>1. m \in Int /\ n \in Int /\ \A k \in m .. n : p[k] \in Config
      BY <1>1
    <2> QED BY <2>1, SubSeqProperties
  <1> HIDE DEF t
  <1>3. Len(t) = n - m + 1 /\ Len(t) >= 1
    BY <1>1, <1>2
  <1>4. t # <<>>
    BY <1>2, <1>3, EmptySeq
  <1>5. t[1] = p[m] /\ LastOf(t) = p[n]
    <2>1. 1 \in 1 .. n - m + 1 /\ n - m + 1 \in 1 .. n - m + 1
          /\ m + 1 - 1 = m /\ m + (n - m + 1) - 1 = n
      BY <1>1
    <2>2. t[1] = p[m + 1 - 1] /\ t[n - m + 1] = p[m + (n - m + 1) - 1]
      BY <1>2, <2>1
    <2> QED BY <1>3, <2>1, <2>2 DEF LastOf
  <1>6. ASSUME NEW k \in 1 .. Len(t) - 1 PROVE <<t[k], t[k + 1]>> \in W
    <2>1. k \in 1 .. n - m + 1 /\ k + 1 \in 1 .. n - m + 1
      BY <1>1, <1>3
    <2>2. PICK l \in 1 .. Len(p) - 1 : l = m + k - 1
      BY <1>1, <1>3
    <2>3. m + (k + 1) - 1 = l + 1
      BY <1>1, <2>2
    <2>4. t[k] = p[l] /\ t[k + 1] = p[l + 1]
      BY <1>2, <2>1, <2>2, <2>3
    <2> QED BY <2>4 DEF By
  <1>7. ASSUME NEW k \in 1 .. Len(t) PROVE t[k] \in Free
    <2>1. k \in 1 .. n - m + 1
      BY <1>1, <1>3
    <2>2. PICK l \in 1 .. Len(p) : l = m + k - 1
      BY <1>1, <1>3
    <2>3. t[k] = p[l]
      BY <1>2, <2>1, <2>2
    <2> QED BY <2>3 DEF By
  <1>8. By(t, W)
    BY <1>6, <1>7 DEF By
  <1> QED BY <1>2, <1>3, <1>4, <1>5, <1>8 DEF t

\* What the optimizers leave as it was.
Unplanned ==
  /\ UNCHANGED <<algorithm_, pos, edges, Ta_, Tb_, start_, goal_, fresh, calls, isRunning_>>
  /\ UNCHANGED <<cancelled, key, path, i, j, isTaStart, qNew, startNode, goalNode, node, stack, visited, result>>

LEMMA PlannedOptimizing ==
  ASSUME Planned, Unplanned, at \in {"idle", "shortcut"}, at' \in {"idle", "shortcut"},
         path_' \in Seq(Config), optimized' \in Seq(Config), index' \in Nat,
         pieces' \subseteq Config \X Config,
         path_' # <<>> => Good(path_', Usable'), path_ # <<>> => path_' # <<>>,
         at = "shortcut" /\ at' = "idle" => path_' # <<>>,
         at' = "shortcut" => Good(optimized', Usable') /\ index' \in 2 .. Len(optimized')
  PROVE  Planned'
  <1> USE DEF Planned, Unplanned
  <1>1. TypeOK'
    <2>1. isTaStart' \in BOOLEAN /\ result' \in BOOLEAN /\ isRunning_' \in BOOLEAN
          /\ fresh' \in BOOLEAN /\ key' \in BOOLEAN /\ cancelled' \in BOOLEAN
      BY Zenon DEF TypeOK
    <2> QED BY <2>1 DEF TypeOK, Nodes
  <1>2. Edges'
    BY SameGraph
  <1>3. Paths'
    BY DEF Paths, Good, IsRRT
  <1>4. Phase' /\ Rooted' /\ Meets' /\ Traced' /\ OnRoadmap'
    BY DEF Phase, Rooted, Meets, Traced, OnRoadmap, Searches, Runs
  <1> QED BY <1>1, <1>2, <1>3, <1>4

LEMMA PlannedOptimize ==
  ASSUME Planned, Optimize PROVE Planned'
  <1>1. /\ at = "idle" /\ at' = "shortcut" /\ optimized' = path_ /\ index' = 2 /\ path_' = path_
        /\ Unplanned /\ Len(path_) >= 3 /\ pieces' = pieces /\ Usable' = Usable
    BY DEF Optimize, graph, ends, search, dfs, Unplanned, Usable
  <1>2. path_ \in Seq(Config) /\ Len(path_) \in Nat /\ (path_ # <<>> => Good(path_, Usable))
        /\ pieces \subseteq Config \X Config
    BY Numbered DEF Planned, TypeOK, Paths
  <1>3. path_ # <<>>
    BY <1>1, <1>2, EmptySeq
  <1>4. index' \in 2 .. Len(optimized') /\ index' \in Nat
    BY <1>1, <1>2
  <1> QED BY <1>1, <1>2, <1>3, <1>4, PlannedOptimizing

LEMMA PlannedShortcut ==
  ASSUME Planned, Shortcut PROVE Planned'
  <1>1. at = "shortcut" /\ Unplanned /\ pieces' = pieces /\ Usable' = Usable
    BY DEF Shortcut, graph, ends, search, dfs, Unplanned, Usable
  <1>2. /\ path_ \in Seq(Config) /\ optimized \in Seq(Config) /\ Len(optimized) \in Nat
        /\ (path_ # <<>> => Good(path_, Usable)) /\ Good(optimized, Usable)
        /\ index \in 2 .. Len(optimized) /\ index \in Nat /\ pieces \subseteq Config \X Config
    BY <1>1, Numbered DEF Planned, TypeOK, Paths
  <1>3. CASE index = Len(optimized)
    <2>1. at' = "idle" /\ path_' = optimized /\ optimized' = optimized /\ index' = index
      BY <1>3 DEF Shortcut, opt
    <2>2. path_' # <<>>
      BY <1>2, <2>1 DEF Good
    <2> QED BY <1>1, <1>2, <2>1, <2>2, PlannedOptimizing
  <1>4. CASE index # Len(optimized) /\ <<optimized[index - 1], optimized[index + 1]>> \in Reachable
    <2> DEFINE p == SubSeq(optimized, 1, index - 1)
               r == SubSeq(optimized, index + 1, Len(optimized))
    <2>1. at' = "shortcut" /\ path_' = path_ /\ index' = index /\ optimized' = p \o r
      BY <1>1, <1>4 DEF Shortcut, Without
    <2>2. /\ 1 \in 1 .. Len(optimized) /\ index - 1 \in 1 .. Len(optimized)
          /\ index + 1 \in 1 .. Len(optimized) /\ Len(optimized) \in index + 1 .. Len(optimized)
      BY <1>2, <1>4
    <2>3. By(optimized, Usable)
      BY <1>2 DEF Good
    <2>4. /\ p \in Seq(Config) /\ p # <<>> /\ By(p, Usable) /\ Len(p) = (index - 1) - 1 + 1
          /\ p[1] = optimized[1] /\ LastOf(p) = optimized[index - 1]
      BY <1>2, <2>2, <2>3, PathPiece
    <2>5. /\ r \in Seq(Config) /\ r # <<>> /\ By(r, Usable)
          /\ Len(r) = Len(optimized) - (index + 1) + 1
          /\ r[1] = optimized[index + 1] /\ LastOf(r) = optimized[Len(optimized)]
      <3> DEFINE k == index + 1
                 n == Len(optimized)
      <3>1. k \in 1 .. n /\ n \in k .. n
        BY <2>2
      <3> HIDE DEF k, n
      <3>2. /\ SubSeq(optimized, k, n) \in Seq(Config) /\ SubSeq(optimized, k, n) # <<>>
            /\ By(SubSeq(optimized, k, n), Usable) /\ Len(SubSeq(optimized, k, n)) = n - k + 1
            /\ SubSeq(optimized, k, n)[1] = optimized[k]
            /\ LastOf(SubSeq(optimized, k, n)) = optimized[n]
        BY <1>2, <2>3, <3>1, PathPiece DEF n
      <3> QED BY <3>2 DEF k, n
    <2> HIDE DEF p, r
    <2>9. <<LastOf(p), r[1]>> \in Usable
      BY <1>4, <2>4, <2>5 DEF Usable
    <2>6. /\ p \o r \in Seq(Config) /\ p \o r # <<>> /\ By(p \o r, Usable)
          /\ (p \o r)[1] = p[1] /\ LastOf(p \o r) = LastOf(r)
          /\ Len(p \o r) = Len(p) + Len(r)
      BY <2>4, <2>5, <2>9, PathJoin
    <2>7. Good(p \o r, Usable)
      <3>1. LastOf(p \o r) = LastOf(optimized) /\ (p \o r)[1] = optimized[1]
        BY <2>4, <2>5, <2>6 DEF LastOf
      <3> QED BY <1>2, <2>6, <3>1 DEF Good
    <2>8. index \in 2 .. Len(p \o r)
      <3>1. ASSUME NEW x \in Nat, x = index, NEW n \in Nat, n = Len(optimized)
            PROVE  Len(p) + Len(r) = n - 1 /\ x >= 2 /\ x <= n - 1
        <4>1. x >= 2 /\ x <= n /\ x # n
          BY <1>2, <1>4, <3>1
        <4>2. Len(p) = (x - 1) - 1 + 1 /\ Len(r) = n - (x + 1) + 1
          BY <2>4, <2>5, <3>1
        <4> QED BY <4>1, <4>2
      <3> QED BY <1>2, <2>6, <3>1
    <2> QED BY <1>1, <1>2, <2>1, <2>6, <2>7, <2>8, PlannedOptimizing
  <1>5. CASE index # Len(optimized) /\ <<optimized[index - 1], optimized[index + 1]>> \notin Reachable
    <2>1. at' = "shortcut" /\ path_' = path_ /\ index' = index + 1 /\ optimized' = optimized
      BY <1>1, <1>5 DEF Shortcut
    <2>2. index' \in 2 .. Len(optimized') /\ index' \in Nat
      <3>1. index < Len(optimized)
        BY <1>2, <1>5
      <3>2. index + 1 \in 2 .. Len(optimized) /\ index + 1 \in Nat
        BY <1>2, <3>1
      <3> QED BY <2>1, <3>2
    <2> QED BY <1>1, <1>2, <2>1, <2>2, PlannedOptimizing
  <1> QED BY <1>3, <1>4, <1>5

LEMMA PlannedRandomShortcut ==
  ASSUME Planned, NEW a \in 1 .. Len(path_) - 1, NEW b \in 1 .. Len(path_) - 1,
         RandomShortcut(a, b)
  PROVE  Planned'
  <1>1. /\ at = "idle" /\ at' = "idle" /\ optimized' = optimized /\ index' = index /\ Unplanned
        /\ a < b
    BY DEF RandomShortcut, graph, ends, search, dfs, opt, Unplanned
  <1>2. PICK c \in Inside[<<path_[a], path_[a + 1]>>], d \in Inside[<<path_[b], path_[b + 1]>>] :
          /\ <<c, d>> \in Reachable
          /\ path_' = SubSeq(path_, 1, a) \o <<c, d>> \o SubSeq(path_, b + 1, Len(path_))
          /\ pieces' = pieces \cup {<<path_[a], c>>, <<d, path_[b + 1]>>}
    BY DEF RandomShortcut
  <1>3. /\ path_ \in Seq(Config) /\ Len(path_) \in Nat /\ optimized \in Seq(Config)
        /\ index \in Nat /\ (path_ # <<>> => Good(path_, Usable))
        /\ pieces \subseteq Config \X Config
        /\ \A k \in 1 .. Len(path_) : path_[k] \in Config
    BY Numbered DEF Planned, TypeOK, Paths
  <1>4. /\ a \in 1 .. Len(path_) /\ b + 1 \in 1 .. Len(path_) /\ 1 \in 1 .. Len(path_)
        /\ a + 1 \in 1 .. Len(path_) /\ b \in 1 .. Len(path_) /\ a \in 1 .. Len(path_)
        /\ Len(path_) \in b + 1 .. Len(path_)
    BY <1>3
  <1>5. Good(path_, Usable)
    BY <1>3, <1>4, EmptySeq
  <1>21. PICK W : W = Usable'
    OBVIOUS
  <1>6. /\ c \in Config /\ d \in Config /\ c \in Free /\ d \in Free
    <2>1. <<c, d>> \in Config \X Config
      BY <1>2 DEF Reachable
    <2>2. <<c, d>> \in Free \X Free
      BY <1>2, Ways
    <2> QED BY <2>1, <2>2
  <1>7. /\ <<path_[a], c>> \in W /\ <<d, path_[b + 1]>> \in W /\ <<c, d>> \in W
        /\ Usable \subseteq W /\ pieces' \subseteq Config \X Config
    <2>1. path_[a] \in Config /\ path_[b + 1] \in Config
      BY <1>3, <1>4
    <2>2. <<path_[a], c>> \in Config \X Config /\ <<d, path_[b + 1]>> \in Config \X Config
      BY <1>6, <2>1
    <2> QED BY <1>2, <1>3, <1>21, <2>2 DEF Usable
  <1>20. By(path_, W)
    BY <1>5, <1>7 DEF Good, By
  <1> DEFINE p == SubSeq(path_, 1, a)
             m == <<c, d>>
             r == SubSeq(path_, b + 1, Len(path_))
  <1>8. /\ p \in Seq(Config) /\ p # <<>> /\ By(p, W)
        /\ p[1] = path_[1] /\ LastOf(p) = path_[a]
    <2>1. By(path_, W) /\ path_ \in Seq(Config) /\ 1 \in 1 .. Len(path_) /\ a \in 1 .. Len(path_)
      BY <1>3, <1>4, <1>20
    <2> QED BY <2>1, PathPiece
  <1>9. /\ r \in Seq(Config) /\ r # <<>> /\ By(r, W)
        /\ r[1] = path_[b + 1] /\ LastOf(r) = path_[Len(path_)]
    <2>1. /\ By(path_, W) /\ path_ \in Seq(Config)
          /\ b + 1 \in 1 .. Len(path_) /\ Len(path_) \in b + 1 .. Len(path_)
      BY <1>3, <1>4, <1>20
    <2> DEFINE lo == b + 1
               hi == Len(path_)
    <2>2. lo \in 1 .. Len(path_) /\ hi \in lo .. Len(path_)
      BY <2>1
    <2> HIDE DEF lo, hi
    <2> DEFINE t == SubSeq(path_, lo, hi)
    <2>3. /\ t \in Seq(Config) /\ t # <<>> /\ By(t, W)
          /\ t[1] = path_[lo] /\ LastOf(t) = path_[hi]
      BY <2>1, <2>2, PathPiece
    <2>4. r = t /\ path_[lo] = path_[b + 1] /\ path_[hi] = path_[Len(path_)]
      BY DEF lo, hi
    <2> HIDE DEF t, r
    <2>5. /\ r \in Seq(Config) /\ r # <<>> /\ By(r, W)
          /\ r[1] = path_[lo] /\ LastOf(r) = path_[hi]
      BY <2>3, <2>4
    <2> QED BY <2>4, <2>5
  <1>10. m \in Seq(Config) /\ m # <<>> /\ By(m, W) /\ m[1] = c /\ LastOf(m) = d
    <2>1. m \in Seq(Config) /\ Len(m) = 2 /\ m[1] = c /\ m[2] = d
      BY <1>6
    <2>2. <<m[1], m[2]>> \in W /\ m[1] \in Free /\ m[2] \in Free
      BY <1>6, <1>7, <2>1
    <2> HIDE DEF m
    <2>3. m # <<>>
      <3>1. Len(m) # 0
        BY <2>1
      <3> QED BY <2>1, <3>1, EmptySeq
    <2>4. ASSUME NEW k \in 1 .. Len(m) - 1
          PROVE  <<m[k], m[k + 1]>> \in W
      <3>1. k \in 1 .. 2 - 1
        BY <2>1
      <3>2. k = 1
        BY <3>1
      <3> QED BY <2>2, <3>2
    <2>5. ASSUME NEW k \in 1 .. Len(m) PROVE m[k] \in Free
      <3>1. k \in 1 .. 2
        BY <2>1
      <3>2. k = 1 \/ k = 2
        BY <3>1
      <3> QED BY <2>2, <3>2
    <2> QED BY <2>1, <2>3, <2>4, <2>5 DEF By, LastOf
  <1>11. path_' = (p \o m) \o r
    BY <1>2
  <1> HIDE DEF p, m, r
  <1>12. /\ p \o m \in Seq(Config) /\ p \o m # <<>> /\ By(p \o m, W)
         /\ (p \o m)[1] = p[1] /\ LastOf(p \o m) = LastOf(m)
    BY <1>7, <1>8, <1>10, PathJoin
  <1> DEFINE s == p \o m
  <1>13. s \in Seq(Config) /\ s # <<>> /\ By(s, W) /\ s[1] = path_[1] /\ LastOf(s) = d
    BY <1>8, <1>10, <1>12
  <1> HIDE DEF s
  <1>14. /\ s \o r \in Seq(Config) /\ s \o r # <<>> /\ By(s \o r, W)
         /\ (s \o r)[1] = path_[1] /\ LastOf(s \o r) = path_[Len(path_)]
    BY <1>7, <1>9, <1>13, PathJoin
  <1>15. path_' = s \o r
    BY <1>11 DEF s
  <1>16. path_' \in Seq(Config) /\ path_' # <<>> /\ Good(path_', W)
    BY <1>5, <1>14, <1>15 DEF Good, LastOf
  <1> QED BY <1>1, <1>3, <1>7, <1>16, <1>21, PlannedOptimizing

-----------------------------------------------------------------------------
LEMMA PlannedKey == ASSUME Planned, Key PROVE Planned'
  <1> USE DEF Planned, Key, graph, ends, dfs, opt
  <1>1. TypeOK'
    <2>1. isTaStart' \in BOOLEAN /\ result' \in BOOLEAN /\ isRunning_' \in BOOLEAN
          /\ fresh' \in BOOLEAN /\ cancelled' \in BOOLEAN /\ key' \in BOOLEAN
      BY Zenon DEF TypeOK
    <2> QED BY <2>1 DEF TypeOK, Nodes
  <1>2. Edges'
    BY SameGraph
  <1>3. Paths' /\ Phase' /\ OnRoadmap'
    BY DEF Paths, Good, Usable, IsRRT, By, LastOf, Phase, OnRoadmap, Searches, Runs, In, Joins
  <1>4. Rooted'
    BY RootedSame DEF Rooted
  <1>5. Meets' /\ Traced'
    BY DEF Meets, Traced, Connected, LastOf, In, Joins
  <1> QED BY <1>1, <1>2, <1>3, <1>4, <1>5

LEMMA PlannedStutter == ASSUME Planned, UNCHANGED vars PROVE Planned'
  <1> USE DEF Planned, vars, graph, ends, search, dfs, opt
  <1>1. TypeOK'
    <2>1. isTaStart' \in BOOLEAN /\ result' \in BOOLEAN /\ isRunning_' \in BOOLEAN
          /\ fresh' \in BOOLEAN /\ cancelled' \in BOOLEAN /\ key' \in BOOLEAN
      BY Zenon DEF TypeOK
    <2> QED BY <2>1 DEF TypeOK, Nodes
  <1>2. Edges'
    BY SameGraph
  <1>3. Paths' /\ Phase' /\ OnRoadmap'
    BY DEF Paths, Good, Usable, IsRRT, By, LastOf, Phase, OnRoadmap, Searches, Runs, In, Joins
  <1>4. Rooted'
    BY RootedSame DEF Rooted
  <1>5. Meets' /\ Traced'
    BY DEF Meets, Traced, Connected, LastOf, In, Joins
  <1> QED BY <1>1, <1>2, <1>3, <1>4, <1>5

\* Nothing but its types is known of a planner whose calls have overlapped.
MaybePlanned == TypeOK /\ (at # "undefined" => Planned)

LEMMA PlannedOverlap ==
  ASSUME TypeOK, Overlap PROVE TypeOK' /\ at' = "undefined"
  <1> USE DEF Overlap, graph, ends, search, dfs, opt
  <1>1. isTaStart' \in BOOLEAN /\ result' \in BOOLEAN /\ isRunning_' \in BOOLEAN
        /\ fresh' \in BOOLEAN /\ cancelled' \in BOOLEAN /\ key' \in BOOLEAN
    BY Zenon DEF TypeOK
  <1> QED BY <1>1 DEF TypeOK, Nodes

LEMMA PlannedNext ==
  ASSUME Planned, [Next]_vars, ~Overlap PROVE Planned'
  <1>1. CASE \E name \in {"RRT", "RRTconnect", "PRM"}, s, g \in Config : Call(name, s, g)
    BY <1>1, PlannedCall
  <1>2. CASE CalcPath
    <2>1. CASE \E q \in Config : Search(q)
      BY <2>1, PlannedSearch
    <2>2. CASE \E q \in Config : Build(q)
      BY <2>2, PlannedBuild
    <2> QED BY <1>2, <2>1, <2>2, PlannedPrepare, PlannedBegin, PlannedConnect, PlannedGiveUp,
               PlannedTraceStart, PlannedTraceGoal, PlannedIntegrate, PlannedBuildDone, PlannedLink,
               PlannedAddEnds, PlannedAttach, PlannedDFS, PlannedShortcut, Zenon DEF CalcPath
  <1>3. CASE Stop
    BY <1>3, PlannedStop
  <1>4. CASE Optimize
    BY <1>4, PlannedOptimize
  <1>5. CASE \E a, b \in 1 .. Len(path_) - 1 : RandomShortcut(a, b)
    BY <1>5, PlannedRandomShortcut
  <1>6. CASE UNCHANGED vars
    BY <1>6, PlannedStutter
  <1>7. CASE Key
    BY <1>7, PlannedKey
  <1> QED BY <1>1, <1>2, <1>3, <1>4, <1>5, <1>6, <1>7, Zenon DEF Next

\* Once undefined, always so: no step of a call is taken but that of a key.
LEMMA UndefinedNext ==
  ASSUME TypeOK, at = "undefined", [Next]_vars PROVE TypeOK' /\ at' = "undefined"
  <1>1. Key \/ UNCHANGED vars
    <2>1. ~CalcPath
      BY DEF CalcPath, Prepare, Begin, Search, Connect, GiveUp, TraceStart, TraceGoal, Integrate,
             Build, BuildDone, Link, AddEnds, Attach, DFS, Shortcut
    <2> QED BY <2>1 DEF Next, Call, Stop, Overlap, Optimize, RandomShortcut
  <1>2. /\ UNCHANGED <<algorithm_, pos, edges, Ta_, Tb_, start_, goal_, fresh, calls, cancelled>>
        /\ UNCHANGED <<pieces, isRunning_, path, path_, at, i, j, isTaStart, qNew, startNode>>
        /\ UNCHANGED <<goalNode, node, stack, visited, index, optimized, result>>
    BY <1>1 DEF Key, vars, graph, ends, search, dfs, opt
  <1>3. isTaStart' \in BOOLEAN /\ result' \in BOOLEAN /\ isRunning_' \in BOOLEAN
        /\ fresh' \in BOOLEAN /\ cancelled' \in BOOLEAN
    BY <1>2, Zenon DEF TypeOK
  <1>4. key' \in BOOLEAN
    BY <1>1, Zenon DEF TypeOK, Key, vars, search
  <1> QED BY <1>2, <1>3, <1>4 DEF TypeOK, Nodes

LEMMA PlannerPlans == Spec => []MaybePlanned
  <1>1. Init => MaybePlanned
    BY InitPlanned DEF MaybePlanned, Planned
  <1>2. MaybePlanned /\ [Next]_vars => MaybePlanned'
    <2> SUFFICES ASSUME MaybePlanned, [Next]_vars PROVE MaybePlanned'
      OBVIOUS
    <2>1. CASE at = "undefined"
      BY <2>1, UndefinedNext DEF MaybePlanned
    <2>2. CASE at # "undefined" /\ Overlap
      BY <2>2, PlannedOverlap DEF MaybePlanned
    <2>3. CASE at # "undefined" /\ ~Overlap
      <3>1. Planned'
        BY <2>3, PlannedNext DEF MaybePlanned
      <3>2. TypeOK'
        BY <3>1 DEF Planned
      <3> QED BY <3>1, <3>2 DEF MaybePlanned
    <2> QED BY <2>1, <2>2, <2>3
  <1> QED BY <1>1, <1>2, PTL DEF Spec

(* Every field of the planner, and of the call in progress, keeps its type: *)
(* the nodes that trees, edges and the stack of DFS name exist (RRT::extend,*)
(* PRM::buildRoadmap, Roadmap::DFS).                                        *)
THEOREM TypeCorrect == Spec => []TypeOK
  <1>1. MaybePlanned => TypeOK
    BY DEF MaybePlanned
  <1> QED BY <1>1, PlannerPlans, PTL

(* For every space of configurations, wherever its ways collide, and every  *)
(* number of calls, a path of the planner goes from the start of its call to*)
(* the goal by ways isReachable has accepted, whichever algorithm made it,  *)
(* on trees new or old, and whichever optimizer has shortened it, but for   *)
(* the pieces of ways random shortcuts have left, which nothing has checked.*)
THEOREM PathIsSound == Spec => []PathSound
  <1>1. MaybePlanned => PathSound
    BY DEF MaybePlanned, Planned, Paths, Good, Usable, By, Joined, PathSound, LastOf
  <1> QED BY <1>1, PlannerPlans, PTL

(* For every distance and interpolation distance, wherever samples collide: *)
(* none of the samples of a path collides, the pieces apart, and none of its*)
(* configurations does.  The rounds of checkCollision leave no sample out,  *)
(* and every way of the path was given to them.                             *)
THEOREM PathIsFree == Spec => []CollisionFree
  <1>1. MaybePlanned => CollisionFree
    <2> SUFFICES ASSUME MaybePlanned, at # "undefined" PROVE CollisionFree
      BY DEF CollisionFree
    <2>1. path_ \in Seq(Config) /\ Len(path_) \in Nat /\ DOMAIN path_ = 1 .. Len(path_)
          /\ \A k \in 1 .. Len(path_) : path_[k] \in Config
      BY Numbered DEF MaybePlanned, TypeOK
    <2>2. path_ # <<>> => By(path_, Usable)
      BY DEF MaybePlanned, Planned, Paths, Good
    <2>3. path_ = <<>> => Len(path_) = 0
      OBVIOUS
    <2>4. ASSUME NEW k \in DOMAIN path_ PROVE path_[k] \in Free
      BY <2>1, <2>2, <2>3 DEF By
    <2>5. ASSUME NEW k \in 1 .. Len(path_) - 1, <<path_[k], path_[k + 1]>> \notin pieces
          PROVE  Colliding[<<path_[k], path_[k + 1]>>] = {}
      <3>1. k \in 1 .. Len(path_) /\ k + 1 \in 1 .. Len(path_)
        BY <2>1
      <3>2. path_[k] \in Config /\ path_[k + 1] \in Config
        BY <2>1, <3>1
      <3>3. path_ # <<>>
        BY <2>1, <2>3
      <3>4. <<path_[k], path_[k + 1]>> \in Reachable
        BY <2>2, <2>5, <3>3 DEF By, Usable
      <3> QED BY <3>2, <3>4, Accepted
    <2> QED BY <2>4, <2>5 DEF CollisionFree
  <1> QED BY <1>1, PlannerPlans, PTL
=============================================================================
