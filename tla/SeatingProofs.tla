--------------------------- MODULE SeatingProofs ---------------------------
(***************************************************************************)
(* Theorems about Seating, for any number of players and any picks.        *)
(***************************************************************************)
EXTENDS Seating, FiniteSetTheorems, WellFoundedInduction, TLAPS

-----------------------------------------------------------------------------
(***************************************************************************)
(* Least numbers, and positions round a table.                             *)
(***************************************************************************)
\* Some member of a set of numbers is the least.
LEMMA LeastExists ==
    ASSUME NEW S \in SUBSET Nat, S # {}
    PROVE  \E i \in S : \A j \in S : i <= j
  <1> DEFINE below == [i \in S |-> {j \in S : j <= i}]
             F == {below[i] : i \in S}
             R == StrictSubsetOrdering(S)
  <1>1. \A i \in S : below[i] \subseteq S /\ \A j \in S : j \in below[i] <=> j <= i
    OBVIOUS
  <1> HIDE DEF below
  <1>2. ASSUME NEW i \in S PROVE below[i] \in FiniteSubsetsOf(S)
    <2>1. below[i] \in SUBSET Nat /\ i \in Nat /\ \A j \in below[i] : j <= i
      BY <1>1
    <2>2. IsFiniteSet(below[i])
      BY <2>1, FS_BoundedSetOfNaturals
    <2> QED BY <1>1, <2>2 DEF FiniteSubsetsOf
  <1>3. F \subseteq FiniteSubsetsOf(S) /\ F # {}
    BY <1>2
  <1>4. IsWellFoundedOn(R, FiniteSubsetsOf(S))
    BY FS_StrictSubsetOrderingWellFounded
  <1>5. PICK A \in F : \A B \in F : ~(<<B, A>> \in R)
    <2> HIDE DEF F, R
    <2> QED BY <1>3, <1>4, WFMin
  <1>6. PICK i \in S : A = below[i]
    OBVIOUS
  <1>7. ASSUME NEW j \in S, ~(i <= j) PROVE FALSE
    <2>1. i \in Nat /\ j \in Nat /\ j < i
      BY <1>7
    <2>2. below[j] \subseteq S /\ A \subseteq S /\ i \in A /\ i \notin below[j]
      BY <1>1, <1>6, <2>1
    <2>3. ASSUME NEW k \in below[j] PROVE k \in A
      <3>1. k \in Nat /\ k \in S /\ k <= j
        BY <1>1, <2>2
      <3>2. k <= i
        BY <2>1, <3>1
      <3> QED BY <1>1, <1>6, <3>1, <3>2
    <2>4. <<below[j], A>> \in R
      BY <2>2, <2>3 DEF StrictSubsetOrdering
    <2>5. below[j] \in F
      OBVIOUS
    <2> QED BY <1>5, <2>4, <2>5
  <1> QED BY <1>7

\* The loops over sorted ids begin with the least one.
LEMMA LowestIs ==
    ASSUME NEW S \in SUBSET Nat, S # {}
    PROVE  Lowest(S) \in S /\ \A j \in S : Lowest(S) <= j
  BY LeastExists DEF Lowest

\* Positions round a table of n.
LEMMA NextSeat ==
    ASSUME NEW n \in Nat \ {0}, NEW k \in 1..n
    PROVE  (k % n) + 1 = IF k = n THEN 1 ELSE k + 1
  OBVIOUS

\* Who goes on to the next seat over and over gets to all of them.
LEMMA RoundTheTable ==
    ASSUME NEW n \in Nat \ {0}, NEW P \in SUBSET (1..n), P # {},
           \A k \in P : (k % n) + 1 \in P
    PROVE  P = 1..n
  <1>1. ASSUME NEW k \in P PROVE IF k = n THEN 1 \in P ELSE k + 1 \in P
    <2>1. k \in 1..n /\ (k % n) + 1 \in P
      OBVIOUS
    <2> QED BY <2>1, NextSeat
  <1>2. ASSUME NEW p \in P, NEW m \in p..n PROVE m \in P
    <2> DEFINE Q == {k \in p..n : k \notin P}
    <2> SUFFICES ASSUME Q # {} PROVE FALSE
      BY <1>2
    <2>0. Q \subseteq Nat /\ \A k : k \in Q <=> k \in p..n /\ k \notin P
      OBVIOUS
    <2> HIDE DEF Q
    <2>1. PICK q \in Q : \A j \in Q : q <= j
      BY <2>0, LeastExists
    <2>2. q \in Nat /\ p \in Nat /\ q > p /\ q - 1 \in p..n /\ q - 1 \notin Q
      BY <2>0, <2>1
    <2>3. q - 1 \in P /\ q - 1 < n
      BY <2>0, <2>1, <2>2
    <2>4. q \in P
      BY <1>1, <2>2, <2>3
    <2> QED BY <2>0, <2>1, <2>4
  <1>3. PICK p \in P : TRUE
    OBVIOUS
  <1>4. n \in P
    BY <1>2, <1>3
  <1>5. 1 \in P
    BY <1>1, <1>4
  <1> QED BY <1>2, <1>5

-----------------------------------------------------------------------------
(***************************************************************************)
(* Sets of players and tables.                                             *)
(***************************************************************************)

\* In a finite set a map that takes no two to the same one takes one to each.
LEMMA EverybodyIsNext ==
    ASSUME NEW U, IsFiniteSet(U), NEW f \in [U -> U],
           \A i, j \in U : f[i] = f[j] => i = j
    PROVE  \A j \in U : \E i \in U : f[i] = j
  <1>1. f \in Injection(U, U)
    BY DEF Injection, IsInjective
  <1>2. f \in Surjection(U, U)
    BY <1>1, FS_Injection
  <1> QED BY <1>2 DEF Surjection

LEMMA Inputs ==
    ASSUME claims \in Claims
    PROVE  /\ IsFiniteSet(Ids) /\ Ids \subseteq Nat \ {0}
           /\ claims \in [Ids -> [left : Nat, right : Nat]]
           /\ \A i \in Ids : claims[i].left \in Nat /\ claims[i].right \in Nat
  BY ClaimsAssumption DEF Ids

Count == Cardinality(Ids)

\* A table seats everybody once, from the lowest id on.
LEMMA AtTables ==
    ASSUME claims \in Claims, NEW t \in Tables, Ids # {}
    PROVE  /\ Count \in Nat \ {0} /\ t \in [1..Count -> Ids] /\ Len(t) = Count
           /\ \A k, l \in 1..Count : t[k] = t[l] => k = l
           /\ \A i \in Ids : \E k \in 1..Count : t[k] = i
           /\ t[1] = Lowest(Ids)
  <1>1. IsFiniteSet(Ids)
    BY Inputs
  <1>2. Count \in Nat \ {0}
    BY <1>1, FS_CardinalityType, FS_EmptySet DEF Count
  <1>3. t \in [1..Count -> Ids] /\ \A k, l \in 1..Count : t[k] = t[l] => k = l
    BY DEF Tables, Count
  <1>4. IsFiniteSet(1..Count) /\ Cardinality(1..Count) = Count
    BY <1>2, FS_Interval
  <1>5. t \in Injection(1..Count, Ids)
    BY <1>3 DEF Injection, IsInjective
  <1>6. t \in Surjection(1..Count, Ids)
    BY <1>1, <1>4, <1>5, FS_Injection DEF Count
  <1>7. Len(t) = Count
    BY <1>2, <1>3
  <1>8. t # <<>>
    BY <1>2, <1>7
  <1>9. t[1] = Lowest(Ids)
    BY <1>8 DEF Tables
  <1> QED BY <1>2, <1>3, <1>6, <1>7, <1>9 DEF Surjection

\* At a table everybody has one neighbour on each side.
LEMMA BesideOne ==
    ASSUME claims \in Claims, NEW t \in Tables, Ids # {},
           NEW i, NEW j, Beside(t, i, j)
    PROVE  /\ i \in Ids /\ j \in Ids /\ i # j
           /\ \A k \in 1..Count : t[k] = i => t[(k % Count) + 1] = j
           /\ \A l : Beside(t, i, l) => l = j
           /\ \A l : Beside(t, l, j) => l = i
  <1>1. /\ Count \in Nat \ {0} /\ t \in [1..Count -> Ids] /\ Len(t) = Count
        /\ \A k, l \in 1..Count : t[k] = t[l] => k = l
    BY AtTables
  <1> DEFINE nx == [k \in 1..Count |-> (k % Count) + 1]
  <1>2. ASSUME NEW k \in 1..Count
        PROVE  nx[k] \in 1..Count /\ nx[k] = IF k = Count THEN 1 ELSE k + 1
    <2>1. nx[k] = (k % Count) + 1
      OBVIOUS
    <2>2. (k % Count) + 1 = IF k = Count THEN 1 ELSE k + 1
      BY <1>1, NextSeat
    <2> HIDE DEF nx
    <2> QED BY <1>1, <2>1, <2>2
  <1>3. \A k, l \in 1..Count : nx[k] = nx[l] => k = l
    <2> TAKE k, l \in 1..Count
    <2> HIDE DEF nx
    <2> QED BY <1>1, <1>2
  <1>4. \A a, b : Beside(t, a, b) <=> a # b /\ \E k \in 1..Count : t[k] = a /\ t[nx[k]] = b
    BY <1>1 DEF Beside
  <1> HIDE DEF nx
  <1>5. PICK k \in 1..Count : t[k] = i /\ t[nx[k]] = j
    BY <1>4
  <1>6. i \in Ids /\ j \in Ids /\ i # j
    BY <1>1, <1>2, <1>4, <1>5
  <1>7. \A l : Beside(t, i, l) => l = j
    BY <1>1, <1>4, <1>5
  <1>8. \A l : Beside(t, l, j) => l = i
    BY <1>1, <1>2, <1>3, <1>4, <1>5
  <1>9. \A l \in 1..Count : t[l] = i => t[nx[l]] = j
    BY <1>1, <1>5
  <1> QED BY <1>6, <1>7, <1>8, <1>9 DEF nx

-----------------------------------------------------------------------------
(***************************************************************************)
(* Circles of edges.                                                       *)
(***************************************************************************)
\* Everybody of U has a next player, who is of U.
ClosedBy(U) == \A i \in U : i \in DOMAIN succ /\ succ[i] \in U

\* Those met on the way from i: i, whoever is next to one of them, nobody else.
LEMMA Reached ==
    ASSUME IsPartial(succ), NEW i \in Ids
    PROVE  /\ Reach(i) \subseteq Ids /\ i \in Reach(i)
           /\ \A k \in Reach(i) \cap DOMAIN succ : succ[k] \in Reach(i)
           /\ \A S \in SUBSET Ids :
                 i \in S /\ (\A k \in S \cap DOMAIN succ : succ[k] \in S) => Reach(i) \subseteq S
  <1>1. \A k \in DOMAIN succ : succ[k] \in Ids
    BY DEF IsPartial
  <1>2. ASSUME NEW k \in Reach(i) \cap DOMAIN succ PROVE succ[k] \in Reach(i)
    <2>1. succ[k] \in Ids
      BY <1>1, <1>2
    <2>2. ASSUME NEW S \in SUBSET Ids, i \in S, \A l \in S \cap DOMAIN succ : succ[l] \in S
          PROVE  succ[k] \in S
      BY <1>2, <2>2 DEF Reach
    <2> QED BY <2>1, <2>2 DEF Reach
  <1> QED BY <1>2 DEF Reach

\* Who follows somebody of a circle is of a circle.
LEMMA CirclesClose ==
    ASSUME claims \in Claims, IsPartial(succ), OneNeighbourEachSide
    PROVE  /\ InCircles \subseteq Ids /\ ClosedBy(InCircles)
           /\ \A i \in InCircles : Reach(i) \subseteq InCircles /\ ClosedBy(Reach(i))
  <1>1. InCircles \subseteq DOMAIN succ /\ DOMAIN succ \subseteq Ids
    BY DEF InCircles, IsPartial
  <1>2. \A k \in DOMAIN succ : succ[k] \in Ids /\ succ[k] # k
    BY DEF IsPartial, OneNeighbourEachSide
  <1>3. ASSUME NEW i \in InCircles PROVE succ[i] \in InCircles
    <2> DEFINE j == succ[i]
    <2>1. i \in DOMAIN succ /\ i \in Reach(j) /\ j \in Ids /\ i # j
      BY <1>1, <1>2 DEF InCircles
    <2> HIDE DEF j
    <2>2. j \in DOMAIN succ
      <3> SUFFICES ASSUME j \notin DOMAIN succ PROVE FALSE
        OBVIOUS
      <3>1. Reach(j) \subseteq {j}
        BY <2>1, Reached
      <3> QED BY <2>1, <3>1
    <2>3. succ[j] \in Ids
      BY <1>2, <2>2
    <2>4. /\ Reach(succ[j]) \subseteq Ids /\ succ[j] \in Reach(succ[j])
          /\ \A k \in Reach(succ[j]) \cap DOMAIN succ : succ[k] \in Reach(succ[j])
      BY <2>3, Reached
    <2>5. Reach(j) \subseteq {j} \cup Reach(succ[j])
      <3> DEFINE S == {j} \cup Reach(succ[j])
      <3>1. S \in SUBSET Ids /\ j \in S
        BY <2>1, <2>4
      <3>2. \A k \in S \cap DOMAIN succ : succ[k] \in S
        BY <2>4
      <3> HIDE DEF S
      <3>3. Reach(j) \subseteq S
        BY <2>1, <3>1, <3>2, Reached
      <3> QED BY <3>3 DEF S
    <2>6. i \in Reach(succ[j])
      BY <2>1, <2>5
    <2>7. j \in Reach(succ[j])
      BY <2>1, <2>4, <2>6 DEF j
    <2> QED BY <2>2, <2>7 DEF InCircles, j
  <1>4. ASSUME NEW i \in InCircles PROVE Reach(i) \subseteq InCircles
    <2>1. i \in Ids /\ InCircles \in SUBSET Ids
      BY <1>1
    <2> QED BY <1>3, <2>1, Reached
  <1>5. ASSUME NEW i \in InCircles, NEW k \in Reach(i)
        PROVE  k \in DOMAIN succ /\ succ[k] \in Reach(i)
    BY <1>1, <1>4, <1>5, Reached
  <1> QED BY <1>1, <1>3, <1>4, <1>5 DEF ClosedBy

\* Players who each have a next one among them hold a circle.
LEMMA ClosedHoldsCircle ==
    ASSUME claims \in Claims, IsPartial(succ), OneNeighbourEachSide,
           NEW U \in SUBSET Ids, ClosedBy(U), NEW i \in U
    PROVE  i \in InCircles
  <1> DEFINE R == Reach(succ[i])
  <1>1. i \in DOMAIN succ /\ succ[i] \in U /\ succ[i] \in Ids
    BY DEF ClosedBy
  <1>2. /\ R \subseteq U /\ succ[i] \in R
        /\ \A k \in R \cap DOMAIN succ : succ[k] \in R
    BY <1>1, Reached DEF ClosedBy
  <1> HIDE DEF R
  <1>3. \A k \in R : k \in DOMAIN succ /\ succ[k] \in R
    BY <1>2 DEF ClosedBy
  <1>4. IsFiniteSet(R)
    <2>1. IsFiniteSet(Ids) /\ R \in SUBSET Ids
      BY <1>2, Inputs
    <2> QED BY <2>1, FS_Subset
  <1> DEFINE f == [k \in R |-> succ[k]]
  <1>5. f \in [R -> R] /\ \A k \in R : f[k] = succ[k]
    BY <1>3
  <1>6. \A k, l \in DOMAIN succ : succ[k] = succ[l] => k = l
    BY DEF OneNeighbourEachSide
  <1>7. \A k, l \in R : f[k] = f[l] => k = l
    BY <1>3, <1>5, <1>6
  <1> HIDE DEF f
  <1>8. PICK k \in R : f[k] = succ[i]
    BY <1>2, <1>4, <1>5, <1>7, EverybodyIsNext
  <1>9. k = i
    BY <1>1, <1>3, <1>5, <1>6, <1>8
  <1> QED BY <1>1, <1>8, <1>9 DEF InCircles, R

-----------------------------------------------------------------------------
(***************************************************************************)
(* The inductive invariant.                                                *)
(***************************************************************************)

\* Edge e has been added.
Held(e) == e[1] \in DOMAIN succ /\ succ[e[1]] = e[2]

\* No pick is lost before it is looked at, and every player seated is one.
Typed ==
    /\ claims \in Claims
    /\ at \in {"edges", "circle", "chains", "unplaced", "done"}
    /\ todo \subseteq Ids \X Side /\ \A x \in todo : PickOf(x) # 0
    /\ IsPartial(succ) /\ IsPartial(pred)
    /\ conflict \in BOOLEAN /\ complete \in BOOLEAN
    /\ order \in Seq(Ids)

\* A pick stands behind every edge, and while nothing was refused an edge
\* behind every pick that was looked at.
Truthful ==
    /\ \A i \in DOMAIN succ : Picked(i, succ[i])
    /\ ~conflict => \A x \in Ids \X Side : PickOf(x) # 0 /\ x \notin todo => Held(Edge(x))

\* The picks contradict each other.
NoneSuits == \A t \in Tables : ~Suits(t)

\* Where a conflict was reported no table suits the picks, and nobody is seated.
NoTable ==
    conflict => /\ at \in {"edges", "done"}
                /\ order = <<>> /\ ~complete /\ NoneSuits

\* Nobody is seated twice.
Apart == \A k, l \in DOMAIN order : order[k] = order[l] => k = l

\* The edges are one circle of everybody, or none.
OneCircle == DOMAIN succ = Ids /\ \A U \in SUBSET Ids : U # {} /\ ClosedBy(U) => U = Ids
NoCircle == \A U \in SUBSET Ids : ClosedBy(U) => U = {}

\* The edges are one circle, and the order is a piece of it from the lowest id.
RoundSoFar ==
    /\ complete /\ Apart /\ OneCircle
    /\ order # <<>> /\ order[1] = Lowest(Ids)
    /\ \A k \in DOMAIN order : k > 1 => order[k] = succ[order[k-1]]

\* The edges hold no circle, and the order is made of whole chains but for the
\* last one, each walked from its beginning.
ChainsSoFar ==
    /\ ~complete /\ Apart /\ NoCircle
    /\ \A k \in DOMAIN order : order[k] \in DOMAIN pred => k > 1 /\ order[k-1] = pred[order[k]]
    /\ \A k \in DOMAIN order :
          order[k] \in DOMAIN succ /\ k < Len(order) => order[k+1] = succ[order[k]]

\* Everybody with an edge is seated, next to their neighbours.
ChainsSeated ==
    /\ ~complete /\ Apart
    /\ DOMAIN succ \subseteq Seated /\ DOMAIN pred \subseteq Seated
    /\ \A k \in DOMAIN order :
          order[k] \in DOMAIN succ => k < Len(order) /\ order[k+1] = succ[order[k]]

\* What a stage of the function may rely on.
Walk ==
    ~conflict =>
        /\ at # "edges" => todo = {}
        /\ at = "edges" => order = <<>> /\ ~complete
        /\ at = "circle" => RoundSoFar
        /\ at = "chains" => ChainsSoFar
        /\ at = "unplaced" => ChainsSeated
        /\ at = "done" => \/ RoundSoFar /\ succ[Last] = order[1]
                          \/ ChainsSeated /\ Seated = Ids

IInv == Typed /\ OneNeighbourEachSide /\ Truthful /\ NoTable /\ Walk

-----------------------------------------------------------------------------
(***************************************************************************)
(* Picks and tables.                                                       *)
(***************************************************************************)
LEMMA EdgeOf ==
    ASSUME NEW i \in Ids
    PROVE  /\ <<i, "left">> \in Ids \X Side /\ <<i, "right">> \in Ids \X Side
           /\ PickOf(<<i, "left">>) = claims[i].left
           /\ PickOf(<<i, "right">>) = claims[i].right
           /\ Edge(<<i, "left">>) = <<i, claims[i].left>>
           /\ Edge(<<i, "right">>) = <<claims[i].right, i>>
  BY DEF Side, PickOf, Edge

\* A table where every pick is true seats next to each other those of whom a
\* pick says it, and those of an edge.
LEMMA SuitedPicks ==
    ASSUME claims \in Claims, NEW t \in Tables, Suits(t)
    PROVE  /\ \A i, j \in Ids : Picked(i, j) => Beside(t, i, j)
           /\ \A x \in Ids \X Side : PickOf(x) # 0 => Beside(t, Edge(x)[1], Edge(x)[2])
  <1>1. \A i \in Ids : /\ claims[i].left # 0 => Beside(t, i, claims[i].left)
                       /\ claims[i].right # 0 => Beside(t, claims[i].right, i)
    BY DEF Suits
  <1>2. ASSUME NEW i \in Ids, NEW j \in Ids, Picked(i, j) PROVE Beside(t, i, j)
    <2>1. i # 0 /\ j # 0
      BY Inputs
    <2> QED BY <1>1, <1>2, <2>1 DEF Picked
  <1>3. ASSUME NEW x \in Ids \X Side, PickOf(x) # 0
        PROVE  Beside(t, Edge(x)[1], Edge(x)[2])
    <2>1. PICK i \in Ids, s \in Side : x = <<i, s>>
      OBVIOUS
    <2>2. CASE s = "right"
      <3>1. /\ PickOf(x) = claims[i].right
            /\ Edge(x) = <<claims[i].right, i>>
        BY <2>1, <2>2, EdgeOf
      <3> QED BY <1>1, <1>3, <3>1
    <2>3. CASE s = "left"
      <3>1. /\ PickOf(x) = claims[i].left
            /\ Edge(x) = <<i, claims[i].left>>
        BY <2>1, <2>3, EdgeOf
      <3> QED BY <1>1, <1>3, <3>1
    <2> QED BY <2>2, <2>3 DEF Side
  <1> QED BY <1>2, <1>3

\* A pick that is refused is true at no table where the picks behind the edges are.
LEMMA RefusedForever ==
    ASSUME IInv, NEW x \in todo, ~(Sound(Edge(x)) /\ Agrees(Edge(x)))
    PROVE  NoneSuits
  <1> SUFFICES ASSUME NEW t \in Tables, Suits(t) PROVE FALSE
    BY DEF NoneSuits
  <1> DEFINE e == Edge(x)
  <1>1. claims \in Claims /\ x \in Ids \X Side /\ PickOf(x) # 0
    BY DEF IInv, Typed
  <1>2. Ids # {}
    BY <1>1
  <1>3. Beside(t, e[1], e[2])
    BY <1>1, SuitedPicks
  <1> HIDE DEF e
  <1>4. /\ e[1] \in Ids /\ e[2] \in Ids /\ e[1] # e[2]
        /\ \A l : Beside(t, e[1], l) => l = e[2]
        /\ \A l : Beside(t, l, e[2]) => l = e[1]
    BY <1>1, <1>2, <1>3, BesideOne
  <1>5. \A i \in DOMAIN succ : i \in Ids /\ succ[i] \in Ids /\ Beside(t, i, succ[i])
    <2> TAKE i \in DOMAIN succ
    <2>1. i \in Ids /\ succ[i] \in Ids /\ Picked(i, succ[i])
      BY DEF IInv, Typed, IsPartial, Truthful
    <2> QED BY <1>1, <2>1, SuitedPicks
  <1>6. \A i \in DOMAIN pred : pred[i] \in DOMAIN succ /\ succ[pred[i]] = i
    BY DEF IInv, OneNeighbourEachSide
  <1>7. Sound(e)
    BY <1>4 DEF Sound
  <1>8. Agrees(e)
    BY <1>4, <1>5, <1>6 DEF Agrees
  <1> QED BY <1>7, <1>8 DEF e

\* Where a circle leaves players out the picks are true at no table.
LEMMA CircleTooSmall ==
    ASSUME IInv, LeavesOut
    PROVE  NoneSuits
  <1> SUFFICES ASSUME NEW t \in Tables, Suits(t) PROVE FALSE
    BY DEF NoneSuits
  <1> USE DEF IInv, Typed
  <1>1. PICK i \in InCircles : Reach(i) # Ids
    BY DEF LeavesOut
  <1> DEFINE R == Reach(i)
  <1>2. i \in Ids /\ R \subseteq Ids /\ i \in R /\ ClosedBy(R)
    <2>1. i \in Ids /\ ClosedBy(R)
      BY CirclesClose
    <2> QED BY <2>1, Reached
  <1> HIDE DEF R, IInv, Typed
  <1>3. claims \in Claims /\ Ids # {}
    BY <1>2 DEF IInv, Typed
  <1>4. /\ Count \in Nat \ {0} /\ t \in [1..Count -> Ids]
        /\ \A j \in Ids : \E k \in 1..Count : t[k] = j
    BY <1>3, AtTables
  <1> DEFINE P == {k \in 1..Count : t[k] \in R}
  <1>5. P # {}
    BY <1>2, <1>4
  <1>6. ASSUME NEW k \in P PROVE (k % Count) + 1 \in P
    <2>1. k \in 1..Count /\ t[k] \in DOMAIN succ /\ succ[t[k]] \in R
      BY <1>2 DEF ClosedBy
    <2>2. t[k] \in Ids /\ succ[t[k]] \in Ids /\ Picked(t[k], succ[t[k]])
      BY <1>2, <2>1 DEF IInv, Truthful, Typed, IsPartial
    <2>3. Beside(t, t[k], succ[t[k]])
      BY <1>3, <2>2, SuitedPicks
    <2>4. t[(k % Count) + 1] = succ[t[k]]
      BY <1>3, <2>1, <2>3, BesideOne
    <2>5. (k % Count) + 1 \in 1..Count
      BY <1>4, <2>1, NextSeat
    <2> QED BY <2>1, <2>4, <2>5
  <1>7. P \subseteq 1..Count
    OBVIOUS
  <1>8. P = 1..Count
    <2> HIDE DEF P
    <2> QED BY <1>4, <1>5, <1>6, <1>7, RoundTheTable
  <1>9. Ids \subseteq R
    BY <1>4, <1>8
  <1> QED BY <1>1, <1>2, <1>9 DEF R

\* Adding an edge keeps the two maps each other's inverse: what Agrees refuses
\* is exactly a second player on either side.
LEMMA AddEdgeKeepsOneNeighbour ==
    ASSUME OneNeighbourEachSide, AddEdge
    PROVE  OneNeighbourEachSide'
  <1> DEFINE e == Edge(Now)
  <1>1. e[1] # e[2] /\ Agrees(e)
    BY DEF AddEdge, Sound
  <1>2. succ' = [i \in DOMAIN succ \cup {e[1]} |-> IF i = e[1] THEN e[2] ELSE succ[i]]
    BY DEF AddEdge
  <1>3. pred' = [i \in DOMAIN pred \cup {e[2]} |-> IF i = e[2] THEN e[1] ELSE pred[i]]
    BY DEF AddEdge
  <1> HIDE DEF e
  <1>4. ASSUME NEW i \in DOMAIN succ'
        PROVE  /\ succ'[i] # i
               /\ succ'[i] \in DOMAIN pred' /\ pred'[succ'[i]] = i
    <2>1. CASE i = e[1]
      BY <1>1, <1>2, <1>3, <2>1
    <2>2. CASE i # e[1]
      <3>1. i \in DOMAIN succ /\ succ'[i] = succ[i]
        BY <1>2, <1>4, <2>2
      <3>2. succ[i] # i /\ succ[i] \in DOMAIN pred /\ pred[succ[i]] = i
        BY <3>1 DEF OneNeighbourEachSide
      <3>3. succ[i] # e[2]
        BY <1>1, <2>2, <3>2 DEF Agrees
      <3> QED BY <1>3, <3>1, <3>2, <3>3
    <2> QED BY <2>1, <2>2
  <1>5. ASSUME NEW i \in DOMAIN pred'
        PROVE  pred'[i] \in DOMAIN succ' /\ succ'[pred'[i]] = i
    <2>1. CASE i = e[2]
      BY <1>2, <1>3, <2>1
    <2>2. CASE i # e[2]
      <3>1. i \in DOMAIN pred /\ pred'[i] = pred[i]
        BY <1>3, <1>5, <2>2
      <3>2. pred[i] \in DOMAIN succ /\ succ[pred[i]] = i
        BY <3>1 DEF OneNeighbourEachSide
      <3>3. pred[i] # e[1]
        BY <1>1, <2>2, <3>2 DEF Agrees
      <3> QED BY <1>2, <3>1, <3>2, <3>3
    <2> QED BY <2>1, <2>2
  <1> QED BY <1>4, <1>5 DEF OneNeighbourEachSide

-----------------------------------------------------------------------------
(***************************************************************************)
(* Reading the picks.                                                      *)
(***************************************************************************)
LEMMA NowIs ==
    ASSUME Typed, todo # {}
    PROVE  Now \in todo /\ Now \in Ids \X Side
  <1> DEFINE S == {x[1] : x \in todo}
             i == Lowest(S)
  <1>1. S \subseteq Nat /\ S # {}
    BY Inputs DEF Typed
  <1>2. i \in S
    <2> HIDE DEF S
    <2> QED BY <1>1, LowestIs
  <1>3. PICK x \in todo : x[1] = i
    BY <1>2
  <1> HIDE DEF i, S
  <1>4. x \in Ids \X Side
    BY DEF Typed
  <1>5. x = <<i, "right">> \/ x = <<i, "left">>
    BY <1>3, <1>4 DEF Side
  <1>6. Now = IF <<i, "right">> \in todo THEN <<i, "right">> ELSE <<i, "left">>
    BY DEF Now, i, S
  <1>7. Now \in todo
    BY <1>5, <1>6
  <1> QED BY <1>7 DEF Typed

\* The input stays, and with it what no table can do.
LEMMA SameClaims ==
    ASSUME claims' = claims
    PROVE  /\ Ids' = Ids
           /\ NoneSuits => NoneSuits'
  <1>1. Ids' = Ids
    BY DEF Ids
  <1>2. Tables' = Tables
    BY <1>1 DEF Tables
  <1>3. ASSUME NEW t PROVE Suits(t)' = Suits(t)
    BY <1>1 DEF Suits, Beside
  <1> QED BY <1>1, <1>2, <1>3 DEF NoneSuits

\* A pick becomes an edge.
LEMMA AddEdgeKeeps ==
    ASSUME IInv, AddEdge
    PROVE  IInv'
  <1> DEFINE e == Edge(Now)
  <1>1. Typed /\ OneNeighbourEachSide /\ Truthful /\ NoTable /\ Walk
    BY DEF IInv
  <1>2. /\ at = "edges" /\ todo # {} /\ todo' = todo \ {Now}
        /\ UNCHANGED <<claims, at, order, complete, conflict>>
        /\ Sound(e) /\ Agrees(e)
        /\ succ' = [i \in DOMAIN succ \cup {e[1]} |-> IF i = e[1] THEN e[2] ELSE succ[i]]
        /\ pred' = [i \in DOMAIN pred \cup {e[2]} |-> IF i = e[2] THEN e[1] ELSE pred[i]]
    BY DEF AddEdge, Look, result
  <1>3. Now \in todo /\ Now \in Ids \X Side
    BY <1>1, <1>2, NowIs
  <1>4. Picked(e[1], e[2])
    <2>1. PICK i \in Ids, s \in Side : Now = <<i, s>>
      BY <1>3
    <2>2. CASE s = "right"
      <3>1. e = <<claims[i].right, i>>
        BY <2>1, <2>2, EdgeOf
      <3> QED BY <3>1 DEF Picked
    <2>3. CASE s = "left"
      <3>1. e = <<i, claims[i].left>>
        BY <2>1, <2>3, EdgeOf
      <3> QED BY <3>1 DEF Picked
    <2> QED BY <2>2, <2>3 DEF Side
  <1> HIDE DEF e
  <1>5. e[1] \in Ids /\ e[2] \in Ids
    BY <1>2 DEF Sound
  <1>6. OneNeighbourEachSide'
    BY <1>1, AddEdgeKeepsOneNeighbour
  <1>7. Typed'
    <2>1. Ids' = Ids
      BY <1>2, SameClaims
    <2>2. IsPartial(succ)' /\ IsPartial(pred)'
      BY <1>1, <1>2, <1>5, <2>1 DEF Typed, IsPartial
    <2>3. \A x \in todo' : PickOf(x)' # 0
      BY <1>1, <1>2 DEF Typed, PickOf
    <2> QED BY <1>1, <1>2, <2>1, <2>2, <2>3 DEF Typed
  <1>8. Truthful'
    <2>1. ASSUME NEW i \in DOMAIN succ' PROVE Picked(i, succ'[i])
      BY <1>1, <1>2, <1>4 DEF Truthful
    <2>2. ASSUME ~conflict, NEW x \in Ids \X Side, PickOf(x) # 0, x \notin todo'
          PROVE  Edge(x)[1] \in DOMAIN succ' /\ succ'[Edge(x)[1]] = Edge(x)[2]
      <3>1. CASE x = Now
        BY <1>2, <3>1 DEF e
      <3>2. CASE x # Now
        <4>1. Edge(x)[1] \in DOMAIN succ /\ succ[Edge(x)[1]] = Edge(x)[2]
          BY <1>1, <1>2, <2>2, <3>2 DEF Truthful, Held
        <4> QED BY <1>2, <4>1 DEF Agrees
      <3> QED BY <3>1, <3>2
    <2>3. claims' = claims
      BY <1>2
    <2>4. \A i \in DOMAIN succ' : Picked(i, succ[i])'
      BY <2>1, <2>3 DEF Picked
    <2>5. ~conflict' => \A x \in Ids' \X Side : PickOf(x)' # 0 /\ x \notin todo' => Held(Edge(x))'
      BY <1>2, <2>2, <2>3 DEF Held, Edge, PickOf, Ids
    <2> QED BY <2>4, <2>5 DEF Truthful
  <1>9. NoTable'
    BY <1>1, <1>2, SameClaims DEF NoTable
  <1>10. Walk'
    BY <1>1, <1>2 DEF Walk
  <1> QED BY <1>6, <1>7, <1>8, <1>9, <1>10 DEF IInv

\* A pick is refused: from now on no table will do.
LEMMA RefuseKeeps ==
    ASSUME IInv, Refuse
    PROVE  IInv'
  <1>1. Typed /\ OneNeighbourEachSide /\ Truthful /\ NoTable /\ Walk
    BY DEF IInv
  <1>2. /\ at = "edges" /\ todo # {} /\ todo' = todo \ {Now}
        /\ UNCHANGED <<claims, at, order, complete, succ, pred>>
        /\ ~(Sound(Edge(Now)) /\ Agrees(Edge(Now))) /\ conflict'
    BY DEF Refuse, Look, result, graph
  <1>3. Now \in todo
    BY <1>1, <1>2, NowIs
  <1>4. NoneSuits
    BY <1>2, <1>3, RefusedForever
  <1>5. /\ Ids' = Ids
        /\ NoneSuits => NoneSuits'
    BY <1>2, SameClaims
  <1>6. Typed'
    <2>1. IsPartial(succ)' /\ IsPartial(pred)'
      BY <1>1, <1>2, <1>5 DEF Typed, IsPartial
    <2>2. conflict' \in BOOLEAN
      BY DEF Refuse
    <2> QED BY <1>1, <1>2, <1>5, <2>1, <2>2 DEF Typed, PickOf
  <1>7. OneNeighbourEachSide'
    BY <1>1, <1>2 DEF OneNeighbourEachSide
  <1>9. Truthful'
    BY <1>1, <1>2 DEF Truthful, Picked
  <1>10. order = <<>> /\ ~complete
    BY <1>1, <1>2 DEF NoTable, Walk
  <1>11. NoTable'
    BY <1>2, <1>4, <1>5, <1>10 DEF NoTable
  <1>12. Walk'
    BY <1>2 DEF Walk
  <1> QED BY <1>6, <1>7, <1>9, <1>11, <1>12 DEF IInv

-----------------------------------------------------------------------------
(***************************************************************************)
(* What the edges amount to.                                               *)
(***************************************************************************)
\* From here on the input and the edges stay.
Frozen == UNCHANGED <<claims, todo, succ, pred>>

LEMMA FrozenKeeps ==
    ASSUME IInv, Frozen, conflict \in BOOLEAN, ~conflict' => ~conflict,
           at' \in {"edges", "circle", "chains", "unplaced", "done"},
           conflict' \in BOOLEAN, complete' \in BOOLEAN, order' \in Seq(Ids)
    PROVE  Typed' /\ OneNeighbourEachSide' /\ Truthful'
  <1>1. Typed /\ OneNeighbourEachSide /\ Truthful
    BY DEF IInv
  <1>2. Ids' = Ids
    BY SameClaims DEF Frozen
  <1>3. Typed'
    <2>1. IsPartial(succ)' /\ IsPartial(pred)'
      BY <1>1, <1>2 DEF Typed, IsPartial, Frozen
    <2> QED BY <1>1, <1>2, <2>1 DEF Typed, PickOf, Frozen
  <1>4. OneNeighbourEachSide'
    BY <1>1 DEF OneNeighbourEachSide, Frozen
  <1>5. Truthful'
    BY <1>1 DEF Truthful, Picked, Held, Edge, PickOf, Ids, Frozen
  <1> QED BY <1>3, <1>4, <1>5

LEMMA FrozenCircles ==
    ASSUME Frozen
    PROVE  (OneCircle => OneCircle') /\ (NoCircle => NoCircle') /\ Ids' = Ids
  <1>1. Ids' = Ids
    BY SameClaims DEF Frozen
  <1> QED BY <1>1 DEF OneCircle, NoCircle, ClosedBy, Frozen

\* A circle that leaves nobody out is all there is.
LEMMA WholeCircle ==
    ASSUME IInv, ~LeavesOut, InCircles # {}
    PROVE  OneCircle /\ InCircles = Ids
  <1>1. claims \in Claims /\ IsPartial(succ) /\ OneNeighbourEachSide
    BY DEF IInv, Typed
  <1>2. \A i \in InCircles : Reach(i) = Ids /\ Reach(i) \subseteq InCircles
    BY <1>1, CirclesClose DEF LeavesOut
  <1>3. InCircles = Ids /\ DOMAIN succ = Ids
    BY <1>1, <1>2, CirclesClose DEF InCircles, IsPartial
  <1>4. ASSUME NEW U \in SUBSET Ids, U # {}, ClosedBy(U) PROVE U = Ids
    <2>1. PICK u \in U : TRUE
      BY <1>4
    <2>2. u \in InCircles
      BY <1>1, <1>4, ClosedHoldsCircle
    <2>3. Reach(u) \subseteq U
      BY <1>1, <1>4, Reached DEF ClosedBy
    <2> QED BY <1>2, <2>2, <2>3
  <1> QED BY <1>3, <1>4 DEF OneCircle

LEMMA JudgeKeeps ==
    ASSUME IInv, Judge
    PROVE  IInv'
  <1>1. Typed /\ OneNeighbourEachSide /\ Truthful /\ NoTable /\ Walk
    BY DEF IInv
  <1>2. at = "edges" /\ todo = {} /\ Frozen
    BY DEF Judge, Frozen, graph
  <1>3. /\ order = <<>> /\ ~complete /\ order \in Seq(Ids)
        /\ conflict \in BOOLEAN /\ complete \in BOOLEAN
    BY <1>1, <1>2 DEF NoTable, Walk, Typed
  <1>4. CASE /\ conflict \/ LeavesOut
             /\ conflict' = TRUE /\ at' = "done" /\ UNCHANGED result
    <2>1. NoneSuits
      BY <1>1, <1>4, CircleTooSmall DEF NoTable
    <2>2. NoneSuits'
      BY <1>2, <2>1, SameClaims DEF Frozen
    <2>3. NoTable'
      BY <1>3, <1>4, <2>2 DEF NoTable, result
    <2>4. Walk'
      BY <1>4 DEF Walk
    <2>5. Typed' /\ OneNeighbourEachSide' /\ Truthful'
      <3>1. order' \in Seq(Ids) /\ complete' \in BOOLEAN
        BY <1>3, <1>4 DEF result
      <3> QED BY <1>2, <1>3, <1>4, <3>1, FrozenKeeps
    <2> QED BY <2>3, <2>4, <2>5 DEF IInv
  <1>5. CASE /\ ~(conflict \/ LeavesOut) /\ InCircles # {}
             /\ order' = <<Lowest(InCircles)>> /\ complete' = TRUE /\ at' = "circle"
             /\ UNCHANGED conflict
    <2>1. OneCircle /\ InCircles = Ids
      BY <1>5, WholeCircle
    <2>2. Ids \subseteq Nat /\ Ids # {}
      BY <1>1, <1>5, <2>1, Inputs DEF Typed
    <2>3. Lowest(Ids) \in Ids
      BY <2>2, LowestIs
    <2> DEFINE a == Lowest(Ids)
    <2>4. order' = <<a>>
      BY <1>5, <2>1
    <2>5. OneCircle' /\ Ids' = Ids
      BY <1>2, <2>1, FrozenCircles
    <2>6. a = Lowest(Ids)'
      BY <2>5 DEF Lowest
    <2>7. order' \in Seq(Ids)
      BY <2>3, <2>4
    <2> HIDE DEF a
    <2>8. RoundSoFar'
      BY <1>5, <2>4, <2>5, <2>6 DEF RoundSoFar, Apart
    <2>9. Walk' /\ NoTable'
      BY <1>2, <1>5, <2>8 DEF Walk, NoTable, Frozen
    <2>10. Typed' /\ OneNeighbourEachSide' /\ Truthful'
      BY <1>2, <1>3, <1>5, <2>7, FrozenKeeps
    <2> QED BY <2>9, <2>10 DEF IInv
  <1>6. CASE /\ ~(conflict \/ LeavesOut) /\ InCircles = {}
             /\ at' = "chains" /\ UNCHANGED <<conflict, result>>
    <2>1. NoCircle
      <3> SUFFICES ASSUME NEW U \in SUBSET Ids, ClosedBy(U), NEW u \in U PROVE FALSE
        BY DEF NoCircle
      <3> QED BY <1>1, <1>6, ClosedHoldsCircle DEF Typed
    <2>2. NoCircle'
      BY <1>2, <2>1, FrozenCircles
    <2>3. ChainsSoFar'
      BY <1>3, <1>6, <2>2 DEF ChainsSoFar, Apart, result
    <2>4. Walk' /\ NoTable'
      BY <1>2, <1>6, <2>3 DEF Walk, NoTable, Frozen
    <2>5. Typed' /\ OneNeighbourEachSide' /\ Truthful'
      <3>1. order' \in Seq(Ids) /\ complete' \in BOOLEAN /\ conflict' = conflict
        BY <1>3, <1>6 DEF result
      <3> QED BY <1>2, <1>3, <1>6, <3>1, FrozenKeeps
    <2> QED BY <2>4, <2>5 DEF IInv
  <1> QED BY <1>4, <1>5, <1>6 DEF Judge

-----------------------------------------------------------------------------
(***************************************************************************)
(* The walks.                                                              *)
(***************************************************************************)
\* One player more sits down, next clockwise of the last one.
LEMMA OneMoreSits ==
    ASSUME order \in Seq(Ids), NEW i \in Ids, order' = Append(order, i), Apart
    PROVE  /\ order' \in Seq(Ids) /\ Len(order) \in Nat /\ Len(order') = Len(order) + 1
           /\ DOMAIN order = 1..Len(order) /\ DOMAIN order' = 1..Len(order) + 1
           /\ \A k \in 1..Len(order) : order'[k] = order[k] /\ order[k] \in Ids
           /\ order'[Len(order) + 1] = i
           /\ Seated' = Seated \cup {i}
           /\ i \notin Seated => Apart'
  <1>1. /\ order' \in Seq(Ids) /\ Len(order) \in Nat /\ Len(order') = Len(order) + 1
        /\ DOMAIN order = 1..Len(order) /\ DOMAIN order' = 1..Len(order) + 1
        /\ \A k \in 1..Len(order) : order'[k] = order[k] /\ order[k] \in Ids
        /\ order'[Len(order) + 1] = i
    OBVIOUS
  <1>2. \A k \in 1..Len(order) + 1 : k \in 1..Len(order) \/ k = Len(order) + 1
    BY <1>1
  <1>3. Len(order) + 1 \in 1..Len(order) + 1 /\ 1..Len(order) \subseteq 1..Len(order) + 1
    BY <1>1
  <1>4. Seated' = Seated \cup {i}
    BY <1>1, <1>2, <1>3 DEF Seated
  <1>5. ASSUME i \notin Seated, NEW k \in 1..Len(order) + 1, NEW l \in 1..Len(order) + 1,
               order'[k] = order'[l]
        PROVE  k = l
    <2>1. \A j \in 1..Len(order) : order'[j] # i
      BY <1>1, <1>5 DEF Seated
    <2>2. \A j, m \in 1..Len(order) : order[j] = order[m] => j = m
      BY <1>1 DEF Apart
    <2> QED BY <1>1, <1>2, <1>5, <2>1, <2>2
  <1>6. i \notin Seated => Apart'
    BY <1>1, <1>5 DEF Apart
  <1> QED BY <1>1, <1>4, <1>6

\* A step of a walk keeps the invariant if the next stage may rely on the order.
LEMMA WalkOn ==
    ASSUME IInv, at \in {"circle", "chains", "unplaced"},
           UNCHANGED <<claims, todo, graph, conflict, complete>>,
           at' \in {"circle", "chains", "unplaced", "done"}, order' \in Seq(Ids),
           /\ at' = "circle" => RoundSoFar'
           /\ at' = "chains" => ChainsSoFar'
           /\ at' = "unplaced" => ChainsSeated'
           /\ at' = "done" => \/ (RoundSoFar /\ succ[Last] = order[1])'
                              \/ (ChainsSeated /\ Seated = Ids)'
    PROVE  IInv'
  <1>1. Frozen /\ UNCHANGED <<conflict, complete>>
    BY DEF Frozen, graph
  <1>2. ~conflict /\ todo = {} /\ conflict \in BOOLEAN /\ complete \in BOOLEAN
    BY DEF IInv, NoTable, Walk, Typed
  <1>3. Typed' /\ OneNeighbourEachSide' /\ Truthful'
    BY <1>1, <1>2, FrozenKeeps
  <1>4. NoTable'
    BY <1>1, <1>2 DEF NoTable
  <1>5. Walk'
    BY <1>1, <1>2 DEF Walk, Frozen
  <1> QED BY <1>3, <1>4, <1>5 DEF IInv

\* What is known on the way.
LEMMA OnTheWay ==
    ASSUME IInv
    PROVE  /\ order \in Seq(Ids) /\ Len(order) \in Nat /\ DOMAIN order = 1..Len(order)
           /\ \A k \in 1..Len(order) : order[k] \in Ids
           /\ order # <<>> => Len(order) \in 1..Len(order) /\ Last \in Seated
           /\ \A i \in DOMAIN succ : i \in Ids /\ succ[i] \in Ids
           /\ \A i, j \in DOMAIN succ : succ[i] = succ[j] => i = j
           /\ \A i \in DOMAIN succ : succ[i] \in DOMAIN pred /\ pred[succ[i]] = i
           /\ \A i \in DOMAIN pred : i \in Ids /\ pred[i] \in DOMAIN succ /\ succ[pred[i]] = i
  <1>1. order \in Seq(Ids) /\ OneNeighbourEachSide /\ IsPartial(succ) /\ IsPartial(pred)
    BY DEF IInv, Typed
  <1>2. Len(order) \in Nat /\ DOMAIN order = 1..Len(order)
        /\ \A k \in 1..Len(order) : order[k] \in Ids
    BY <1>1
  <1>3. order # <<>> => Len(order) \in 1..Len(order)
    BY <1>1, <1>2
  <1> QED BY <1>1, <1>2, <1>3 DEF OneNeighbourEachSide, IsPartial, Last, Seated

LEMMA CircleKeeps ==
    ASSUME IInv, Circle
    PROVE  IInv'
  <1>1. RoundSoFar /\ at = "circle" /\ Apart /\ OneCircle /\ complete /\ order # <<>>
    BY DEF IInv, Walk, NoTable, Circle, RoundSoFar
  <1>2. Last \in DOMAIN succ
    BY <1>1, OnTheWay DEF OneCircle, Last
  <1>3. CASE succ[Last] # order[1] /\ Sit(succ[Last])
    <2> DEFINE i == succ[Last]
               n == Len(order)
    <2>1. order' = Append(order, i) /\ i \in Ids
      BY <1>2, <1>3, OnTheWay DEF Sit
    <2>2. UNCHANGED <<claims, todo, graph, conflict, complete, at>> /\ Frozen
      BY <1>3 DEF Sit, Frozen, graph
    <2>3. ASSUME NEW k \in DOMAIN order PROVE order[k] # i
      <3> SUFFICES ASSUME order[k] = i PROVE FALSE
        OBVIOUS
      <3>1. k \in 1..n /\ n \in Nat /\ k # 1
        BY <1>3, OnTheWay
      <3>2. order[k] = succ[order[k-1]] /\ k - 1 \in 1..n
        BY <1>1, <3>1 DEF RoundSoFar
      <3>3. order[k-1] \in DOMAIN succ
        BY <1>1, <3>2, OnTheWay DEF OneCircle
      <3>4. order[k-1] = order[n]
        <4>1. succ[order[k-1]] = succ[Last]
          BY <3>2
        <4>2. order[k-1] = Last
          BY <1>2, <3>3, <4>1, OnTheWay
        <4> QED BY <4>2 DEF Last
      <3>5. n \in DOMAIN order /\ k - 1 \in DOMAIN order
        BY <1>1, <3>2, OnTheWay
      <3>6. k - 1 = n
        BY <1>1, <3>4, <3>5 DEF Apart
      <3> QED BY <3>1, <3>6
    <2>4. i \notin Seated
      BY <2>3 DEF Seated
    <2> HIDE DEF i
    <2>5. /\ order' \in Seq(Ids) /\ n \in Nat /\ Len(order') = n + 1
          /\ DOMAIN order = 1..n /\ DOMAIN order' = 1..n + 1
          /\ \A k \in 1..n : order'[k] = order[k]
          /\ order'[n + 1] = i /\ Apart'
      BY <1>1, <2>1, <2>4, OnTheWay, OneMoreSits
    <2>6. n \in 1..n /\ 1 \in 1..n
      BY <1>1, <2>5, OnTheWay
    <2>7. ASSUME NEW k \in 1..n + 1, k > 1 PROVE order'[k] = succ[order'[k-1]]
      <3> HIDE DEF n
      <3>1. CASE k \in 1..n
        <4>1. k - 1 \in 1..n
          BY <2>5, <2>7, <3>1
        <4> QED BY <1>1, <2>5, <2>7, <3>1, <4>1 DEF RoundSoFar
      <3>2. CASE k = n + 1
        <4>1. k - 1 = n
          BY <2>5, <3>2
        <4> QED BY <2>5, <2>6, <3>2, <4>1 DEF i, n, Last
      <3> QED BY <2>5, <2>7, <3>1, <3>2
    <2>8. OneCircle' /\ Lowest(Ids)' = Lowest(Ids)
      BY <1>1, <2>2, FrozenCircles DEF Lowest
    <2>9. order' # <<>> /\ order'[1] = order[1]
      BY <2>5, <2>6
    <2>10. RoundSoFar'
      BY <1>1, <2>2, <2>5, <2>7, <2>8, <2>9 DEF RoundSoFar, Frozen
    <2> QED BY <1>1, <2>2, <2>5, <2>10, WalkOn
  <1>4. CASE succ[Last] = order[1] /\ Become("done")
    <2>1. UNCHANGED <<claims, todo, graph, conflict, complete, order>> /\ Frozen /\ at' = "done"
      BY <1>4 DEF Become, Frozen, graph, result
    <2>2. RoundSoFar'
      BY <1>1, <2>1, FrozenCircles DEF RoundSoFar, Apart, Frozen, Lowest
    <2>3. (succ[Last] = order[1])'
      BY <1>4, <2>1 DEF Last, Frozen
    <2>4. order' \in Seq(Ids)
      BY <2>1, OnTheWay
    <2> QED BY <1>1, <2>1, <2>2, <2>3, <2>4, WalkOn
  <1> QED BY <1>3, <1>4 DEF Circle

\* Some chain that has not been walked has the smallest member of these.
LEMMA NextChainIs ==
    ASSUME IInv, ChainStarts # {}
    PROVE  NextChain \in ChainStarts
  <1>1. \A i \in ChainStarts : i \in Ids /\ Reach(i) \subseteq Ids /\ i \in Reach(i)
    <2> TAKE i \in ChainStarts
    <2>1. i \in Ids
      BY OnTheWay DEF ChainStarts
    <2> QED BY <2>1, Reached DEF IInv, Typed
  <1>2. Ids \subseteq Nat
    BY Inputs DEF IInv, Typed
  <1>3. \A i \in ChainStarts : Lowest(Reach(i)) \in Nat
    <2> TAKE i \in ChainStarts
    <2>1. Reach(i) \subseteq Nat /\ Reach(i) # {}
      BY <1>1, <1>2
    <2> QED BY <2>1, LowestIs
  <1> DEFINE L == {Lowest(Reach(i)) : i \in ChainStarts}
  <1>4. L \subseteq Nat /\ L # {}
    BY <1>3
  <1>5. PICK m \in L : \A l \in L : m <= l
    <2> HIDE DEF L
    <2> QED BY <1>4, LeastExists
  <1>6. \E i \in ChainStarts : \A j \in ChainStarts : Lowest(Reach(i)) <= Lowest(Reach(j))
    BY <1>5
  <1> QED BY <1>6 DEF NextChain

\* When no chain is left to begin, everybody with an edge is seated: those left
\* over would hold a circle.
LEMMA NobodyLeftOver ==
    ASSUME IInv, at = "chains", ChainStarts = {},
           order # <<>> => Last \notin DOMAIN succ
    PROVE  ChainsSeated
  <1>1. ChainsSoFar
    BY DEF IInv, Walk, NoTable
  <1>2. Len(order) \in Nat /\ DOMAIN order = 1..Len(order)
    BY OnTheWay
  <1>3. ASSUME NEW k \in DOMAIN order, order[k] \in DOMAIN succ
        PROVE  k < Len(order) /\ order[k+1] = succ[order[k]] /\ succ[order[k]] \in Seated
    <2>1. order # <<>>
      BY <1>2, <1>3
    <2>2. k # Len(order)
      BY <1>3, <2>1 DEF Last
    <2>3. k < Len(order) /\ k + 1 \in DOMAIN order
      BY <1>2, <2>2
    <2> QED BY <1>1, <1>3, <2>3 DEF ChainsSoFar, Seated
  <1> DEFINE U == DOMAIN succ \ Seated
  <1>4. ASSUME NEW i \in U PROVE i \in DOMAIN pred /\ pred[i] \in U /\ succ[pred[i]] = i
    <2>1. i \in DOMAIN succ /\ i \notin Seated
      OBVIOUS
    <2>2. i \in DOMAIN pred
      BY <2>1 DEF ChainStarts
    <2>3. pred[i] \in DOMAIN succ /\ succ[pred[i]] = i
      BY <2>2, OnTheWay
    <2>4. pred[i] \notin Seated
      <3> SUFFICES ASSUME NEW k \in DOMAIN order, order[k] = pred[i] PROVE FALSE
        BY DEF Seated
      <3> QED BY <1>3, <2>1, <2>3
    <2> QED BY <2>2, <2>3, <2>4
  <1>5. U \in SUBSET Ids
    BY OnTheWay
  <1>6. IsFiniteSet(U)
    <2>1. IsFiniteSet(Ids)
      BY Inputs DEF IInv, Typed
    <2> QED BY <1>5, <2>1, FS_Subset
  <1> HIDE DEF U
  <1> DEFINE f == [i \in U |-> pred[i]]
  <1>7. f \in [U -> U] /\ \A i \in U : f[i] = pred[i]
    BY <1>4
  <1> HIDE DEF f
  <1>8. \A i, j \in U : f[i] = f[j] => i = j
    BY <1>4, <1>7
  <1>9. \A j \in U : \E i \in U : f[i] = j
    BY <1>6, <1>7, <1>8, EverybodyIsNext
  <1>10. \A j \in U : j \in DOMAIN succ /\ succ[j] \in U
    <2> TAKE j \in U
    <2>1. PICK i \in U : f[i] = j
      BY <1>9
    <2>2. pred[i] = j /\ succ[j] = i
      BY <1>4, <1>7, <2>1
    <2> QED BY <2>1, <2>2 DEF U
  <1>11. U = {}
    BY <1>1, <1>5, <1>10 DEF ChainsSoFar, NoCircle, ClosedBy
  <1>12. DOMAIN succ \subseteq Seated
    BY <1>11 DEF U
  <1>13. ASSUME NEW i \in DOMAIN pred PROVE i \in Seated
    <2>1. pred[i] \in DOMAIN succ /\ succ[pred[i]] = i
      BY OnTheWay
    <2>2. PICK k \in DOMAIN order : order[k] = pred[i]
      BY <1>12, <2>1 DEF Seated
    <2> QED BY <1>3, <2>1, <2>2
  <1> QED BY <1>1, <1>3, <1>12, <1>13 DEF ChainsSeated, ChainsSoFar

\* One more sits down in a chain: next to the player they follow, if they follow one.
LEMMA ChainGrows ==
    ASSUME IInv, at = "chains", NEW i \in Ids, Sit(i), i \notin Seated,
           i \in DOMAIN pred => order # <<>> /\ Last = pred[i],
           order # <<>> /\ Last \in DOMAIN succ => i = succ[Last]
    PROVE  IInv'
  <1> DEFINE n == Len(order)
  <1>1. ChainsSoFar /\ Apart /\ NoCircle /\ ~complete
    BY DEF IInv, Walk, NoTable, ChainsSoFar
  <1>2. order' = Append(order, i) /\ order \in Seq(Ids)
        /\ UNCHANGED <<claims, todo, graph, conflict, complete, at>> /\ Frozen
    BY OnTheWay DEF Sit, Frozen, graph
  <1>3. /\ order' \in Seq(Ids) /\ n \in Nat /\ Len(order') = n + 1
        /\ DOMAIN order = 1..n /\ DOMAIN order' = 1..n + 1
        /\ \A k \in 1..n : order'[k] = order[k]
        /\ order'[n + 1] = i /\ Apart'
    BY <1>1, <1>2, OneMoreSits
  <1>4. order # <<>> <=> n # 0
    BY <1>2
  <1>5. ASSUME NEW k \in 1..n + 1, order'[k] \in DOMAIN pred
        PROVE  k > 1 /\ order'[k-1] = pred[order'[k]]
    <2>1. CASE k = n + 1
      <3>1. n \in 1..n /\ k - 1 = n /\ order[n] = pred[i]
        BY <1>3, <1>4, <1>5, <2>1 DEF Last
      <3> HIDE DEF n
      <3> QED BY <1>3, <2>1, <3>1
    <2>2. CASE k \in 1..n
      <3>1. k > 1 /\ order[k-1] = pred[order[k]]
        BY <1>1, <1>3, <1>5, <2>2 DEF ChainsSoFar
      <3>2. k - 1 \in 1..n
        BY <1>3, <2>2, <3>1
      <3> HIDE DEF n
      <3> QED BY <1>3, <2>2, <3>1, <3>2
    <2> HIDE DEF n
    <2> QED BY <1>3, <2>1, <2>2
  <1>6. ASSUME NEW k \in 1..n + 1, order'[k] \in DOMAIN succ, k < n + 1
        PROVE  order'[k+1] = succ[order'[k]]
    <2>1. k \in 1..n
      BY <1>3, <1>6
    <2>2. CASE k = n
      <3>1. order[n] \in DOMAIN succ /\ n # 0
        BY <1>3, <1>6, <2>1, <2>2
      <3>2. i = succ[order[n]]
        BY <1>4, <3>1 DEF Last
      <3> HIDE DEF n
      <3> QED BY <1>3, <2>1, <2>2, <3>2
    <2>3. CASE k # n
      <3>1. k < n /\ k + 1 \in 1..n
        <4>1. n \in Nat
          BY <1>3
        <4> HIDE DEF n
        <4> QED BY <2>1, <2>3, <4>1
      <3>2. order[k+1] = succ[order[k]]
        BY <1>1, <1>3, <1>6, <2>1, <3>1 DEF ChainsSoFar
      <3> HIDE DEF n
      <3> QED BY <1>3, <2>1, <3>1, <3>2
    <2> QED BY <2>2, <2>3
  <1>7. NoCircle'
    BY <1>1, <1>2, FrozenCircles
  <1>8. succ' = succ /\ pred' = pred /\ complete' = complete
    BY <1>2 DEF Frozen
  <1> HIDE DEF n
  <1>9. ChainsSoFar'
    BY <1>1, <1>3, <1>5, <1>6, <1>7, <1>8 DEF ChainsSoFar
  <1> QED BY <1>2, <1>3, <1>9, WalkOn

LEMMA ChainsKeep ==
    ASSUME IInv, Chains
    PROVE  IInv'
  <1>1. at = "chains" /\ ChainsSoFar /\ Apart
    BY DEF IInv, Walk, NoTable, Chains, ChainsSoFar
  <1>2. CASE order # <<>> /\ Last \in DOMAIN succ /\ Sit(succ[Last])
    <2> DEFINE i == succ[Last]
               n == Len(order)
    <2>1. i \in Ids /\ i \in DOMAIN pred /\ pred[i] = Last
      BY <1>2, OnTheWay
    <2>2. ASSUME NEW k \in DOMAIN order, order[k] = i PROVE FALSE
      <3>1. k > 1 /\ order[k-1] = order[n]
        BY <1>1, <2>1, <2>2 DEF ChainsSoFar, Last
      <3>2. n \in DOMAIN order /\ k - 1 \in DOMAIN order /\ k \in 1..n /\ n \in Nat
        BY <1>2, <3>1, OnTheWay
      <3>3. k - 1 = n
        BY <1>1, <3>1, <3>2 DEF Apart
      <3> QED BY <3>2, <3>3
    <2>3. i \notin Seated
      BY <2>2 DEF Seated
    <2>4. Sit(i)
      BY <1>2
    <2> HIDE DEF i
    <2> QED BY <1>1, <1>2, <2>1, <2>3, <2>4, ChainGrows DEF i
  <1>3. CASE ~(order # <<>> /\ Last \in DOMAIN succ) /\ ChainStarts # {} /\ Sit(NextChain)
    <2>1. NextChain \in ChainStarts
      BY <1>3, NextChainIs
    <2>2. NextChain \in Ids /\ NextChain \notin DOMAIN pred /\ NextChain \notin Seated
      BY <2>1, OnTheWay DEF ChainStarts
    <2> QED BY <1>1, <1>3, <2>2, ChainGrows
  <1>4. CASE ~(order # <<>> /\ Last \in DOMAIN succ) /\ ChainStarts = {} /\ Become("unplaced")
    <2>1. UNCHANGED <<claims, todo, graph, conflict, complete, order>> /\ Frozen /\ at' = "unplaced"
      BY <1>4 DEF Become, Frozen, graph, result
    <2>2. ChainsSeated
      BY <1>1, <1>4, NobodyLeftOver
    <2>3. ChainsSeated'
      BY <2>1, <2>2 DEF ChainsSeated, Apart, Seated, Frozen
    <2>4. order' \in Seq(Ids)
      BY <2>1, OnTheWay
    <2> QED BY <1>1, <2>1, <2>3, <2>4, WalkOn
  <1> QED BY <1>2, <1>3, <1>4 DEF Chains

LEMMA UnplacedKeeps ==
    ASSUME IInv, Unplaced
    PROVE  IInv'
  <1> DEFINE rest == Ids \ (DOMAIN succ \cup DOMAIN pred \cup Seated)
             n == Len(order)
  <1>1. at = "unplaced" /\ ChainsSeated /\ Apart /\ ~complete
    BY DEF IInv, Walk, NoTable, Unplaced, ChainsSeated
  <1>2. CASE rest # {} /\ Sit(Lowest(rest))
    <2> DEFINE i == Lowest(rest)
    <2>1. rest \subseteq Nat
      BY Inputs DEF IInv, Typed
    <2>2. i \in rest
      <3> HIDE DEF rest
      <3> QED BY <1>2, <2>1, LowestIs
    <2>3. i \in Ids /\ i \notin DOMAIN succ /\ i \notin Seated
      BY <2>2
    <2>4. order' = Append(order, i) /\ order \in Seq(Ids)
          /\ UNCHANGED <<claims, todo, graph, conflict, complete, at>> /\ Frozen
      BY <1>2, OnTheWay DEF Sit, Frozen, graph
    <2> HIDE DEF i, rest
    <2>5. /\ order' \in Seq(Ids) /\ n \in Nat /\ Len(order') = n + 1
          /\ DOMAIN order = 1..n /\ DOMAIN order' = 1..n + 1
          /\ \A k \in 1..n : order'[k] = order[k]
          /\ order'[n + 1] = i /\ Apart' /\ Seated' = Seated \cup {i}
      BY <1>1, <2>3, <2>4, OneMoreSits
    <2>6. ASSUME NEW k \in 1..n + 1, order'[k] \in DOMAIN succ
          PROVE  k < n + 1 /\ order'[k+1] = succ[order'[k]]
      <3>1. k \in 1..n
        <4>1. k # n + 1
          BY <2>3, <2>5, <2>6
        <4>2. n \in Nat
          BY <2>5
        <4> HIDE DEF n
        <4> QED BY <4>1, <4>2
      <3>2. k < n /\ order[k+1] = succ[order[k]]
        BY <1>1, <2>5, <2>6, <3>1 DEF ChainsSeated
      <3>3. k + 1 \in 1..n /\ k < n + 1
        BY <2>5, <3>1, <3>2
      <3> HIDE DEF n
      <3> QED BY <2>5, <3>1, <3>2, <3>3
    <2>7. succ' = succ /\ pred' = pred /\ complete' = complete
      BY <2>4 DEF Frozen
    <2> HIDE DEF n
    <2>8. ChainsSeated'
      BY <1>1, <2>5, <2>6, <2>7 DEF ChainsSeated
    <2> QED BY <1>1, <2>4, <2>5, <2>8, WalkOn
  <1>3. CASE rest = {} /\ Become("done")
    <2>1. UNCHANGED <<claims, todo, graph, conflict, complete, order>> /\ Frozen /\ at' = "done"
      BY <1>3 DEF Become, Frozen, graph, result
    <2>2. Seated \subseteq Ids
      BY OnTheWay DEF Seated
    <2>3. Seated = Ids
      BY <1>1, <1>3, <2>2 DEF ChainsSeated
    <2>4. ChainsSeated' /\ (Seated = Ids)'
      BY <1>1, <2>1, <2>3, FrozenCircles DEF ChainsSeated, Apart, Seated, Frozen
    <2>5. order' \in Seq(Ids)
      BY <2>1, OnTheWay
    <2> QED BY <1>1, <2>1, <2>4, <2>5, WalkOn
  <1> QED BY <1>2, <1>3 DEF Unplaced

-----------------------------------------------------------------------------
(***************************************************************************)
(* The invariant holds.                                                    *)
(***************************************************************************)
LEMMA InitInv == Init => IInv
  <1> SUFFICES ASSUME Init PROVE IInv
    OBVIOUS
  <1>1. /\ claims \in Claims /\ order = <<>> /\ complete = FALSE /\ conflict = FALSE
        /\ DOMAIN succ = {} /\ DOMAIN pred = {}
        /\ at = IF Ids = {} THEN "done" ELSE "edges"
        /\ todo = {x \in Ids \X Side : PickOf(x) # 0}
    BY DEF Init
  <1>2. IsPartial(succ) /\ IsPartial(pred)
    BY DEF Init, IsPartial
  <1>3. Typed
    <2>1. /\ at \in {"edges", "circle", "chains", "unplaced", "done"}
          /\ conflict \in BOOLEAN /\ complete \in BOOLEAN
      BY <1>1
    <2>2. todo \subseteq Ids \X Side /\ \A x \in todo : PickOf(x) # 0
      BY <1>1
    <2>3. order \in Seq(Ids)
      BY <1>1
    <2> QED BY <1>1, <1>2, <2>1, <2>2, <2>3 DEF Typed
  <1>4. OneNeighbourEachSide /\ Truthful /\ NoTable
    BY <1>1 DEF OneNeighbourEachSide, Truthful, NoTable
  <1>5. at # "edges" => todo = {} /\ Ids = {}
    BY <1>1
  <1>6. ChainsSeated /\ Seated = {}
    BY <1>1 DEF ChainsSeated, Apart, Seated
  <1>7. Walk
    BY <1>1, <1>5, <1>6 DEF Walk
  <1> QED BY <1>3, <1>4, <1>7 DEF IInv

LEMMA StepInv == IInv /\ [Next]_vars => IInv'
  <1> SUFFICES ASSUME IInv, [Next]_vars PROVE IInv'
    OBVIOUS
  <1>1. CASE AddEdge
    BY <1>1, AddEdgeKeeps
  <1>2. CASE Refuse
    BY <1>2, RefuseKeeps
  <1>3. CASE Judge
    BY <1>3, JudgeKeeps
  <1>4. CASE Circle
    BY <1>4, CircleKeeps
  <1>5. CASE Chains
    BY <1>5, ChainsKeep
  <1>6. CASE Unplaced
    BY <1>6, UnplacedKeeps
  <1>7. CASE UNCHANGED vars
    <2>1. UNCHANGED <<claims, at, conflict, order, complete>> /\ Frozen
      BY <1>7 DEF vars, Frozen
    <2>2. Typed /\ NoTable /\ Walk
      BY DEF IInv
    <2>3. Typed' /\ OneNeighbourEachSide' /\ Truthful'
      <3>1. conflict \in BOOLEAN /\ complete \in BOOLEAN /\ order \in Seq(Ids)
            /\ at \in {"edges", "circle", "chains", "unplaced", "done"}
        BY <2>2 DEF Typed
      <3> QED BY <2>1, <3>1, FrozenKeeps
    <2>4. NoTable'
      <3>1. NoneSuits => NoneSuits'
        BY <2>1, SameClaims
      <3> QED BY <2>1, <2>2, <3>1 DEF NoTable
    <2>5. /\ RoundSoFar => RoundSoFar'
          /\ ChainsSoFar => ChainsSoFar'
          /\ ChainsSeated => ChainsSeated'
      BY <2>1, FrozenCircles
         DEF RoundSoFar, ChainsSoFar, ChainsSeated, Apart, Seated, Frozen, Lowest
    <2>6. /\ (succ[Last] = order[1]) => (succ[Last] = order[1])'
          /\ (Seated = Ids) => (Seated = Ids)'
      BY <2>1, FrozenCircles DEF Last, Seated, Frozen
    <2>7. Walk'
      BY <2>1, <2>2, <2>5, <2>6 DEF Walk, Frozen
    <2> QED BY <2>3, <2>4, <2>7 DEF IInv
  <1> QED BY <1>1, <1>2, <1>3, <1>4, <1>5, <1>6, <1>7 DEF Next

LEMMA Always == Spec => []IInv
  BY InitInv, StepInv, PTL DEF Spec

-----------------------------------------------------------------------------
(***************************************************************************)
(* What follows from it.                                                   *)
(***************************************************************************)
LEMMA NobodyTwice ==
    ASSUME IInv
    PROVE  Apart /\ Seated \subseteq Ids /\ Cardinality(Seated) = Len(order)
  <1> DEFINE n == Len(order)
  <1>1. Apart
    <2>1. order = <<>> => Apart
      BY DEF Apart
    <2> QED BY <2>1 DEF IInv, Typed, NoTable, Walk, RoundSoFar, ChainsSoFar, ChainsSeated
  <1>2. order \in Seq(Ids) /\ n \in Nat /\ DOMAIN order = 1..n
    BY OnTheWay
  <1>3. Seated \subseteq Ids
    BY OnTheWay DEF Seated
  <1>4. order \in [1..n -> Seated]
    BY <1>2 DEF Seated
  <1> HIDE DEF n
  <1>5. order \in Bijection(1..n, Seated)
    BY <1>1, <1>2, <1>4 DEF Bijection, Injection, Surjection, IsInjective, Apart, Seated
  <1>6. ExistsBijection(1..n, Seated)
    BY <1>5 DEF ExistsBijection
  <1>7. Cardinality(Seated) = n
    BY <1>2, <1>6, FS_CountingElements
  <1> QED BY <1>1, <1>3, <1>7 DEF n

\* When all is done without a conflict everybody is seated, and clockwise of
\* whoever has an edge sits the player the edge names.
LEMMA Finished ==
    ASSUME IInv, at = "done", ~conflict
    PROVE  /\ Seated = Ids
           /\ \A k \in 1..Len(order) : order[k] \in DOMAIN succ =>
                 order[(k % Len(order)) + 1] = succ[order[k]]
           /\ \/ RoundSoFar
              \/ ~complete /\ (order # <<>> => order[Len(order)] \notin DOMAIN succ)
  <1> DEFINE n == Len(order)
  <1>1. order \in Seq(Ids) /\ n \in Nat /\ DOMAIN order = 1..n
        /\ \A k \in 1..n : order[k] \in Ids
    BY OnTheWay
  <1>2. \A k \in 1..n : (k % n) + 1 = IF k = n THEN 1 ELSE k + 1
    <2> TAKE k \in 1..n
    <2>1. n \in Nat \ {0}
      BY <1>1
    <2> QED BY <2>1, NextSeat
  <1>3. CASE RoundSoFar /\ succ[Last] = order[1]
    <2>1. OneCircle /\ order # <<>> /\ 1 \in 1..n
      BY <1>1, <1>3 DEF RoundSoFar
    <2>2. ASSUME NEW k \in 1..n PROVE order[(k % n) + 1] = succ[order[k]]
      <3>1. CASE k = n
        BY <1>2, <1>3, <3>1 DEF Last
      <3>2. CASE k # n
        <4>1. k + 1 \in DOMAIN order /\ k + 1 > 1 /\ (k + 1) - 1 = k
          <5>1. n \in Nat /\ DOMAIN order = 1..n
            BY <1>1
          <5> HIDE DEF n
          <5> QED BY <3>2, <5>1
        <4>2. order[k + 1] = succ[order[k]]
          BY <1>3, <4>1 DEF RoundSoFar
        <4> QED BY <1>2, <3>2, <4>2
      <3> QED BY <3>1, <3>2
    <2>3. Seated \in SUBSET Ids /\ Seated # {}
      BY <1>1, <2>1 DEF Seated
    <2>4. ASSUME NEW i \in Seated PROVE i \in DOMAIN succ /\ succ[i] \in Seated
      <3>1. PICK k \in 1..n : order[k] = i
        BY <1>1 DEF Seated
      <3>2. (k % n) + 1 \in 1..n
        <4>1. n \in Nat /\ 1 \in 1..n
          BY <1>1, <2>1
        <4> HIDE DEF n
        <4> QED BY <1>2, <4>1
      <3>3. order[(k % n) + 1] = succ[i]
        BY <2>2, <3>1
      <3>4. i \in DOMAIN succ
        BY <2>1, <2>3 DEF OneCircle
      <3> QED BY <1>1, <3>2, <3>3, <3>4 DEF Seated
    <2>5. Seated = Ids
      BY <2>1, <2>3, <2>4 DEF OneCircle, ClosedBy
    <2> QED BY <1>3, <2>2, <2>5
  <1>4. CASE ChainsSeated /\ Seated = Ids
    <2>1. ASSUME NEW k \in 1..n, order[k] \in DOMAIN succ
          PROVE  k < n /\ order[(k % n) + 1] = succ[order[k]]
      <3>1. k < n /\ order[k+1] = succ[order[k]]
        BY <1>1, <1>4, <2>1 DEF ChainsSeated
      <3>2. (k % n) + 1 = k + 1
        BY <1>1, <1>2, <3>1
      <3> QED BY <3>1, <3>2
    <2>2. order # <<>> => n \in 1..n
      BY <1>1
    <2>3. order # <<>> => order[n] \notin DOMAIN succ
      BY <1>1, <2>1, <2>2
    <2> QED BY <1>4, <2>1, <2>3 DEF ChainsSeated
  <1> QED BY <1>3, <1>4 DEF IInv, Walk

LEMMA FinishedSuits ==
    ASSUME IInv, at = "done", ~conflict
    PROVE  Seated = Ids /\ Suits(order)
  <1>1. Seated = Ids /\ \A k \in 1..Len(order) : order[k] \in DOMAIN succ =>
                 order[(k % Len(order)) + 1] = succ[order[k]]
    BY Finished
  <1>2. ASSUME NEW i \in DOMAIN succ PROVE Beside(order, i, succ[i])
    <2>1. i # succ[i] /\ i \in Seated
      BY <1>1, OnTheWay DEF IInv, OneNeighbourEachSide
    <2>2. PICK k \in DOMAIN order : order[k] = i
      BY <2>1 DEF Seated
    <2>3. k \in 1..Len(order)
      BY <2>2, OnTheWay
    <2> QED BY <1>1, <2>1, <2>2, <2>3 DEF Beside
  <1>3. \A x \in Ids \X Side : PickOf(x) # 0 => Held(Edge(x))
    BY DEF IInv, Truthful, Walk
  <1>4. ASSUME NEW i \in Ids, claims[i].left # 0 PROVE Beside(order, i, claims[i].left)
    <2>1. Held(<<i, claims[i].left>>)
      BY <1>3, <1>4, EdgeOf
    <2> QED BY <1>2, <2>1 DEF Held
  <1>5. ASSUME NEW i \in Ids, claims[i].right # 0 PROVE Beside(order, claims[i].right, i)
    <2>1. Held(<<claims[i].right, i>>)
      BY <1>3, <1>5, EdgeOf
    <2> QED BY <1>2, <2>1 DEF Held
  <1> QED BY <1>1, <1>4, <1>5 DEF Suits

\* A finished circle is a table, and there is no other one the picks suit.
LEMMA TheTable ==
    ASSUME IInv, at = "done", ~conflict, RoundSoFar
    PROVE  {t \in Tables : Suits(t)} = {order}
  <1> DEFINE n == Len(order)
  <1>1. Seated = Ids /\ Suits(order)
    BY FinishedSuits
  <1>2. /\ order \in Seq(Ids) /\ n \in Nat /\ DOMAIN order = 1..n
        /\ order # <<>> /\ order[1] = Lowest(Ids) /\ Count = n
        /\ \A k, l \in DOMAIN order : order[k] = order[l] => k = l
    BY <1>1, NobodyTwice, OnTheWay DEF RoundSoFar, Count, Apart
  <1>3. claims \in Claims /\ Ids # {} /\ n # 0
    BY <1>1, <1>2 DEF IInv, Typed, Seated
  <1>4. order \in Tables
    <2>1. order \in [1..Cardinality(Ids) -> Ids]
      BY <1>2 DEF Count
    <2> QED BY <1>2, <2>1 DEF Tables
  <1>5. ASSUME NEW t \in Tables, Suits(t) PROVE t = order
    <2>1. t \in [1..n -> Ids] /\ t[1] = order[1]
      BY <1>2, <1>3, AtTables
    <2> DEFINE D == {k \in 1..n : t[k] # order[k]}
    <2>2. ASSUME D # {} PROVE FALSE
      <3>1. D \subseteq Nat
        OBVIOUS
      <3>2. PICK d \in D : \A k \in D : d <= k
        <4> HIDE DEF D
        <4> QED BY <2>2, <3>1, LeastExists
      <3>3. d \in 1..n /\ t[d] # order[d]
        OBVIOUS
      <3>4. d # 1
        BY <2>1, <3>3
      <3>5. d - 1 \in 1..n /\ d \in Nat /\ d - 1 # n /\ (d - 1) + 1 = d
        BY <1>2, <3>3, <3>4
      <3>6. d - 1 \notin D
        BY <3>2, <3>5
      <3>7. t[d-1] = order[d-1]
        BY <3>5, <3>6
      <3>8. order[d] = succ[order[d-1]]
        <4>1. d \in DOMAIN order /\ d > 1
          BY <1>2, <3>3, <3>4, <3>5
        <4> QED BY <4>1 DEF RoundSoFar
      <3> DEFINE i == order[d-1]
      <3>9. i \in DOMAIN succ /\ i \in Ids /\ succ[i] \in Ids /\ Picked(i, succ[i])
        BY <3>5, OnTheWay DEF RoundSoFar, OneCircle, IInv, Truthful
      <3>10. Beside(t, i, succ[i])
        BY <1>3, <1>5, <3>9, SuitedPicks
      <3> HIDE DEF i, D
      <3>11. t[d-1] = i
        BY <3>7 DEF i
      <3>12. t[((d - 1) % Count) + 1] = succ[i]
        BY <1>2, <1>3, <3>5, <3>10, <3>11, BesideOne
      <3>13. ((d - 1) % n) + 1 = d
        <4>1. n \in Nat \ {0}
          BY <1>2, <1>3
        <4> HIDE DEF n
        <4> QED BY <3>5, <4>1, NextSeat
      <3> QED BY <1>2, <3>3, <3>8, <3>12, <3>13 DEF i
    <2>3. \A k \in 1..n : t[k] = order[k]
      BY <2>2
    <2>4. order \in [1..n -> Ids]
      BY <1>2
    <2> QED BY <2>1, <2>3, <2>4
  <1> QED BY <1>1, <1>4, <1>5

\* Type correctness: the seating only ever grows by players who do not sit yet,
\* so the loops of computeSeating that follow the edges come to an end.
THEOREM TypeCorrect == Spec => []TypeOK
  <1>1. ASSUME IInv PROVE TypeOK
    <2>1. claims \in [Ids -> [left : Nat, right : Nat]]
      BY <1>1, Inputs DEF IInv, Typed
    <2> QED BY <1>1, <2>1, NobodyTwice DEF IInv, Typed, TypeOK
  <1> QED BY <1>1, Always, PTL

\* "succ is injective (pred enforces a single predecessor)", whatever the picks
\* are and in every state of the walk: the comment above the search for cycles
\* in computeSeating, which is only correct because of it.
THEOREM NeighboursAreInverse == Spec => []OneNeighbourEachSide
  <1>1. IInv => OneNeighbourEachSide
    BY DEF IInv
  <1> QED BY <1>1, Always, PTL

\* "conflicts lists contradictions only" and "order covers ALL claims whenever
\* the picks hold no contradiction": where the picks are true at some table the
\* answer of computeSeating seats everybody so that all of them are true; where
\* they are true at none it reports a conflict and no order.
THEOREM RightlySeated == Spec => []RightTable
  <1>1. ASSUME IInv PROVE RightTable
    <2>1. conflict => order = <<>> /\ \A t \in Tables : ~Suits(t)
      BY <1>1 DEF IInv, NoTable, NoneSuits
    <2> QED BY <1>1, <2>1, FinishedSuits DEF RightTable
  <1> QED BY <1>1, Always, PTL

\* "complete: ... the order IS the table": computeSeating says so exactly when a
\* pick stands behind every pair of neighbours, and then no other table suits.
THEOREM CompleteIsUnique == Spec => []CompleteIsTheTable
  <1>1. ASSUME IInv, at = "done"
        PROVE  /\ complete <=> order # <<>> /\ \A k \in DOMAIN order :
                     Picked(order[k], order[(k % Len(order)) + 1])
               /\ complete => {t \in Tables : Suits(t)} = {order}
    <2>1. CASE conflict
      BY <1>1, <2>1 DEF IInv, NoTable
    <2>2. CASE ~conflict /\ RoundSoFar
      <3>1. {t \in Tables : Suits(t)} = {order} /\ complete /\ order # <<>> /\ OneCircle
        BY <1>1, <2>2, TheTable DEF RoundSoFar
      <3>2. ASSUME NEW k \in DOMAIN order
            PROVE  Picked(order[k], order[(k % Len(order)) + 1])
        <4>1. k \in 1..Len(order) /\ order[k] \in DOMAIN succ
          BY <1>1, <3>1, OnTheWay DEF OneCircle
        <4>2. order[(k % Len(order)) + 1] = succ[order[k]]
          BY <1>1, <2>2, <4>1, Finished
        <4> QED BY <1>1, <4>1, <4>2 DEF IInv, Truthful
      <3> QED BY <3>1, <3>2
    <2>3. CASE ~conflict /\ ~RoundSoFar
      <3>1. ~complete /\ (order # <<>> => order[Len(order)] \notin DOMAIN succ)
        BY <1>1, <2>3, Finished
      <3>2. ASSUME order # <<>>,
                   \A k \in DOMAIN order : Picked(order[k], order[(k % Len(order)) + 1])
            PROVE  FALSE
        <4> DEFINE n == Len(order)
                   i == order[n]
                   j == order[(n % n) + 1]
        <4>1. n \in DOMAIN order /\ n \in 1..n /\ n \in Nat \ {0} /\ DOMAIN order = 1..n
          BY <1>1, <3>2, OnTheWay
        <4>2. (n % n) + 1 = 1
          BY <4>1, NextSeat
        <4>3. i \in Ids /\ j \in Ids
          BY <1>1, <4>1, <4>2, OnTheWay
        <4>4. Picked(i, j)
          BY <3>2, <4>1
        <4>5. i # 0 /\ j # 0
          BY <1>1, <4>3, Inputs DEF IInv, Typed
        <4>6. \A x \in Ids \X Side : PickOf(x) # 0 => Held(Edge(x))
          BY <1>1, <2>3 DEF IInv, Truthful, Walk
        <4> HIDE DEF i, j
        <4>7. Held(<<i, j>>)
          <5>1. CASE claims[i].left = j
            <6>1. <<i, "left">> \in Ids \X Side /\ PickOf(<<i, "left">>) = j
                  /\ Edge(<<i, "left">>) = <<i, j>>
              BY <4>3, <5>1, EdgeOf
            <6> QED BY <4>5, <4>6, <6>1
          <5>2. CASE claims[j].right = i
            <6>1. <<j, "right">> \in Ids \X Side /\ PickOf(<<j, "right">>) = i
                  /\ Edge(<<j, "right">>) = <<i, j>>
              BY <4>3, <5>2, EdgeOf
            <6> QED BY <4>5, <4>6, <6>1
          <5> QED BY <4>4, <5>1, <5>2 DEF Picked
        <4> QED BY <3>1, <3>2, <4>7 DEF Held, i
      <3> QED BY <3>1, <3>2
    <2> QED BY <2>1, <2>2, <2>3
  <1>2. IInv => CompleteIsTheTable
    BY <1>1 DEF CompleteIsTheTable
  <1> QED BY <1>2, Always, PTL

-----------------------------------------------------------------------------
(***************************************************************************)
(* computeSeating returns: every step lowers the number of steps that are  *)
(* left at most.                                                           *)
(***************************************************************************)
StageLeft == CASE at = "edges" -> 3 [] at = "chains" -> 2
               [] at \in {"circle", "unplaced"} -> 1 [] OTHER -> 0

StepsLeft == Cardinality(todo) + (Count - Len(order)) + StageLeft

\* The numbers in it are numbers.
Counted ==
    /\ IsFiniteSet(todo) /\ Cardinality(todo) \in Nat
    /\ Count \in Nat /\ Len(order) \in 0..Count

LEMMA IInvCounts == IInv => Counted
  <1> SUFFICES ASSUME IInv PROVE Counted
    OBVIOUS
  <1>1. IsFiniteSet(Ids) /\ todo \subseteq Ids \X Side /\ Len(order) \in Nat
    BY Inputs, OnTheWay DEF IInv, Typed
  <1>2. IsFiniteSet(Side)
    <2>1. IsFiniteSet({"right"} \cup {"left"})
      BY FS_Singleton, FS_AddElement
    <2> QED BY <2>1, {"right"} \cup {"left"} = Side DEF Side
  <1>3. IsFiniteSet(Ids \X Side)
    BY <1>1, <1>2, FS_Product
  <1>4. IsFiniteSet(todo) /\ Cardinality(todo) \in Nat
    BY <1>1, <1>3, FS_Subset, FS_CardinalityType
  <1>5. Count \in Nat /\ Len(order) <= Count
    BY <1>1, NobodyTwice, FS_Subset, FS_CardinalityType DEF Count
  <1> QED BY <1>1, <1>4, <1>5 DEF Counted

\* A pick has been looked at, somebody has sat down, or the stage is a later one.
LEMMA FewerSteps ==
    ASSUME NEW c \in Nat, NEW d \in Nat, NEW n \in Nat, NEW k \in 0..n, NEW l \in 0..n,
           NEW s \in 0..3, NEW t \in 0..3,
           d <= c, k <= l, t <= s, d < c \/ k < l \/ t < s
    PROVE  d + (n - l) + t \in Nat /\ d + (n - l) + t < c + (n - k) + s
  OBVIOUS

\* What the kinds of steps do to the three numbers.
LEMMA LookCounts ==
    ASSUME IInv, Counted, Look
    PROVE  /\ Cardinality(todo') = Cardinality(todo) - 1
           /\ order' = order /\ StageLeft' = StageLeft
  <1>1. Now \in todo
    BY NowIs DEF IInv, Look
  <1> HIDE DEF Now
  <1>2. todo' = todo \ {Now} /\ at' = at /\ order' = order
    BY DEF Look, result, Now
  <1> QED BY <1>1, <1>2, FS_RemoveElement DEF Counted, StageLeft

LEMMA SitCounts ==
    ASSUME IInv, NEW i, Sit(i)
    PROVE  todo' = todo /\ StageLeft' = StageLeft /\ Len(order') = Len(order) + 1
  <1>1. todo' = todo /\ at' = at /\ order' = Append(order, i) /\ order \in Seq(Ids)
    BY DEF Sit, IInv, Typed
  <1>2. Len(order') = Len(order) + 1
    BY <1>1
  <1> QED BY <1>1, <1>2 DEF StageLeft

LEMMA JudgeCounts ==
    ASSUME IInv, Judge
    PROVE  todo' = todo /\ StageLeft' < StageLeft /\ Len(order') >= Len(order)
  <1>1. todo' = todo /\ at = "edges" /\ at' \in {"done", "circle", "chains"}
    BY DEF Judge, Become
  <1>2. StageLeft' < StageLeft
    BY <1>1 DEF StageLeft
  <1>3. \/ order' = order
        \/ order = <<>> /\ order' = <<Lowest(InCircles)>>
    <2>1. conflict \in BOOLEAN /\ order = <<>>
      BY <1>1 DEF IInv, Typed, NoTable, Walk
    <2> QED BY <2>1 DEF Judge, result
  <1>4. Len(order) \in Nat
    BY OnTheWay
  <1>5. Len(order') >= Len(order)
    <2>1. CASE order' = order
      BY <1>4, <2>1
    <2>2. CASE order = <<>> /\ order' = <<Lowest(InCircles)>>
      BY <2>2
    <2> QED BY <1>3, <2>1, <2>2
  <1> QED BY <1>1, <1>2, <1>5

\* However one-sided or contradictory the picks are, no loop of computeSeating
\* follows them for ever: it returns after at most one step for each pick, one
\* for each player and one for each stage.
THEOREM SeatingEnds == Spec => [][StepsLeft' \in Nat /\ StepsLeft' < StepsLeft]_vars
  <1>1. IInv /\ Counted /\ Counted' /\ [Next]_vars
          => [StepsLeft' \in Nat /\ StepsLeft' < StepsLeft]_vars
    <2> SUFFICES ASSUME IInv, Counted, Counted', Next
                 PROVE  StepsLeft' \in Nat /\ StepsLeft' < StepsLeft
      OBVIOUS
    <2>1. Count' = Count
      BY DEF Next, AddEdge, Refuse, Look, Judge, Circle, Chains, Unplaced, Sit, Become,
             Count, Ids
    <2>2. /\ Cardinality(todo) \in Nat /\ Count \in Nat /\ Len(order) \in 0..Count
          /\ Cardinality(todo') \in Nat /\ Len(order') \in 0..Count
      BY <2>1 DEF Counted
    <2>3. StageLeft \in 0..3 /\ StageLeft' \in 0..3
      BY DEF StageLeft
    <2>4. /\ StepsLeft = Cardinality(todo) + (Count - Len(order)) + StageLeft
          /\ StepsLeft' = Cardinality(todo') + (Count - Len(order')) + StageLeft'
      <3>1. StepsLeft' = Cardinality(todo') + (Count' - Len(order')) + StageLeft'
        BY DEF StepsLeft
      <3> QED BY <2>1, <3>1, Zenon DEF StepsLeft
    <2>5. CASE Look
      BY <2>2, <2>3, <2>4, <2>5, LookCounts, FewerSteps
    <2>6. ASSUME NEW i, Sit(i) PROVE StepsLeft' \in Nat /\ StepsLeft' < StepsLeft
      BY <2>2, <2>3, <2>4, <2>6, SitCounts, FewerSteps
    <2>7. ASSUME todo' = todo, StageLeft' < StageLeft, Len(order') >= Len(order)
          PROVE  StepsLeft' \in Nat /\ StepsLeft' < StepsLeft
      BY <2>2, <2>3, <2>4, <2>7, FewerSteps
    <2>8. CASE Judge
      BY <2>7, <2>8, JudgeCounts
    <2>9. ASSUME NEW a, Become(a), \/ at \in {"circle", "unplaced"} /\ a = "done"
                                   \/ at = "chains" /\ a = "unplaced"
          PROVE  StepsLeft' \in Nat /\ StepsLeft' < StepsLeft
      <3>1. todo' = todo /\ order' = order /\ at' = a
        BY <2>9 DEF Become, result
      <3>2. StageLeft' < StageLeft
        BY <2>9, <3>1 DEF StageLeft
      <3> QED BY <2>2, <2>7, <3>1, <3>2
    <2> QED BY <2>5, <2>6, <2>8, <2>9 DEF Next, AddEdge, Refuse, Circle, Chains, Unplaced
  <1> QED BY <1>1, IInvCounts, Always, PTL DEF Spec
=============================================================================
