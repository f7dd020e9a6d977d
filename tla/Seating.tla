------------------------------ MODULE Seating ------------------------------
(***************************************************************************)
(* computeSeating: from the neighbours that players picked to the order in *)
(* which they sit round the table, clockwise seen from above.  Players     *)
(* face inward, so a player's left neighbour sits next clockwise.          *)
(*                                                                         *)
(* The picks come from registrations.  They may be one-sided, disagree,    *)
(* name somebody who has left the bag, or close a circle too early.        *)
(***************************************************************************)
EXTENDS Naturals, Sequences, FiniteSets

CONSTANT Claims  \* the inputs: for each registration id, its two picks; 0 is none

ASSUME ClaimsAssumption ==
    \A c \in Claims : /\ IsFiniteSet(DOMAIN c) /\ DOMAIN c \subseteq Nat \ {0}
                      /\ c \in [DOMAIN c -> [left : Nat, right : Nat]]

VARIABLES claims,    \* the input
          at,        \* where the function stands
          todo,      \* the picks it has not looked at
          succ,      \* player -> the player sitting next clockwise
          pred,      \* player -> the player sitting next counter-clockwise
          conflict,  \* have contradictions been reported?
          order,     \* the seating so far
          complete   \* do the picks form one circle?

vars == <<claims, at, todo, succ, pred, conflict, order, complete>>
graph == <<succ, pred>>
result == <<order, complete>>

Ids == DOMAIN claims
Side == {"right", "left"}
PickOf(x) == IF x[2] = "right" THEN claims[x[1]].right ELSE claims[x[1]].left
Lowest(S) == CHOOSE i \in S : \A j \in S : i <= j
Last == order[Len(order)]
Seated == {order[k] : k \in DOMAIN order}

Init ==
    /\ claims \in Claims
    /\ at = IF Ids = {} THEN "done" ELSE "edges"
    /\ todo = {x \in Ids \X Side : PickOf(x) # 0}
    /\ succ = [i \in {} |-> 0] /\ pred = [i \in {} |-> 0]
    /\ conflict = FALSE
    /\ order = <<>> /\ complete = FALSE

-----------------------------------------------------------------------------
(***************************************************************************)
(* The picks, in the order of the ids, the right one first.                *)
(***************************************************************************)
Now ==
    LET i == Lowest({x[1] : x \in todo})
    IN  IF <<i, "right">> \in todo THEN <<i, "right">> ELSE <<i, "left">>

\* Mutant: a player's left neighbour is taken to sit counter-clockwise.
EdgeMirrored(x) == IF x[2] = "right" THEN <<x[1], PickOf(x)>> ELSE <<PickOf(x), x[1]>>

\* The edge a pick claims: its second player sits clockwise of its first.
Edge(x) == IF x[2] = "right" THEN <<PickOf(x), x[1]>> ELSE <<x[1], PickOf(x)>>

Sound(e) == e[1] \in Ids /\ e[2] \in Ids /\ e[1] # e[2]

\* Mutant: two players may sit counter-clockwise of the same one.
AgreesOneSided(e) == e[1] \in DOMAIN succ => succ[e[1]] = e[2]

Agrees(e) ==
    /\ e[1] \in DOMAIN succ => succ[e[1]] = e[2]
    /\ e[2] \in DOMAIN pred => pred[e[2]] = e[1]

Look ==
    /\ at = "edges" /\ todo # {}
    /\ todo' = todo \ {Now}
    /\ UNCHANGED <<claims, at, result>>

AddEdge ==
    LET e == Edge(Now) IN
    /\ Look
    /\ Sound(e) /\ Agrees(e)
    /\ succ' = [i \in DOMAIN succ \cup {e[1]} |-> IF i = e[1] THEN e[2] ELSE succ[i]]
    /\ pred' = [i \in DOMAIN pred \cup {e[2]} |-> IF i = e[2] THEN e[1] ELSE pred[i]]
    /\ UNCHANGED conflict

Refuse ==
    /\ Look
    /\ ~(Sound(Edge(Now)) /\ Agrees(Edge(Now)))
    /\ conflict' = TRUE
    /\ UNCHANGED graph

-----------------------------------------------------------------------------
(***************************************************************************)
(* What the edges amount to.                                               *)
(***************************************************************************)

\* The players met on the way clockwise from i, with i.
Reach(i) ==
    {j \in Ids : \A S \in SUBSET Ids :
                    i \in S /\ (\A k \in S \cap DOMAIN succ : succ[k] \in S) => j \in S}

InCircles == {i \in DOMAIN succ : i \in Reach(succ[i])}

\* Mutant: a circle that leaves players out is not noticed.
LeavesOutNobody == FALSE

\* A circle that closes before covering everyone.
LeavesOut == \E i \in InCircles : Reach(i) # Ids

Judge ==
    /\ at = "edges" /\ todo = {}
    /\ UNCHANGED <<claims, todo, graph>>
    /\ \/ /\ conflict \/ LeavesOut
          /\ conflict' = TRUE /\ at' = "done"
          /\ UNCHANGED result
       \/ /\ ~(conflict \/ LeavesOut) /\ InCircles # {}
          /\ order' = <<Lowest(InCircles)>> /\ complete' = TRUE /\ at' = "circle"
          /\ UNCHANGED conflict
       \/ /\ ~(conflict \/ LeavesOut) /\ InCircles = {}
          /\ at' = "chains"
          /\ UNCHANGED <<conflict, result>>

Sit(i) == order' = Append(order, i) /\ UNCHANGED <<claims, at, todo, graph, conflict, complete>>
Become(a) == at' = a /\ UNCHANGED <<claims, todo, graph, conflict, result>>

\* Mutant: the circle is closed one seat late.
CircleOverlapping ==
    /\ at = "circle"
    /\ \/ Len(order) < Cardinality(Ids) + 1 /\ Sit(succ[Last])
       \/ Len(order) = Cardinality(Ids) + 1 /\ Become("done")

\* Round the circle from the lowest id until it closes.
Circle ==
    /\ at = "circle"
    /\ \/ succ[Last] # order[1] /\ Sit(succ[Last])
       \/ succ[Last] = order[1] /\ Become("done")

\* chainOrder: chain by chain, the one with the smallest member first.  In a
\* chain nothing but a missing successor ends the walk.
ChainStarts == {i \in DOMAIN succ \ DOMAIN pred : i \notin Seated}
NextChain ==
    CHOOSE i \in ChainStarts : \A j \in ChainStarts : Lowest(Reach(i)) <= Lowest(Reach(j))

Chains ==
    LET onward == order # <<>> /\ Last \in DOMAIN succ IN
    /\ at = "chains"
    /\ \/ onward /\ Sit(succ[Last])
       \/ ~onward /\ ChainStarts # {} /\ Sit(NextChain)
       \/ ~onward /\ ChainStarts = {} /\ Become("unplaced")

\* Then those about whom nobody's pick says anything, by id.
Unplaced ==
    LET rest == Ids \ (DOMAIN succ \cup DOMAIN pred \cup Seated) IN
    /\ at = "unplaced"
    /\ \/ rest # {} /\ Sit(Lowest(rest))
       \/ rest = {} /\ Become("done")

Next == AddEdge \/ Refuse \/ Judge \/ Circle \/ Chains \/ Unplaced

Spec == Init /\ [][Next]_vars

-----------------------------------------------------------------------------
(***************************************************************************)
(* What the seating promises.                                              *)
(***************************************************************************)
\* A function from some of the players to players.
IsPartial(f) == DOMAIN f \subseteq Ids /\ f \in [DOMAIN f -> Ids]

\* Type invariant.  The seating grows without ever seating a player twice, so
\* the loops that follow the edges end.
TypeOK ==
    /\ claims \in [Ids -> [left : Nat, right : Nat]]
    /\ at \in {"edges", "circle", "chains", "unplaced", "done"}
    /\ todo \subseteq Ids \X Side
    /\ IsPartial(succ) /\ IsPartial(pred)
    /\ conflict \in BOOLEAN /\ complete \in BOOLEAN
    /\ Seated \subseteq Ids /\ Cardinality(Seated) = Len(order)

\* "succ is injective (pred enforces a single predecessor)": the two maps are
\* each other's inverse whatever was refused on the way, and nobody is their
\* own neighbour.
OneNeighbourEachSide ==
    /\ \A i \in DOMAIN succ : /\ succ[i] # i
                              /\ succ[i] \in DOMAIN pred /\ pred[succ[i]] = i
    /\ \A i \in DOMAIN pred : pred[i] \in DOMAIN succ /\ succ[pred[i]] = i

\* Every way to sit round the table, read clockwise from the lowest id.
Tables ==
    {t \in [1..Cardinality(Ids) -> Ids] :
        /\ \A k, l \in DOMAIN t : t[k] = t[l] => k = l
        /\ t # <<>> => t[1] = Lowest(Ids)}

\* Player j sits next clockwise of player i.
Beside(t, i, j) == i # j /\ \E k \in DOMAIN t : t[k] = i /\ t[(k % Len(t)) + 1] = j

\* Every pick is true at table t.
Suits(t) ==
    \A i \in Ids : /\ claims[i].left # 0 => Beside(t, i, claims[i].left)
                   /\ claims[i].right # 0 => Beside(t, claims[i].right, i)

\* "conflicts lists contradictions only", and "order covers ALL claims whenever
\* the picks hold no contradiction": if the picks are true at some table, the
\* answer seats everyone so that all of them are true; if they are true at none,
\* a conflict is reported and there is no order at all.
RightTable ==
    at = "done" =>
        \/ ~conflict /\ Seated = Ids /\ Suits(order)
        \/ conflict /\ order = <<>> /\ \A t \in Tables : ~Suits(t)

\* The players with a pick that seats j next clockwise of i.
Picked(i, j) == claims[i].left = j \/ claims[j].right = i

\* "complete: ... the order IS the table": it says so exactly when a pick stands
\* behind every pair of neighbours, and then no other table suits the picks.
CompleteIsTheTable ==
    at = "done" =>
        /\ complete <=> order # <<>> /\ \A k \in DOMAIN order :
                                            Picked(order[k], order[(k % Len(order)) + 1])
        /\ complete => {t \in Tables : Suits(t)} = {order}
=============================================================================
