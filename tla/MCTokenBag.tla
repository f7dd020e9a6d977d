---------------------------- MODULE MCTokenBag ----------------------------
(* Instances of TokenBag for TLC. *)
EXTENDS TokenBag, TLC

CONSTANTS p1, p2, ana, bob, imp, monk

TwoRequests == {p1, p2}
TwoNames == {ana, bob}
TwoRoles == {imp, monk}

\* A duplicated game keeps its names: one, or one per role.
OneSeat == {[r \in Role |-> IF r = imp THEN ana ELSE NoName]}
TwoSeats == {[r \in Role |-> IF r = imp THEN ana ELSE bob]}

PlayerOps ==
    {"open", "close", "add", "join", "remove", "pick", "reveal", "reset", "start", "end",
     "delete"}
DealOps == {"open", "close", "joinShared", "seat", "reveal", "reset", "start"}

\* Requests are interchangeable, and no liveness property is checked with this.
Symmetry == Permutations(Req)
===========================================================================
