--------------------------- MODULE MCTokenBagLive ---------------------------
(* An instance of TokenBagLive for TLC: two requests, two players. *)
EXTENDS TokenBagLive

CONSTANTS p1, p2, ana, bob, imp, monk

TwoRequests == {p1, p2}
TwoNames == {ana, bob}
TwoRoles == {imp, monk}
TwoSeats == {[r \in Role |-> IF r = imp THEN ana ELSE bob]}
LiveOps == {"open", "close", "join", "pick", "reveal", "reset"}
=============================================================================
