----------------------------- MODULE MCGrimoire -----------------------------
(* Instances of Grimoire for TLC. *)
EXTENDS Grimoire, TLC

CONSTANTS p1, p2, imp, baron, chef, monk, drunk, ana

OneRequest == {p1}
TwoRequests == {p1, p2}
OneDemon == {imp}
OneMinion == {baron}
TwoTownsfolk == {chef, monk}
OnePlayer == {ana}

\* A deal with the Drunk, one without, and one of a script that lists the Monk twice.
ThreeDeals == {[roles |-> <<drunk, chef>>, sub |-> monk],
               [roles |-> <<imp, baron>>, sub |-> NoSub],
               [roles |-> <<monk, monk>>, sub |-> NoSub]}
HandpickedRoles == {monk}
SentKeys == {drunk, chef, monk}
SentTokens == {chef}

\* What follows once the promises are off, or the game is over, is of no interest.
Promising == ~spoiled /\ row.state # "completed"

\* Requests are interchangeable.
Symmetry == Permutations(Req)
=============================================================================
