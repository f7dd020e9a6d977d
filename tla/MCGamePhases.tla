---------------------------- MODULE MCGamePhases ----------------------------
(* Instances of GamePhases for TLC. *)
EXTENDS GamePhases, TLC

CONSTANTS p1, p2, imp

TwoRequests == {p1, p2}
OneRole == {imp}

\* Requests are interchangeable; only safety is checked with this.
Symmetry == Permutations(Req)
=============================================================================
