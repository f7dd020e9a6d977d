--------------------------- MODULE MCSpotifyToken ---------------------------
(* Instances of SpotifyToken for TLC. *)
EXTENDS SpotifyToken, TLC

CONSTANTS p1, p2

TwoRequests == {p1, p2}
=============================================================================
