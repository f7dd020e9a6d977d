---------------------------- MODULE RateBuckets ----------------------------
(***************************************************************************)
(* What a rate limiter promises its callers: each has a bucket that is     *)
(* refilled by one token per tick, and nothing but waiting fills it.       *)
(***************************************************************************)
EXTENDS Naturals

CONSTANTS Key, Burst

VARIABLES tokens, \* what is left in each caller's bucket
          answer  \* the answer given last: allowed, refused, or none

vars == <<tokens, answer>>

Init == tokens = [k \in Key |-> Burst] /\ answer = "none"

Allow(k) ==
    /\ tokens[k] > 0
    /\ tokens' = [tokens EXCEPT ![k] = @ - 1]
    /\ answer' = "allowed"

Refuse(k) == tokens[k] = 0 /\ answer' = "refused" /\ UNCHANGED tokens

Tick ==
    /\ tokens' = [k \in Key |-> IF tokens[k] < Burst THEN tokens[k] + 1 ELSE Burst]
    /\ answer' = "none"

Next == Tick \/ \E k \in Key : Allow(k) \/ Refuse(k)

Spec == Init /\ [][Next]_vars
=============================================================================
