---------------------------- MODULE DeathLedger ----------------------------
(***************************************************************************)
(* What the death records of a game amount to: one page per phase, in the  *)
(* order of the game, and every operation done at once.  A death recorded  *)
(* or taken back from a phase on holds in every later phase, the ones that *)
(* do not exist yet included; a ghost vote is spent in all of them.        *)
(*                                                                         *)
(* The promise is for roles that nobody handles twice at the same time.  A *)
(* role about which two requests overlapped is struck off the ledger.      *)
(***************************************************************************)
EXTENDS Naturals, Sequences

CONSTANT Role

VARIABLES ledger,  \* what each phase records of each role it still tracks
          struck   \* the roles no longer tracked

vars == <<ledger, struck>>

\* No death record, one with its ghost vote, one whose ghost vote is used.
Mark == {"none", "vote", "used"}

Tracked == Role \ struck
Blank == [r \in Tracked |-> "none"]

Init == ledger = <<>> /\ struck = {}

\* In the pages of S, the marks in from of role r become to.
Rewrite(r, S, from, to) ==
    /\ r \in Tracked
    /\ ledger' = [i \in DOMAIN ledger |->
                    IF i \in S /\ ledger[i][r] \in from THEN [ledger[i] EXCEPT ![r] = to]
                    ELSE ledger[i]]
    /\ UNCHANGED struck

\* One page, or that page and all after it.
Spans == {{k} : k \in DOMAIN ledger} \cup {k..Len(ledger) : k \in DOMAIN ledger}

FirstRound == ledger = <<>> /\ ledger' = <<Blank, Blank>> /\ UNCHANGED struck

NextRound ==
    /\ ledger # <<>>
    /\ LET last == ledger[Len(ledger)] IN ledger' = ledger \o <<last, last>>
    /\ UNCHANGED struck

Record(r) == \E S \in Spans : Rewrite(r, S, {"none"}, "vote")
Remove(r) == \E S \in Spans : Rewrite(r, S, Mark, "none")
Spend(r) == Rewrite(r, DOMAIN ledger, {"vote"}, "used")

Strike ==
    /\ \E R \in SUBSET Role : struck' = struck \cup R
    /\ ledger' = [i \in DOMAIN ledger |-> [r \in Role \ struck' |-> ledger[i][r]]]

Next ==
    \/ FirstRound \/ NextRound \/ Strike
    \/ \E r \in Role : Record(r) \/ Remove(r) \/ Spend(r)

Spec == Init /\ [][Next]_vars
=============================================================================
