---------------------------- MODULE GrimoireBag ----------------------------
(***************************************************************************)
(* The grimoire together with the token bag's deal: what a phone shows is  *)
(* the role its registration was dealt, resolved through the grimoire's    *)
(* bag substitution.  The deal is one step here; its races are TokenBag's. *)
(***************************************************************************)
EXTENDS Grimoire

VARIABLE assigned \* the role each player's registration was dealt

bagVars == <<row, req, spoiled, stray, assigned>>

BagInit == Init /\ assigned = [n \in Player |-> NoChar]

\* RevealTokenBag deals to each player the role their name is written on, if
\* that is one for every player.
RevealTokenBag ==
    /\ row.state = "setup"
    /\ \A n \in Player : Cardinality({c \in Roles : row.names[c] = n}) = 1
    /\ assigned' = [n \in Player |-> CHOOSE c \in Roles : row.names[c] = n]
    /\ UNCHANGED vars

BagNext == (Next /\ UNCHANGED assigned) \/ RevealTokenBag

BagSpec == BagInit /\ [][BagNext]_bagVars

\* The token a player's phone resolves the registration to (tokenCharacter).
PhoneToken(n) == IF assigned[n] = NoChar THEN NoChar ELSE Token(row.sub, assigned[n])

\* "Seats are keyed by real role id; the shown character tokens are invariant":
\* a reassignment changes no token that a phone shows.
ReassignKeepsTokens ==
    [][(\E p \in Req : ReassignCommit(p)) =>
          \A n \in Player : PhoneToken(n)' = PhoneToken(n)]_bagVars
=============================================================================
