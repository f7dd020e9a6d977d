----------------------------- MODULE MCSeating -----------------------------
(* An instance of Seating for TLC. *)
EXTENDS Seating

\* What players of a set of ids may have picked: anybody of these, or nobody.
Picks(S, who) == [S -> [left : who \cup {0}, right : who \cup {0}]]

\* Up to three players may pick each other, themselves and one who has left (9);
\* four players only each other.
Gone == 9
SomeClaims ==
    (UNION {Picks(S, S \cup {Gone}) : S \in SUBSET {1, 2, 3}})
        \cup {c \in Picks(1..4, 1..4) : \A i \in 1..4 : c[i].left # i /\ c[i].right # i}
=============================================================================
