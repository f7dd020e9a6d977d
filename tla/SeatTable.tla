----------------------------- MODULE SeatTable -----------------------------
(***************************************************************************)
(* The table as the players see it: whoever sits in a seat keeps their     *)
(* name, their token, their life and their side, and one thing changes at  *)
(* a time.  Which seat holds the real Drunk may move without any of the    *)
(* players noticing.  While the game is set up the storyteller may deal    *)
(* again; once it runs the table only grows.                               *)
(***************************************************************************)
EXTENDS Naturals, Sequences

VARIABLES running, \* has the game started?
          table,   \* by seat: name, token, whether dead, evil, promoted
          drunk,   \* the seats whose token is not what they really are
          trusted  \* FALSE once edits have overwritten each other

vars == <<running, table, drunk, trusted>>

Keep == UNCHANGED <<running, drunk, trusted>>

Init == running = FALSE /\ table = <<>> /\ drunk = {} /\ trusted = TRUE

Deal == ~running /\ UNCHANGED <<running, trusted>>
Start == ~running /\ running' = TRUE /\ UNCHANGED <<table, drunk, trusted>>

\* The storyteller writes names into seats.
Name ==
    LET old == table
        new == table'
    IN  /\ DOMAIN new = DOMAIN old
        /\ \A s \in DOMAIN old : new[s] = [old[s] EXCEPT !.name = new[s].name]
        /\ Keep

\* One seat dies, or lives again; turns; is handed the demon, or gives it back.
OneSeat ==
    LET old == table
        new == table'
    IN  /\ DOMAIN new = DOMAIN old
        /\ \E s \in DOMAIN old :
              \/ new = [old EXCEPT ![s].dead = ~@]
              \/ new = [old EXCEPT ![s].evil = ~@]
              \/ new = [old EXCEPT ![s].promoted = ~@]
        /\ Keep

\* A role joins a running game.
Join ==
    /\ Len(table') = Len(table) + 1
    /\ SubSeq(table', 1, Len(table)) = table
    /\ drunk \subseteq drunk'
    /\ UNCHANGED <<running, trusted>>

\* The storyteller makes somebody else the Drunk; the table looks the same.
MoveDrunk == drunk' # drunk /\ UNCHANGED <<running, table, trusted>>

Distrust == trusted /\ ~trusted' /\ table' = <<>> /\ drunk' = {}

Next ==
    \/ Deal \/ Start \/ Name \/ OneSeat \/ Join \/ MoveDrunk \/ Distrust

Spec == Init /\ [][Next]_vars
=============================================================================
