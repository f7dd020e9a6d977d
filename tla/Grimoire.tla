------------------------------ MODULE Grimoire ------------------------------
(***************************************************************************)
(* The storyteller's grimoire of ONE game.  A seat is known by the role id *)
(* of whoever sits there: names, deaths, alignments, promotions and night  *)
(* actions are all keyed by it.  Moving the Drunk to another seat          *)
(* (ReassignBagSubstitution) therefore renames every key at once.          *)
(*                                                                         *)
(* Every handler reads the game, computes what a column shall hold and     *)
(* writes the column whole: a request carries the columns it has read      *)
(* (copy) from one step to its write.  PostgreSQL runs at READ COMMITTED   *)
(* and no handler locks the row it reads.  A transaction that reads        *)
(* nothing after its first write is one step, at its commit.               *)
(*                                                                         *)
(* One phase stands for all phases of the game, which every handler here   *)
(* treats alike; names stands for the player names, positions and notes,   *)
(* which are one map each with the same keys.                              *)
(***************************************************************************)
EXTENDS Integers, Sequences, FiniteSets
SeqX == INSTANCE SequencesExt

CONSTANTS Req,       \* slots for requests in flight (goroutines)
          Demon, Minion, Townsfolk, \* characters by team
          Drunk,     \* the character that needs another one's token in the bag
          Player,    \* names of players
          NoPlayer,  \* a seat without a name
          NoChar,    \* a substitution without a picked character; no token
          NoSub,     \* no substitution at all
          Deals,     \* what RandomizeRoles may deal: [roles, sub]
          Handpicked,\* the roles the storyteller adds and takes out one by one
          Keys,      \* what a client sends as a key where the server takes any
          Sent,      \* what the storyteller sends as the Drunk's token; NoSub is an
                     \* empty list
          MaxSeats,  \* bound on the roles in play
          MaxMarks   \* bound on what is recorded about the seats

Char == Demon \cup Minion \cup Townsfolk \cup {Drunk}
Shows == Char \cup {NoChar, NoSub}

ASSUME TeamAssumption ==
    /\ Demon \cap Minion = {} /\ (Demon \cup Minion) \cap Townsfolk = {}
    /\ Drunk \notin Demon \cup Minion \cup Townsfolk
ASSUME NullAssumption ==
    /\ NoPlayer \notin Player /\ NoChar \notin Char
    /\ NoSub \notin Char \cup {NoChar}
\* A deal may hold a character twice: a script that lists it twice is dealt so.
ASSUME DealAssumption == \A d \in Deals : d.roles \in Seq(Char) /\ d.sub \in Shows
ASSUME BoundAssumption == MaxSeats \in Nat /\ MaxMarks \in Nat
ASSUME HandpickedAssumption == Handpicked \cup Keys \subseteq Char /\ Sent \subseteq Char \cup {NoSub}

VARIABLES row,      \* the games row and its phase, column by column
          req,      \* what each request has read and where it stands
          spoiled,  \* history: the promises below are off
          stray     \* history: night actions done that were of no token shown

vars == <<row, req, spoiled, stray>>

InPlay(roles) == {roles[i] : i \in DOMAIN roles}
Roles == InPlay(row.roles)

\* The token of whoever really is c.
Token(sub, c) == IF c = Drunk /\ sub \notin {NoChar, NoSub} THEN sub ELSE c

\* The tokens on the table.
Shown == {Token(row.sub, c) : c \in Roles}

\* A character is in play twice.  Nothing on the server keeps a client's list or
\* a script from that, and with two seats under one key every promise is off.
Twice(roles) == \E i, j \in DOMAIN roles : i # j /\ roles[i] = roles[j]

Idle == [at |-> "idle", char |-> NoChar, on |-> FALSE, name |-> NoPlayer,
         shown |-> NoChar, copy |-> <<>>]

\* A request of operation op about character c, switched on or off.
About(op, c, on) == [Idle EXCEPT !.at = op, !.char = c, !.on = on]

\* A game as CreateGame leaves it.
Init ==
    /\ row = [state |-> "setup", roles |-> <<>>, sub |-> NoSub,
              names |-> [c \in Char |-> NoPlayer], evil |-> {}, dead |-> {},
              promoted |-> {}, done |-> {}]
    /\ req = [p \in Req |-> Idle]
    /\ spoiled = FALSE /\ stray = {}

-----------------------------------------------------------------------------
(***************************************************************************)
(* How a request reads and writes.                                         *)
(***************************************************************************)
Read(columns) == [x \in columns |-> row[x]]

\* getOwnedGame: the copy of the game on which p's guards have been checked.
Begin(p, q, columns) ==
    /\ req[p].at = "idle"
    /\ req' = [req EXCEPT ![p] = [q EXCEPT !.copy = Read(columns)]]
    /\ UNCHANGED <<row, spoiled, stray>>

\* There is room for one more mark on the grimoire.
Room ==
    Cardinality(row.dead) + Cardinality(row.evil) + Cardinality(row.done)
        + Cardinality(row.promoted)
        + Cardinality({c \in Char : row.names[c] # NoPlayer}) < MaxMarks

\* The request adds a mark that is not there, or takes one that is.
Changes(S, c, on) == IF on THEN c \notin S /\ Room ELSE c \in S

\* Another request has changed a column since p read it.
Outdated(p) == \E x \in DOMAIN req[p].copy : req[p].copy[x] # row[x]

Commit(p, new) ==
    /\ row' = new
    /\ req' = [req EXCEPT ![p] = Idle]
    /\ spoiled' = (spoiled \/ Outdated(p))
    /\ UNCHANGED stray

\* The request ends without a write: a guard on fresh data, a failed statement,
\* a cancelled context; a transaction is rolled back.
Abort(p) ==
    /\ req[p].at # "idle"
    /\ req' = [req EXCEPT ![p] = Idle]
    /\ UNCHANGED <<row, spoiled, stray>>

-----------------------------------------------------------------------------
(***************************************************************************)
(* Moving the bag substitution to another seat.                            *)
(***************************************************************************)

\* Mutant: the shown character may already be in play.
ReassignableTwice(target) ==
    /\ row.state # "completed"
    /\ row.sub \notin {NoChar, NoSub}
    /\ target \in Roles \cap Townsfolk

\* ReassignBagSubstitution's guards.
Reassignable(target) ==
    /\ row.state # "completed"
    /\ row.sub \notin {NoChar, NoSub}
    /\ row.sub \notin Roles
    /\ target \in Roles \cap Townsfolk

\* The old Drunk becomes what their token says, the target becomes the Drunk;
\* what the old token says is taken from the copy the guards saw (shown).
SeatRename(shown, target, c) ==
    IF c = Drunk THEN shown ELSE IF c = target THEN Drunk ELSE c

BeginReassign(p, target) ==
    /\ Reassignable(target)
    /\ Begin(p, [About("reassign", target, FALSE) EXCEPT !.shown = row.sub],
             {"sub", "roles"})

\* The game is read again inside the transaction, for what will be renamed; on
\* notes that it is not the game the guards saw.
ReassignRead(p) ==
    /\ req[p].at = "reassign"
    /\ req' = [req EXCEPT ![p].at = "rename", ![p].on = Outdated(p),
                          ![p].copy = Read({"sub", "roles", "names", "evil"})]
    /\ UNCHANGED <<row, spoiled, stray>>

\* A map keyed by seats with its keys renamed.  The name of a role that is no
\* longer in play stays in the map; where two meet under one key, the random
\* order of a Go map decides which is kept.
Rekeyed(map, shown, target) ==
    LET met(k) == {map[c] : c \in {d \in Char : SeatRename(shown, target, d) = k}} \ {NoPlayer}
    IN  {m \in [Char -> Player \cup {NoPlayer}] :
            \A k \in Char : m[k] \in IF met(k) = {} THEN {NoPlayer} ELSE met(k)}

\* Mutant: the deaths are renamed one after the other, without the detour over
\* temporary ids, so the target's death follows through to the old Drunk.
RenameDeathsInTurn(S, shown, target) ==
    LET first == {IF c = target THEN Drunk ELSE c : c \in S}
    IN  {IF c = Drunk THEN shown ELSE c : c \in first}

RenameDeaths(S, shown, target) == {SeatRename(shown, target, c) : c \in S}

\* Mutant: the substitution keeps the token it had.
NewSubKept(shown, target) == shown

\* The Drunk's new seat goes on showing the character that was dealt there.
NewSub(shown, target) == target

\* applySeatRename and the new substitution.  The phases' alignments are
\* written from the copy; the deaths are renamed where they are, unless two of
\* them meet in the unique index.
ReassignCommit(p) ==
    LET q == req[p]
        f(c) == SeatRename(q.shown, q.char, c)
        leftover == q.copy["names"][q.shown] # NoPlayer
    IN  /\ q.at = "rename"
        /\ \A c, d \in row.dead : f(c) = f(d) => c = d
        /\ \E names \in Rekeyed(q.copy["names"], q.shown, q.char) :
              row' = [row EXCEPT
                !.roles = [i \in DOMAIN q.copy["roles"] |-> f(q.copy["roles"][i])],
                !.names = names,
                !.evil = {f(c) : c \in q.copy["evil"]},
                !.dead = RenameDeaths(row.dead, q.shown, q.char),
                !.sub = IF q.copy["sub"] = NoSub THEN NoSub ELSE NewSub(q.shown, q.char)]
        /\ req' = [req EXCEPT ![p] = Idle]
        /\ spoiled' = (spoiled \/ Outdated(p) \/ q.on \/ leftover)
        /\ UNCHANGED stray

-----------------------------------------------------------------------------
(***************************************************************************)
(* Which roles are in play.                                                *)
(***************************************************************************)

\* RandomizeRoles: no guard on the state, and nothing keyed by the old roles is
\* touched.  Locked seats and the deal itself are Setup's.
BeginRandomize(p) == Begin(p, About("randomize", NoChar, FALSE), {"state"})

RandomizeCommit(p) ==
    /\ req[p].at = "randomize"
    /\ \E d \in Deals :
          /\ Len(d.roles) <= MaxSeats
          /\ row' = [row EXCEPT !.roles = d.roles, !.sub = d.sub]
          /\ spoiled' = (spoiled \/ Outdated(p) \/ row.state # "setup" \/ Twice(d.roles))
    /\ req' = [req EXCEPT ![p] = Idle]
    /\ UNCHANGED stray

\* UpdateGameRoles: in a running game the new list has to hold every role of
\* the copy; whether it holds one twice is not looked at.  The lists sent are
\* those of the client's toggle: one role is appended (on) or taken out.
BeginRoles(p, c, on) ==
    /\ row.state # "completed"
    /\ on => Len(row.roles) < MaxSeats
    /\ ~on => c \in Roles /\ row.state = "setup"
    /\ Begin(p, About("roles", c, on), {"state", "roles", "sub"})

Others(roles, c) == SeqX!RemoveAt(roles, CHOOSE k \in DOMAIN roles : roles[k] = c)

\* BagSubstitutionsForRoles: a role that needs one keeps the one it has.
Reconciled(roles, sub) ==
    IF Drunk \notin InPlay(roles) THEN NoSub ELSE IF sub = NoSub THEN NoChar ELSE sub

RolesCommit(p) ==
    /\ req[p].at = "roles"
    /\ LET q == req[p]
           roles == IF q.on THEN Append(q.copy["roles"], q.char)
                    ELSE Others(q.copy["roles"], q.char)
       IN  /\ row' = [row EXCEPT !.roles = roles, !.sub = Reconciled(roles, q.copy["sub"])]
           /\ spoiled' = (spoiled \/ Outdated(p) \/ Twice(roles))
    /\ req' = [req EXCEPT ![p] = Idle]
    /\ UNCHANGED stray

\* UpdateBagSubstitutions writes what it is sent: the token may be any character,
\* in play or not, and the Drunk need not be in play.
BeginSubs(p, c) ==
    /\ row.state = "setup"
    /\ Begin(p, About("subs", c, FALSE), {"state", "roles", "sub"})

SubsCommit(p) == req[p].at = "subs" /\ Commit(p, [row EXCEPT !.sub = req[p].char])

-----------------------------------------------------------------------------
(***************************************************************************)
(* What is written about a seat.                                           *)
(***************************************************************************)

\* UpdateGrimoireState: the client sends all names as it knows them, with n
\* moved to the seat of c.  The keys are not looked at.
BeginNames(p, c, n) ==
    /\ row.state # "completed"
    /\ Room \/ \E k \in Char : row.names[k] = n
    /\ Begin(p, [About("names", c, FALSE) EXCEPT !.name = n], {"roles", "names"})

NamesCommit(p) ==
    /\ req[p].at = "names"
    /\ Commit(p, [row EXCEPT !.names =
         [c \in Char |-> IF c = req[p].char THEN req[p].name
                         ELSE IF req[p].copy["names"][c] = req[p].name THEN NoPlayer
                         ELSE req[p].copy["names"][c]]])

\* UpdateCharacterAlignment reads the phase's alignments and writes them back
\* with one changed.
BeginAlign(p, c, on) ==
    /\ row.state = "in_progress" /\ c \in Roles
    /\ Changes(row.evil, c, on) /\ Begin(p, About("align", c, on), {"roles", "evil"})

Toggled(S, c, on) == IF on THEN S \cup {c} ELSE S \ {c}

AlignCommit(p) ==
    /\ req[p].at = "align"
    /\ Commit(p, [row EXCEPT !.evil = Toggled(req[p].copy["evil"], req[p].char, req[p].on)])

\* ToggleNightAction.  The client sends the token a seat shows; the server takes
\* any action.
BeginToggle(p, c, on) ==
    /\ row.state = "in_progress"
    /\ Changes(row.done, c, on) /\ Begin(p, About("toggle", c, on), {"roles", "sub", "done"})

ToggleCommit(p) ==
    LET q == req[p] IN
    /\ q.at = "toggle"
    /\ row' = [row EXCEPT !.done = Toggled(q.copy["done"], q.char, q.on)]
    /\ req' = [req EXCEPT ![p] = Idle]
    /\ spoiled' = (spoiled \/ Outdated(p))
    /\ stray' = Toggled(stray, q.char, q.on /\ q.char \notin Shown)

\* Mutant: any role in play may be promoted.
BeginStarPassAnyone(p, c) ==
    /\ row.state = "in_progress" /\ Room
    /\ c \in Roles /\ Roles \cap Demon # {}
    /\ c \notin row.promoted /\ c \notin row.dead
    /\ Begin(p, About("promote", c, TRUE), {"roles", "promoted"})

\* StarPass hands the demon to a living minion; UndoStarPass takes it back.
\* (RandomizeRoles apart, minions in play stay in play.)
BeginStarPass(p, c) ==
    /\ row.state = "in_progress" /\ Room
    /\ c \in Roles \cap Minion /\ Roles \cap Demon # {}
    /\ c \notin row.promoted /\ c \notin row.dead
    /\ Begin(p, About("promote", c, TRUE), {"roles", "promoted"})

BeginUndoStarPass(p, c) ==
    /\ row.state = "in_progress"
    /\ c \in row.promoted
    /\ Begin(p, About("promote", c, FALSE), {"promoted"})

StarPassCommit(p) ==
    /\ req[p].at = "promote"
    /\ Commit(p, [row EXCEPT
         !.promoted = Toggled(req[p].copy["promoted"], req[p].char, req[p].on)])

\* RecordDeath; a death that another request recorded meanwhile breaks the
\* unique index.
BeginDeath(p, c) ==
    /\ row.state = "in_progress" /\ c \in Roles \ row.dead /\ Room
    /\ Begin(p, About("death", c, TRUE), {"roles"})

DeathCommit(p) ==
    /\ req[p].at = "death" /\ req[p].char \notin row.dead
    /\ Commit(p, [row EXCEPT !.dead = @ \cup {req[p].char}])

\* RemoveDeath deletes a death record by its id, wherever it is keyed by now.
RemoveDeath(c) ==
    /\ row.state = "in_progress" /\ c \in row.dead
    /\ row' = [row EXCEPT !.dead = @ \ {c}]
    /\ UNCHANGED <<req, spoiled, stray>>

-----------------------------------------------------------------------------
(***************************************************************************)
(* The life of the game, in one step each: its races are GamePhases'.      *)
(***************************************************************************)
StartGame ==
    /\ row.state = "setup"
    /\ row' = [row EXCEPT !.state = "in_progress"]
    /\ UNCHANGED <<req, spoiled, stray>>

EndGame ==
    /\ row.state = "in_progress"
    /\ row' = [row EXCEPT !.state = "completed"]
    /\ UNCHANGED <<req, spoiled, stray>>

-----------------------------------------------------------------------------
Handler(p) ==
    \/ BeginRandomize(p)
    \/ \E c \in Handpicked, on \in BOOLEAN : BeginRoles(p, c, on)
    \/ \E c \in Char :
        \/ BeginReassign(p, c) \/ BeginStarPass(p, c) \/ BeginUndoStarPass(p, c)
        \/ BeginDeath(p, c)
        \/ \E on \in BOOLEAN : BeginAlign(p, c, on)
    \/ \E c \in Keys :
        \/ \E n \in Player : BeginNames(p, c, n)
        \/ \E on \in BOOLEAN : BeginToggle(p, c, on)
    \/ \E c \in Sent : BeginSubs(p, c)

Step(p) ==
    \/ ReassignRead(p) \/ ReassignCommit(p) \/ RandomizeCommit(p) \/ RolesCommit(p)
    \/ SubsCommit(p) \/ NamesCommit(p) \/ AlignCommit(p) \/ ToggleCommit(p)
    \/ StarPassCommit(p) \/ DeathCommit(p)

Storyteller == StartGame \/ EndGame \/ \E c \in Char : RemoveDeath(c)

Next == (\E p \in Req : Handler(p) \/ Step(p) \/ Abort(p)) \/ Storyteller

Spec == Init /\ [][Next]_vars

-----------------------------------------------------------------------------
(***************************************************************************)
(* What the grimoire promises until it is spoiled: a write has replaced a  *)
(* column that another request had changed, a list or a deal named a       *)
(* character twice, the roles of a running game were randomized, or a      *)
(* reassignment met a name left from a role that went out of play.         *)
(***************************************************************************)
\* What a column may hold.
Values ==
    [state |-> {"setup", "in_progress", "completed"},
     roles |-> {s \in Seq(Char) : Len(s) <= MaxSeats},
     sub |-> Shows,
     names |-> [Char -> Player \cup {NoPlayer}],
     evil |-> SUBSET Char, dead |-> SUBSET Char,
     promoted |-> SUBSET Minion, done |-> SUBSET Char]
Column == DOMAIN Values

Point == {"idle", "reassign", "rename", "randomize", "roles", "subs", "names", "align",
          "toggle", "promote", "death"}
Field == {"at", "char", "on", "name", "shown", "copy"}

\* Type invariant.  What a request has read are values of the columns it names.
TypeOK ==
    /\ DOMAIN row = Column /\ \A x \in Column : row[x] \in Values[x]
    /\ DOMAIN req = Req
    /\ \A p \in Req :
          /\ DOMAIN req[p] = Field /\ req[p].at \in Point
          /\ req[p].char \in Shows /\ req[p].on \in BOOLEAN
          /\ req[p].name \in Player \cup {NoPlayer} /\ req[p].shown \in Shows
          /\ DOMAIN req[p].copy \subseteq Column
          /\ \A x \in DOMAIN req[p].copy : req[p].copy[x] \in Values[x]
    /\ spoiled \in BOOLEAN /\ stray \subseteq Char

\* "The shown character becomes a real role; it must not already be in play":
\* unless a list that was sent or dealt names a character twice, moving the
\* Drunk puts none in play twice, whatever token was chosen for them and
\* whatever was added, taken out and moved before.
RolesDistinct == ~spoiled => ~Twice(row.roles)

\* "Removing a role would orphan grimoire state, deaths and night-order
\* progress": everything recorded about a seat is about a role in play, and a
\* night action done of a token that was shown is still one of a shown token
\* (completed_actions is not renamed, because a reassignment leaves the shown
\* tokens what they were).
NoOrphans ==
    ~spoiled =>
        /\ row.dead \cup row.evil \cup row.promoted \subseteq Roles
        /\ row.done \ stray \subseteq Shown

\* What the players see of the grimoire, seat by seat.
Seat(g, c) == [name |-> g.names[c], token |-> Token(g.sub, c), dead |-> c \in g.dead,
               evil |-> c \in g.evil, promoted |-> c \in g.promoted]
Table == IF spoiled THEN <<>> ELSE [i \in DOMAIN row.roles |-> Seat(row, row.roles[i])]

Seats == INSTANCE SeatTable WITH
    running <- row.state # "setup",
    table <- Table,
    drunk <- IF spoiled THEN {} ELSE {i \in DOMAIN row.roles : row.roles[i] = Drunk},
    trusted <- ~spoiled

\* Name, token, life and side stay with whoever sits in the seat, whatever is
\* renamed, recorded and promoted side by side; a reassignment moves the Drunk
\* and nothing the players see.
SeatTableSpec == Seats!Spec
=============================================================================
