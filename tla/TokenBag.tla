------------------------------ MODULE TokenBag ------------------------------
(***************************************************************************)
(* The digital token bag of ONE game: players register, the storyteller    *)
(* closes the bag, deals the roles onto the registrations, and may take    *)
(* the deal back.  A request is a goroutine of the RPC server; it reads    *)
(* the game outside any transaction, checks its guards on that copy, and   *)
(* only then writes.  What two such requests do to each other is what this *)
(* module is about.                                                        *)
(*                                                                         *)
(* The database is PostgreSQL at READ COMMITTED.  A transaction's writes   *)
(* are applied at its commit; until then its row locks (lock) keep other   *)
(* writers of the same rows waiting, and every statement reads what is     *)
(* committed when it runs.  A one-statement write is one step that needs   *)
(* the row unlocked.  Where a transaction reads nothing between locking a  *)
(* row and committing, the lock and the commit are one step.               *)
(***************************************************************************)
EXTENDS Integers, FiniteSets

CONSTANTS Req,       \* slots for requests in flight (goroutines)
          Name,      \* normalized player names
          Role,      \* characters the storyteller may put in play
          NoName,    \* the grimoire seat of a role that is out of play or unnamed
          NoRole,    \* assigned_role_id of a registration that was not dealt to
          Free,      \* the owner of an unlocked row
          MaxRegs,   \* maxTokenBagRegistrations
          MaxId,     \* bound on the registration ids the serial hands out
          Seatings,  \* the grimoires a game may begin with (a duplicate keeps its names)
          Ops        \* the operations the environment calls

Operation == {"open", "close", "add", "join", "joinShared", "remove", "pick",
              "reveal", "reset", "seat", "start", "end", "delete"}

ASSUME NullAssumption == NoName \notin Name /\ NoRole \notin Role /\ Free \notin Req
ASSUME BoundAssumption == MaxRegs \in Nat /\ MaxId \in Nat
ASSUME OpsAssumption == Ops \subseteq Operation
ASSUME SeatingAssumption == Seatings \subseteq [Role -> Name \cup {NoName}]

VARIABLES game,      \* the games row: state, token bag phase, code, and its seats
          regs,      \* registrations by id; the ids of existing rows are its domain
          lastId,    \* the serial behind registration ids
          lock,      \* which transaction has each row locked
          req,       \* what each request has read and where it stands
          held,      \* the [reg, secret] pairs players' phones store
          dealt      \* history: the registrations the last committed reveal dealt to

vars == <<game, regs, lastId, lock, req, held, dealt>>
db == <<game, regs, lastId>>

(***************************************************************************)
(* Data.  code stands for both bag codes (minted together; 0 is NULL).     *)
(* pick stands for one of the two neighbour columns, which every statement *)
(* treats alike; 0 is NULL.  secret 0 is a secret nobody was told, and a   *)
(* new secret of a row is one more than its last.  shared is               *)
(* via_shared_device.                                                      *)
(***************************************************************************)
GameRow == 0
RegId == 1..MaxId
Row == 0..MaxId
Discarded == 0

Seating == [Role -> Name \cup {NoName}]
Phase == {"inactive", "open", "closed", "revealed"}
GameState == {"setup", "in_progress", "completed", "deleted"}
Game == [state : GameState, phase : Phase, code : Nat, seats : Seating]
Registration == [name : Name, shared : BOOLEAN, secret : Nat, pick : Row,
                 role : Role \cup {NoRole}]

Point == {"idle", "open", "backfill", "close", "lookup", "claim", "count", "insert",
          "reply", "remove", "unpick", "target", "pick", "recheck", "save",
          "reveal", "assign", "reset", "wipe"}

Idle == [at |-> "idle", name |-> NoName, shared |-> FALSE, reg |-> 0, pick |-> 0,
         secret |-> Discarded, seats |-> [r \in Role |-> NoName], code |-> 0,
         fill |-> {}, todo |-> {}, plan |-> [i \in RegId |-> NoRole]]

Regs == DOMAIN regs
Exists == game.state # "deleted"
NamesTaken == {regs[i].name : i \in Regs}
Seated(seats) == {seats[r] : r \in Role} \ {NoName}
RolesOf(n, seats) == {r \in Role : seats[r] = n}

NewRow(n, shared) ==
    [name |-> n, shared |-> shared, secret |-> IF shared THEN Discarded ELSE 1,
     pick |-> 0, role |-> NoRole]

Init ==
    /\ \E seats \in Seatings :
          game = [state |-> "setup", phase |-> "inactive", code |-> 0, seats |-> seats]
    /\ regs = [i \in {} |-> NewRow(NoName, TRUE)]
    /\ lastId = 0
    /\ lock = [x \in Row |-> Free]
    /\ req = [p \in Req |-> Idle]
    /\ held = {}
    /\ dealt = {}

(***************************************************************************)
(* How a request moves on.  Ending one, in success or not, gives up its    *)
(* locks: commit, or the Rollback on every error path.                     *)
(***************************************************************************)
Begin(p, q) ==
    /\ req[p].at = "idle"
    /\ req' = [req EXCEPT ![p] = q]
    /\ UNCHANGED <<db, lock, held, dealt>>

Goto(p, q) ==
    /\ req' = [req EXCEPT ![p] = q]
    /\ UNCHANGED <<db, held, dealt>>

End(p) ==
    /\ req' = [req EXCEPT ![p] = Idle]
    /\ lock' = [x \in Row |-> IF lock[x] = p THEN Free ELSE lock[x]]

Fail(p) == End(p) /\ UNCHANGED <<db, held, dealt>>

\* The request dies where it stands: its context is cancelled, a statement
\* fails, or PostgreSQL picks its transaction as a deadlock victim.
Abort(p) == req[p].at # "idle" /\ Fail(p)

\* A statement of p takes the lock of row x.
Lock(p, x) == lock[x] = Free /\ lock' = [lock EXCEPT ![x] = p]

-----------------------------------------------------------------------------
(***************************************************************************)
(* Opening and closing the bag.                                            *)
(***************************************************************************)

\* OpenTokenBagRegistration's guards, on a copy of the game it keeps.  (On an
\* open bag it writes nothing.)
BeginOpen(p) ==
    /\ "open" \in Ops
    /\ game.state \notin {"completed", "deleted"}
    /\ game.phase \in {"inactive", "closed"}
    /\ Begin(p, [Idle EXCEPT !.at = "open", !.seats = game.seats, !.code = game.code])

\* The names backfillBagFromGrimoire adds: seats of the copy that have no
\* registration yet, up to the cap (which ones, when not all fit, is left open).
Backfill(seats) ==
    LET want == Seated(seats) \ NamesTaken
        room == IF Cardinality(Regs) < MaxRegs THEN MaxRegs - Cardinality(Regs) ELSE 0
    IN  {F \in SUBSET want :
            Cardinality(F) = IF Cardinality(want) < room THEN Cardinality(want) ELSE room}

\* The transaction updates the game row, then reads the existing names.
OpenWrite(p) ==
    /\ req[p].at = "open"
    /\ lock[GameRow] = Free
    /\ \/ /\ Exists
          /\ Lock(p, GameRow)
          /\ \E F \in Backfill(req[p].seats) :
                Goto(p, [req[p] EXCEPT !.at = "backfill", !.fill = F])
       \/ ~Exists /\ Fail(p)

\* It inserts the names, each under an id of its own, and commits; a name
\* registered meanwhile is a constraint error that rolls everything back.
OpenCommit(p) ==
    /\ req[p].at = "backfill"
    /\ LET F == req[p].fill IN
       \/ /\ F \cap NamesTaken = {}
          /\ \E last \in lastId..MaxId : \E id \in [F -> (lastId + 1)..last] :
                /\ last = lastId + Cardinality(F)
                /\ \A m, n \in F : m # n => id[m] # id[n]
                /\ regs' = [i \in Regs \cup {id[n] : n \in F} |->
                              IF i \in Regs THEN regs[i]
                              ELSE NewRow(CHOOSE n \in F : id[n] = i, TRUE)]
                /\ lastId' = last
          /\ game' = [game EXCEPT !.phase = "open",
                         !.code = IF req[p].code = 0 THEN @ + 1 ELSE @]
          /\ End(p)
          /\ UNCHANGED <<held, dealt>>
       \/ (F \cap NamesTaken # {} \/ lastId + Cardinality(F) > MaxId) /\ Fail(p)

BeginClose(p) ==
    /\ "close" \in Ops
    /\ game.state \notin {"completed", "deleted"}
    /\ game.phase = "open"
    /\ Begin(p, [Idle EXCEPT !.at = "close"])

CloseWrite(p) ==
    /\ req[p].at = "close"
    /\ lock[GameRow] = Free
    /\ \/ /\ Exists
          /\ game' = [game EXCEPT !.phase = "closed"]
          /\ End(p)
          /\ UNCHANGED <<regs, lastId, held, dealt>>
       \/ ~Exists /\ Fail(p)

-----------------------------------------------------------------------------
(***************************************************************************)
(* Getting into the bag, and out of it.                                    *)
(***************************************************************************)

\* bagJoinable, on the copy of the game the request has just read.
Joinable(phases) == game.state \notin {"completed", "deleted"} /\ game.phase \in phases

BeginAdd(p) ==
    /\ "add" \in Ops /\ Joinable({"open", "closed"})
    /\ \E n \in Name :
          Begin(p, [Idle EXCEPT !.at = "count", !.name = n, !.shared = TRUE])

BeginJoinShared(p) ==
    /\ "joinShared" \in Ops /\ Joinable({"open"})
    /\ \E n \in Name :
          Begin(p, [Idle EXCEPT !.at = "count", !.name = n, !.shared = TRUE])

BeginJoin(p) ==
    /\ "join" \in Ops /\ Joinable({"open"})
    /\ \E n \in Name : Begin(p, [Idle EXCEPT !.at = "lookup", !.name = n])

\* claimRegistration looks the name up: free, up for claiming, or taken.
JoinLookup(p) ==
    LET mine == {i \in Regs : regs[i].name = req[p].name} IN
    /\ req[p].at = "lookup"
    /\ \/ /\ mine = {}
          /\ Goto(p, [req[p] EXCEPT !.at = "count"]) /\ UNCHANGED lock
       \/ \E i \in mine :
             /\ regs[i].shared
             /\ Goto(p, [req[p] EXCEPT !.at = "claim", !.reg = i]) /\ UNCHANGED lock
       \/ (\E i \in mine : ~regs[i].shared) /\ Fail(p)

\* Mutant: the claim is not conditional on the row.
ClaimUnconditional(p) ==
    LET i == req[p].reg IN
    /\ req[p].at = "claim"
    /\ lock[i] = Free
    /\ i \in Regs
    /\ regs' = [regs EXCEPT ![i].shared = FALSE, ![i].secret = @ + 1]
    /\ req' = [req EXCEPT ![p].at = "reply", ![p].secret = regs[i].secret + 1]
    /\ UNCHANGED <<game, lastId, lock, held, dealt>>

\* The claim replaces the secret where the row is still unclaimed.
Claim(p) ==
    LET i == req[p].reg IN
    /\ req[p].at = "claim"
    /\ lock[i] = Free
    /\ \/ /\ i \in Regs /\ regs[i].shared
          /\ regs' = [regs EXCEPT ![i].shared = FALSE, ![i].secret = @ + 1]
          /\ req' = [req EXCEPT ![p].at = "reply", ![p].secret = regs[i].secret + 1]
          /\ UNCHANGED <<game, lastId, lock, held, dealt>>
       \/ ~(i \in Regs /\ regs[i].shared) /\ Fail(p)

\* createRegistration counts the rows, and then inserts in a statement of its own.
CountRegs(p) ==
    /\ req[p].at = "count"
    /\ \/ /\ Cardinality(Regs) < MaxRegs
          /\ Goto(p, [req[p] EXCEPT !.at = "insert"]) /\ UNCHANGED lock
       \/ Cardinality(Regs) >= MaxRegs /\ Fail(p)

\* Mutant: no unique index on the name.
CanInsertTwice(n) == Exists /\ lastId < MaxId

\* The unique (game, name) index and the foreign key decide whether it goes in.
CanInsert(n) == Exists /\ n \notin NamesTaken /\ lastId < MaxId

\* The codes are unique keys of the game: an insert's foreign key check waits for
\* a transaction that is minting them.
Minting == \E o \in Req : req[o].at = "backfill" /\ req[o].code = 0

\* Mutant: the id does not come off the serial.
InsertUnnumbered(p) ==
    /\ req[p].at = "insert" /\ CanInsert(req[p].name) /\ ~Minting
    /\ regs' = [j \in Regs \cup {lastId + 1} |->
                  IF j \in Regs THEN regs[j] ELSE NewRow(req[p].name, req[p].shared)]
    /\ End(p)
    /\ UNCHANGED <<game, lastId, held, dealt>>

Insert(p) ==
    LET i == lastId + 1 IN
    /\ req[p].at = "insert" /\ ~Minting
    /\ \/ /\ CanInsert(req[p].name)
          /\ regs' = [j \in Regs \cup {i} |->
                        IF j = i THEN NewRow(req[p].name, req[p].shared) ELSE regs[j]]
          /\ lastId' = i
          /\ \/ req[p].shared /\ End(p)
             \/ /\ ~req[p].shared
                /\ req' = [req EXCEPT ![p].at = "reply", ![p].reg = i, ![p].secret = 1]
                /\ UNCHANGED lock
          /\ UNCHANGED <<game, held, dealt>>
       \/ ~CanInsert(req[p].name) /\ Fail(p)

\* The joining phone receives its secret and stores it.
Reply(p) ==
    /\ req[p].at = "reply"
    /\ held' = held \cup {[reg |-> req[p].reg, secret |-> req[p].secret]}
    /\ End(p)
    /\ UNCHANGED <<db, dealt>>

BeginRemove(p) ==
    /\ "remove" \in Ops
    /\ game.phase \in {"open", "closed"} /\ Exists
    /\ \E i \in Regs : Begin(p, [Idle EXCEPT !.at = "remove", !.reg = i])

\* The transaction deletes the row; its next statement finds the picks of it.
RemoveDelete(p) ==
    LET i == req[p].reg IN
    /\ req[p].at = "remove"
    /\ lock[i] = Free
    /\ \/ /\ i \in Regs
          /\ Lock(p, i)
          /\ Goto(p, [req[p] EXCEPT !.at = "unpick",
                         !.todo = {j \in Regs \ {i} : regs[j].pick = i}])
       \/ i \notin Regs /\ Fail(p)

\* Each is locked in turn; one that was deleted or re-picked meanwhile is skipped.
RemoveUnpick(p) ==
    /\ req[p].at = "unpick"
    /\ \E j \in req[p].todo :
          /\ lock[j] = Free
          /\ IF j \in Regs /\ regs[j].pick = req[p].reg THEN Lock(p, j) ELSE UNCHANGED lock
          /\ Goto(p, [req[p] EXCEPT !.todo = @ \ {j}])

RemoveCommit(p) ==
    /\ req[p].at = "unpick" /\ req[p].todo = {}
    /\ regs' = [j \in Regs \ {req[p].reg} |->
                  IF lock[j] = p THEN [regs[j] EXCEPT !.pick = 0] ELSE regs[j]]
    /\ End(p)
    /\ UNCHANGED <<game, lastId, held, dealt>>

-----------------------------------------------------------------------------
(***************************************************************************)
(* SetTokenBagNeighbors: the phone's own registration by its secret, a     *)
(* first look at the phase, the neighbour checked, and then a transaction  *)
(* that writes the row BEFORE it reads the phase again.                    *)
(***************************************************************************)
Pickable == Exists /\ game.phase \in {"open", "closed"}

BeginPick(p) ==
    /\ "pick" \in Ops /\ Pickable
    /\ \E h \in held :
          /\ h.reg \in Regs /\ regs[h.reg].secret = h.secret
          /\ Begin(p, [Idle EXCEPT !.at = "target", !.reg = h.reg])

PickTarget(p) ==
    /\ req[p].at = "target"
    /\ \E t \in {0} \cup (Regs \ {req[p].reg}) :
          Goto(p, [req[p] EXCEPT !.at = "pick", !.pick = t])
    /\ UNCHANGED lock

PickWrite(p) ==
    /\ req[p].at = "pick"
    /\ lock[req[p].reg] = Free
    /\ \/ /\ req[p].reg \in Regs
          /\ Lock(p, req[p].reg)
          /\ Goto(p, [req[p] EXCEPT !.at = "recheck"])
       \/ req[p].reg \notin Regs /\ Fail(p)

\* Mutant: the first look at the phase is believed.
PickRecheckBelieving(p) ==
    /\ req[p].at = "recheck"
    /\ Goto(p, [req[p] EXCEPT !.at = "save"]) /\ UNCHANGED lock

\* Mutant: the refusal forgets to roll back.
PickRecheckLeaking(p) ==
    /\ req[p].at = "recheck"
    /\ \/ Pickable /\ Goto(p, [req[p] EXCEPT !.at = "save"]) /\ UNCHANGED lock
       \/ ~Pickable /\ Goto(p, Idle) /\ UNCHANGED lock

PickRecheck(p) ==
    /\ req[p].at = "recheck"
    /\ \/ Pickable /\ Goto(p, [req[p] EXCEPT !.at = "save"]) /\ UNCHANGED lock
       \/ ~Pickable /\ Fail(p)

PickCommit(p) ==
    /\ req[p].at = "save"
    /\ regs' = [regs EXCEPT ![req[p].reg].pick = req[p].pick]
    /\ End(p)
    /\ UNCHANGED <<game, lastId, held, dealt>>

-----------------------------------------------------------------------------
(***************************************************************************)
(* Dealing the roles, and taking the deal back.                            *)
(***************************************************************************)
BeginReveal(p) ==
    /\ "reveal" \in Ops
    /\ game.state = "setup" /\ game.phase = "closed"
    /\ Begin(p, [Idle EXCEPT !.at = "reveal", !.seats = game.seats])

\* Everyone in the bag holds exactly one role of the copied grimoire.
Dealable(seats) ==
    Regs # {} /\ \A i \in Regs : \E r \in Role : RolesOf(regs[i].name, seats) = {r}

Assignments(seats) ==
    [i \in RegId |-> IF i \in Regs THEN CHOOSE r \in Role : seats[r] = regs[i].name
                     ELSE NoRole]

\* The transaction lists the registrations and matches their names to the roles.
RevealRead(p) ==
    /\ req[p].at = "reveal"
    /\ \/ /\ Dealable(req[p].seats)
          /\ Goto(p, [req[p] EXCEPT !.at = "assign", !.todo = Regs,
                         !.plan = Assignments(req[p].seats)])
          /\ UNCHANGED lock
       \/ ~Dealable(req[p].seats) /\ Fail(p)

\* Mutant: the error path forgets to roll back.
RevealAssignLeaking(p) ==
    /\ req[p].at = "assign"
    /\ \E i \in req[p].todo :
          /\ lock[i] = Free
          /\ \/ /\ i \in Regs
                /\ Lock(p, i)
                /\ Goto(p, [req[p] EXCEPT !.todo = @ \ {i}])
             \/ i \notin Regs /\ Goto(p, Idle) /\ UNCHANGED lock

\* It updates them one by one, in the random order of a Go map.
RevealAssign(p) ==
    /\ req[p].at = "assign"
    /\ \E i \in req[p].todo :
          /\ lock[i] = Free
          /\ \/ /\ i \in Regs
                /\ Lock(p, i)
                /\ Goto(p, [req[p] EXCEPT !.todo = @ \ {i}])
             \/ i \notin Regs /\ Fail(p)

\* Last it sets the phase, unconditionally, and commits.
RevealCommit(p) ==
    LET plan == req[p].plan
        mine == {i \in RegId : plan[i] # NoRole} IN
    /\ req[p].at = "assign" /\ req[p].todo = {}
    /\ lock[GameRow] = Free
    /\ regs' = [i \in Regs |-> IF i \in mine
                               THEN [regs[i] EXCEPT !.role = plan[i]] ELSE regs[i]]
    /\ game' = [game EXCEPT !.phase = "revealed"]
    /\ dealt' = mine
    /\ End(p)
    /\ UNCHANGED <<lastId, held>>

BeginReset(p) ==
    /\ "reset" \in Ops
    /\ game.state = "setup" /\ game.phase # "inactive"
    /\ Begin(p, [Idle EXCEPT !.at = "reset"])

\* The wipe is one statement over the rows it finds when it starts ...
ResetRead(p) ==
    /\ req[p].at = "reset"
    /\ Goto(p, [req[p] EXCEPT !.at = "wipe", !.todo = Regs])
    /\ UNCHANGED lock

\* ... each of which it has to lock; a row deleted meanwhile is skipped.
ResetWipe(p) ==
    /\ req[p].at = "wipe"
    /\ \E i \in req[p].todo :
          /\ lock[i] = Free
          /\ IF i \in Regs THEN Lock(p, i) ELSE UNCHANGED lock
          /\ Goto(p, [req[p] EXCEPT !.todo = @ \ {i}])

\* Mutant: the phase goes back whatever the state is.
ResetUnconditional(p) ==
    /\ req[p].at = "wipe" /\ req[p].todo = {}
    /\ lock[GameRow] = Free
    /\ regs' = [i \in Regs |-> IF lock[i] = p
                               THEN [regs[i] EXCEPT !.role = NoRole] ELSE regs[i]]
    /\ game' = [game EXCEPT !.phase = "closed"]
    /\ dealt' = {}
    /\ End(p)
    /\ UNCHANGED <<lastId, held>>

\* The phase goes back to closed only where the game is still in setup;
\* otherwise the wipe rolls back too.
ResetCommit(p) ==
    /\ req[p].at = "wipe" /\ req[p].todo = {}
    /\ lock[GameRow] = Free
    /\ \/ /\ game.state = "setup"
          /\ regs' = [i \in Regs |-> IF lock[i] = p
                                     THEN [regs[i] EXCEPT !.role = NoRole] ELSE regs[i]]
          /\ game' = [game EXCEPT !.phase = "closed"]
          /\ dealt' = {}
          /\ End(p)
          /\ UNCHANGED <<lastId, held>>
       \/ game.state # "setup" /\ Fail(p)

-----------------------------------------------------------------------------
(***************************************************************************)
(* The other handlers that write the game row, as one step each: a         *)
(* conditional write (StartGame), a write whose own check cannot go stale  *)
(* (EndGame: nothing leaves in_progress but EndGame), one whose check is   *)
(* of a stale copy and decides nothing (the grimoire edits), and a         *)
(* transaction that locks every row it deletes before it commits.          *)
(***************************************************************************)
UnchangedByGame == UNCHANGED <<lastId, lock, req, held>>

\* UpdateGrimoireState, UpdateGameRoles, ...: one role's seat changes.
EditSeat ==
    /\ "seat" \in Ops /\ Exists /\ lock[GameRow] = Free
    /\ \E r \in Role, n \in Name \cup {NoName} : game' = [game EXCEPT !.seats[r] = n]
    /\ UNCHANGED <<regs, dealt>> /\ UnchangedByGame

StartGame ==
    /\ "start" \in Ops /\ game.state = "setup" /\ lock[GameRow] = Free
    /\ game' = [game EXCEPT !.state = "in_progress"]
    /\ UNCHANGED <<regs, dealt>> /\ UnchangedByGame

EndGame ==
    /\ "end" \in Ops /\ game.state = "in_progress" /\ lock[GameRow] = Free
    /\ game' = [game EXCEPT !.state = "completed"]
    /\ UNCHANGED <<regs, dealt>> /\ UnchangedByGame

DeleteGame ==
    /\ "delete" \in Ops /\ Exists
    /\ \A x \in Row : lock[x] = Free
    /\ game' = [game EXCEPT !.state = "deleted"]
    /\ regs' = [i \in {} |-> NewRow(NoName, TRUE)]
    /\ dealt' = {}
    /\ UnchangedByGame

-----------------------------------------------------------------------------
Handler(p) ==
    \/ BeginOpen(p) \/ BeginClose(p) \/ BeginAdd(p) \/ BeginJoin(p) \/ BeginJoinShared(p)
    \/ BeginRemove(p) \/ BeginPick(p) \/ BeginReveal(p) \/ BeginReset(p)

Step(p) ==
    \/ OpenWrite(p) \/ OpenCommit(p) \/ CloseWrite(p)
    \/ JoinLookup(p) \/ Claim(p) \/ CountRegs(p) \/ Insert(p) \/ Reply(p)
    \/ RemoveDelete(p) \/ RemoveUnpick(p) \/ RemoveCommit(p)
    \/ PickTarget(p) \/ PickWrite(p) \/ PickRecheck(p) \/ PickCommit(p)
    \/ RevealRead(p) \/ RevealAssign(p) \/ RevealCommit(p)
    \/ ResetRead(p) \/ ResetWipe(p) \/ ResetCommit(p)

Environment == EditSeat \/ StartGame \/ EndGame \/ DeleteGame

Next == (\E p \in Req : Handler(p) \/ Step(p) \/ Abort(p)) \/ Environment

Spec == Init /\ [][Next]_vars

-----------------------------------------------------------------------------
(***************************************************************************)
(* What the bag promises.                                                  *)
(***************************************************************************)
RequestRow == [at : Point, name : Name \cup {NoName}, shared : BOOLEAN,
               reg : Row, pick : Row, secret : Nat, seats : Seating,
               code : Nat, fill : SUBSET Name, todo : SUBSET RegId,
               plan : [RegId -> Role \cup {NoRole}]]
Naming == {"lookup", "count", "insert"}
Owning == {"claim", "reply", "remove", "unpick", "target", "pick", "recheck", "save"}
Request == {q \in RequestRow : /\ q.at \in Naming => q.name \in Name
                               /\ q.at \in Owning => q.reg \in RegId}

\* Type invariant.  Registration ids come off a serial: a row's id is one the
\* serial has handed out.
TypeOK ==
    /\ game \in Game
    /\ lastId \in Row
    /\ Regs \subseteq 1..lastId /\ regs \in [Regs -> Registration]
    /\ lock \in [Row -> Req \cup {Free}]
    /\ req \in [Req -> Request]
    /\ held \subseteq [reg : RegId, secret : Nat]
    /\ dealt \subseteq RegId

\* A secret that a phone was told keeps identifying its player for as long as
\* the registration exists: of two phones racing for one unclaimed name, the
\* loser is told so, and nothing takes the winner's secret away
\* (claimRegistration's conditional write, the unique name index, ids that are
\* never reused).
HeldSecretsWork ==
    \A h \in held : h.reg \in Regs => regs[h.reg].secret = h.secret

\* While the bag is revealed, a player the reveal dealt to does not change
\* seat: a pick changes only by losing a neighbour that was removed.  (The
\* order of write and re-read in SetTokenBagNeighbors.)
PicksFrozenStep ==
    \A i \in dealt \cap Regs :
        game.phase = "revealed" /\ game'.phase = "revealed" /\ i \in DOMAIN regs' =>
            \/ regs'[i].pick = regs[i].pick
            \/ regs'[i].pick = 0 /\ regs[i].pick \notin DOMAIN regs'
PicksFrozen == [][PicksFrozenStep]_vars

\* On a revealed bag every player the reveal dealt to holds a role, and no two
\* of them hold the same one, whatever resets, joins and grimoire edits ran
\* beside the reveal.
DealtHoldOneRole ==
    game.phase = "revealed" =>
        \A i, j \in dealt \cap Regs :
            /\ regs[i].role # NoRole
            /\ i # j => regs[i].role # regs[j].role

\* Once the game has left setup, no step takes a player's role off the record
\* (ResetTokenBag's write is conditional on the state, and its wipe rolls back).
StartSealsRolesStep ==
    \A i \in Regs \cap DOMAIN regs' :
        game.state # "setup" /\ regs[i].role # NoRole => regs'[i].role # NoRole
StartSealsRoles == [][StartSealsRolesStep]_vars

\* A row is locked only by a request that is inside its transaction: every
\* error path rolls back, so no row stays locked with nobody to release it.
TxPoint == {"backfill", "unpick", "recheck", "save", "assign", "wipe"}
LocksOwned == \A x \in Row : lock[x] # Free => req[lock[x]].at \in TxPoint
=============================================================================
