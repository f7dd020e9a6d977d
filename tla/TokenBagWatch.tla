---------------------------- MODULE TokenBagWatch ----------------------------
(***************************************************************************)
(* How players' phones follow the token bag of one game.  A handler that   *)
(* changes the bag commits first and then publishes a tick to the hub.     *)
(* The tick carries nothing: each phone's stream re-reads the database and *)
(* sends a complete snapshot.  Phones lose their connection and dial       *)
(* again, and what they show also comes from calls of their own, whose     *)
(* answers race with the stream.                                           *)
(***************************************************************************)
EXTENDS Naturals

CONSTANTS Phone,      \* players' devices, each of which holds a credential
          Token,      \* characters
          Role,       \* those in play, one of which a player is dealt
          NoToken,    \* no character
          Subs,       \* what bag substitutions may make of the tokens
          Nothing,    \* no message on the wire
          MaxWrites,  \* bound on the changes of the bag
          MaxCuts     \* bound on lost connections and server restarts

ASSUME NoTokenAssumption == NoToken \notin Token
ASSUME RoleAssumption == Role \subseteq Token
ASSUME SubsAssumption == Subs \subseteq [Token -> Token]
ASSUME BoundAssumption == MaxWrites \in Nat /\ MaxCuts \in Nat

VARIABLES game,     \* the games row, as far as players see it; "shows" is what its
                    \* substitutions make of each token (the Drunk's is a townsfolk's)
          list,     \* a number for what the list of players shows
          reg,      \* each phone's registration: is it there, and the role dealt to it
          pending,  \* handlers that have committed and not yet published
          tick,     \* the hub: each phone's tick channel, one slot
          stream,   \* the server's goroutine for each phone
          wire,     \* the snapshot on its way to each phone
          call,     \* each phone's other request in flight
          view,     \* what each phone shows
          writes, cuts

vars == <<game, list, reg, pending, tick, stream, wire, call, view, writes, cuts>>
db == <<game, list, reg>>
phones == <<wire, call, view>>

Snapshot == [phase : {"inactive", "closed", "revealed"}, started : BOOLEAN, name : Nat,
             list : Nat, self : BOOLEAN, token : Token \cup {NoToken}]
ASSUME NothingAssumption == Nothing \notin Snapshot
Ended == [phase |-> "inactive", started |-> FALSE, name |-> 0, list |-> 0, self |-> FALSE,
          token |-> NoToken]

\* The token a player holds who was dealt the role: bag substitutions win.
tokenCharacter(g, role) == IF role = NoToken THEN NoToken ELSE g.shows[role]

\* buildWatchSnapshot: no token but on a revealed bag of a game in setup.
Build(g, l, r) ==
    IF ~g.exists THEN Ended
    ELSE [phase |-> g.phase, started |-> g.started, name |-> g.name, list |-> l,
          self |-> r.here,
          token |-> IF r.here /\ g.phase = "revealed" /\ ~g.started
                    THEN tokenCharacter(g, r.role) ELSE NoToken]

\* What the database has for a phone now.
Latest(p) == Build(game, list, reg[p])

FreshGame == [exists |-> TRUE, phase |-> "closed", started |-> FALSE, name |-> 0,
              shows |-> [t \in Token |-> t]]
Off == [at |-> "off", game |-> FreshGame, list |-> 0, role |-> NoToken, snap |-> Ended]
Resting == [at |-> "idle", role |-> NoToken, game |-> FreshGame, snap |-> Ended]

\* The bag was opened before anybody had its code; an open one counts as closed.
Init ==
    /\ game = FreshGame
    /\ list = 0
    /\ reg = [p \in Phone |-> [here |-> TRUE, role |-> NoToken]]
    /\ pending = 0
    /\ tick = [p \in Phone |-> "none"]
    /\ stream = [p \in Phone |-> Off]
    /\ wire = [p \in Phone |-> Nothing]
    /\ call = [p \in Phone |-> Resting]
    /\ view = [p \in Phone |-> Ended]
    /\ writes = 0 /\ cuts = 0

-----------------------------------------------------------------------------
(***************************************************************************)
(* The handlers that change the bag, each at its commit.  Their gates read  *)
(* the game before they write (TokenBag has those races), so a guard here   *)
(* is only what the write itself depends on.                               *)
(***************************************************************************)
Commit ==
    /\ writes < MaxWrites /\ writes' = writes + 1
    /\ pending' = pending + 1
    /\ UNCHANGED <<tick, stream, phones, cuts>>

\* Somebody joins, claims a name, is added, or picks a neighbour.
EditList == game.exists /\ list' = list + 1 /\ Commit /\ UNCHANGED <<game, reg>>

Deal ==
    /\ game.exists /\ game.phase = "closed"
    /\ game' = [game EXCEPT !.phase = "revealed"]
    /\ \E role \in [Phone -> Role] :
          reg' = [p \in Phone |-> IF reg[p].here THEN [reg[p] EXCEPT !.role = role[p]]
                                  ELSE reg[p]]
    /\ Commit /\ UNCHANGED list

Reset ==
    /\ game.exists /\ ~game.started
    /\ game' = [game EXCEPT !.phase = "closed"]
    /\ reg' = [p \in Phone |-> [reg[p] EXCEPT !.role = NoToken]]
    /\ Commit /\ UNCHANGED list

RemovePlayer ==
    /\ game.exists
    /\ \E p \in Phone :
          /\ reg[p].here
          /\ reg' = [reg EXCEPT ![p] = [here |-> FALSE, role |-> NoToken]]
    /\ list' = list + 1
    /\ Commit /\ UNCHANGED game

Start ==
    /\ game.exists /\ ~game.started
    /\ game' = [game EXCEPT !.started = TRUE]
    /\ Commit /\ UNCHANGED <<list, reg>>

Delete ==
    /\ game.exists
    /\ game' = [game EXCEPT !.exists = FALSE]
    /\ reg' = [p \in Phone |-> [here |-> FALSE, role |-> NoToken]]
    /\ list' = list + 1
    /\ Commit

\* UpdateGameName writes the game row and publishes nothing.
Rename ==
    /\ game.exists /\ writes < MaxWrites
    /\ game' = [game EXCEPT !.name = @ + 1]
    /\ writes' = writes + 1
    /\ UNCHANGED <<list, reg, pending, tick, stream, phones, cuts>>

\* UpdateBagSubstitutions, ReassignBagSubstitution, RandomizeRoles and
\* UpdateGameRoles write the substitutions, dealt bag or not, and publish nothing.
Substitute ==
    /\ game.exists /\ writes < MaxWrites
    /\ \E s \in Subs \ {game.shows} : game' = [game EXCEPT !.shows = s]
    /\ writes' = writes + 1
    /\ UNCHANGED <<list, reg, pending, tick, stream, phones, cuts>>

\* Mutant: a tick channel without a slot reaches only streams that wait for it.
TickedUnbuffered(t) ==
    [p \in Phone |-> IF stream[p].at = "wait" /\ t[p] # "none" THEN "full" ELSE t[p]]

\* Every subscriber's slot is filled; one that is full already stays so.
Ticked(t) == [p \in Phone |-> IF t[p] = "none" THEN "none" ELSE "full"]

Publish ==
    /\ pending > 0 /\ pending' = pending - 1
    /\ tick' = Ticked(tick)
    /\ UNCHANGED <<db, stream, phones, writes, cuts>>

-----------------------------------------------------------------------------
(***************************************************************************)
(* A phone's stream.  It subscribes before its first read.                 *)
(***************************************************************************)
Follow(p, s) ==
    /\ stream' = [stream EXCEPT ![p] = s]
    /\ UNCHANGED <<db, pending, call, writes, cuts>>

\* The phone dials; a code nobody knows ends its loop for good.
Dial(p) ==
    /\ stream[p].at = "off" /\ wire[p] = Nothing
    /\ Follow(p, [Off EXCEPT !.at = IF game.exists THEN "subscribe" ELSE "dead"])
    /\ UNCHANGED <<tick, wire, view>>

Subscribe(p) ==
    /\ stream[p].at = "subscribe"
    /\ tick' = [tick EXCEPT ![p] = "empty"]
    /\ Follow(p, [Off EXCEPT !.at = "game"])
    /\ UNCHANGED <<wire, view>>

\* watchSnapshot's three reads: the game, the players, the phone's own row.
ReadGame(p) ==
    /\ stream[p].at = "game"
    /\ Follow(p, IF game.exists THEN [Off EXCEPT !.at = "list", !.game = game]
                 ELSE [Off EXCEPT !.at = "send"])
    /\ UNCHANGED <<tick, wire, view>>

ReadList(p) ==
    /\ stream[p].at = "list"
    /\ Follow(p, [stream[p] EXCEPT !.at = "self", !.list = list])
    /\ UNCHANGED <<tick, wire, view>>

ReadSelf(p) ==
    /\ stream[p].at = "self"
    /\ Follow(p, [Off EXCEPT !.at = "send", !.role = reg[p].role,
                     !.snap = Build(stream[p].game, stream[p].list, reg[p])])
    /\ UNCHANGED <<tick, wire, view>>

\* Mutant: a stream that ends keeps its subscription.
SendLeaking(p) ==
    /\ stream[p].at = "send" /\ wire[p] = Nothing
    /\ wire' = [wire EXCEPT ![p] = stream[p].snap]
    /\ Follow(p, IF stream[p].snap = Ended THEN Off ELSE [stream[p] EXCEPT !.at = "wait"])
    /\ UNCHANGED <<tick, view>>

\* Send blocks while the last snapshot is on the wire.  After the final one the
\* stream ends, and gives its subscription back.
Send(p) ==
    LET ended == stream[p].snap = Ended IN
    /\ stream[p].at = "send" /\ wire[p] = Nothing
    /\ wire' = [wire EXCEPT ![p] = stream[p].snap]
    /\ tick' = [tick EXCEPT ![p] = IF ended THEN "none" ELSE @]
    /\ Follow(p, IF ended THEN Off ELSE [stream[p] EXCEPT !.at = "wait"])
    /\ UNCHANGED view

WakeOnTick(p) ==
    /\ stream[p].at = "wait" /\ tick[p] = "full"
    /\ tick' = [tick EXCEPT ![p] = "empty"]
    /\ Follow(p, [Off EXCEPT !.at = "game"])
    /\ UNCHANGED <<wire, view>>

\* Mutant: the heartbeat sends the last snapshot again instead of a fresh one.
HeartbeatResend(p) ==
    /\ stream[p].at = "wait"
    /\ Follow(p, [stream[p] EXCEPT !.at = "send"])
    /\ UNCHANGED <<tick, wire, view>>

Heartbeat(p) ==
    /\ stream[p].at = "wait"
    /\ Follow(p, [Off EXCEPT !.at = "game"])
    /\ UNCHANGED <<tick, wire, view>>

\* The phone replaces what it shows by the snapshot.
Deliver(p) ==
    /\ wire[p] # Nothing
    /\ view' = [view EXCEPT ![p] = wire[p]]
    /\ wire' = [wire EXCEPT ![p] = Nothing]
    /\ UNCHANGED <<db, pending, tick, stream, call, writes, cuts>>

\* A connection is lost, with what was on the wire.
Cut(p) ==
    /\ stream[p].at \notin {"off", "dead"}
    /\ cuts < MaxCuts /\ cuts' = cuts + 1
    /\ stream' = [stream EXCEPT ![p] = Off]
    /\ tick' = [tick EXCEPT ![p] = "none"]
    /\ wire' = [wire EXCEPT ![p] = Nothing]
    /\ UNCHANGED <<db, pending, call, view, writes>>

\* The server restarts: the hub, the streams and every request are gone, and
\* the ticks of commits that had not published yet are never sent.
Restart ==
    /\ cuts < MaxCuts /\ cuts' = cuts + 1
    /\ pending' = 0
    /\ tick' = [p \in Phone |-> "none"]
    /\ stream' = [p \in Phone |-> IF stream[p].at = "dead" THEN stream[p] ELSE Off]
    /\ wire' = [p \in Phone |-> Nothing]
    /\ call' = [p \in Phone |-> Resting]
    /\ UNCHANGED <<db, view, writes>>

-----------------------------------------------------------------------------
(***************************************************************************)
(* The phone's own requests.                                               *)
(***************************************************************************)
Calls(p, c) == call' = [call EXCEPT ![p] = c]
Elsewhere == UNCHANGED <<stream, wire, cuts>>

\* GetMyToken reads the registration and then its game; the phone puts the
\* answer on the screen whenever it arrives.  Without a role it is an error,
\* whatever the game says.
TokenBegin(p) ==
    /\ call[p].at = "idle" /\ reg[p].here /\ reg[p].role # NoToken
    /\ Calls(p, [Resting EXCEPT !.at = "token", !.role = reg[p].role])
    /\ UNCHANGED <<db, pending, tick, view, writes>> /\ Elsewhere

TokenRead(p) ==
    LET granted == game.exists /\ ~game.started /\ game.phase = "revealed" IN
    /\ call[p].at = "token"
    /\ Calls(p, IF granted
                THEN [call[p] EXCEPT !.at = "tokenAnswer", !.role = tokenCharacter(game, @)]
                ELSE Resting)
    /\ UNCHANGED <<db, pending, tick, view, writes>> /\ Elsewhere

TokenAnswer(p) ==
    /\ call[p].at = "tokenAnswer"
    /\ view' = [view EXCEPT ![p].token = call[p].role]
    /\ Calls(p, Resting)
    /\ UNCHANGED <<db, pending, tick, writes>> /\ Elsewhere

\* SetTokenBagNeighbors answers with a snapshot, of the game as it was read at
\* the start and the players as they are after its commit and its publish.
PickBegin(p) ==
    /\ call[p].at = "idle" /\ reg[p].here
    /\ game.exists /\ game.phase = "closed"
    /\ Calls(p, [Resting EXCEPT !.at = "pick", !.game = game])
    /\ UNCHANGED <<db, pending, tick, view, writes>> /\ Elsewhere

PickCommit(p) ==
    /\ call[p].at = "pick"
    /\ \/ /\ reg[p].here /\ game.exists /\ game.phase = "closed" /\ writes < MaxWrites
          /\ list' = list + 1 /\ writes' = writes + 1
          /\ Calls(p, [call[p] EXCEPT !.at = "publish", !.role = reg[p].role])
          /\ UNCHANGED <<game, reg>>
       \/ /\ ~(reg[p].here /\ game.exists /\ game.phase = "closed" /\ writes < MaxWrites)
          /\ Calls(p, Resting)
          /\ UNCHANGED <<db, writes>>
    /\ UNCHANGED <<pending, tick, view>> /\ Elsewhere

PickPublish(p) ==
    /\ call[p].at = "publish"
    /\ tick' = Ticked(tick)
    /\ Calls(p, [call[p] EXCEPT !.at = "list"])
    /\ UNCHANGED <<db, pending, view, writes>> /\ Elsewhere

PickRead(p) ==
    LET own == [here |-> TRUE, role |-> call[p].role] IN
    /\ call[p].at = "list"
    /\ Calls(p, [Resting EXCEPT !.at = "pickAnswer", !.snap = Build(call[p].game, list, own)])
    /\ UNCHANGED <<db, pending, tick, view, writes>> /\ Elsewhere

PickAnswer(p) ==
    /\ call[p].at = "pickAnswer"
    /\ view' = [view EXCEPT ![p] = call[p].snap]
    /\ Calls(p, Resting)
    /\ UNCHANGED <<db, pending, tick, writes>> /\ Elsewhere

-----------------------------------------------------------------------------
Writer == EditList \/ Deal \/ Reset \/ RemovePlayer \/ Start \/ Delete \/ Rename
          \/ Substitute

Stream(p) ==
    \/ Dial(p) \/ Subscribe(p) \/ ReadGame(p) \/ ReadList(p) \/ ReadSelf(p) \/ Send(p)
    \/ WakeOnTick(p) \/ Heartbeat(p)

Call(p) ==
    \/ TokenRead(p) \/ TokenAnswer(p)
    \/ PickCommit(p) \/ PickPublish(p) \/ PickRead(p) \/ PickAnswer(p)

Next ==
    \/ Writer \/ Publish \/ Restart
    \/ \E p \in Phone : \/ Stream(p) \/ Deliver(p) \/ Cut(p)
                        \/ TokenBegin(p) \/ PickBegin(p) \/ Call(p)

Spec == Init /\ [][Next]_vars

\* Goroutines and the phones' loops are scheduled, timers fire, and a message
\* on a connection that holds is delivered.  Nobody has to change the bag.
Fairness ==
    /\ WF_vars(Publish)
    /\ \A p \in Phone : WF_vars(Stream(p)) /\ WF_vars(Deliver(p)) /\ WF_vars(Call(p))

LiveSpec == Spec /\ Fairness

-----------------------------------------------------------------------------
(***************************************************************************)
(* What the streams promise.                                               *)
(***************************************************************************)
GameRow == [exists : BOOLEAN, phase : {"closed", "revealed"}, started : BOOLEAN, name : Nat,
            shows : [Token -> Token]]
StreamRow == [at : {"off", "dead", "subscribe", "game", "list", "self", "send", "wait"},
              game : GameRow, list : Nat, role : Token \cup {NoToken}, snap : Snapshot]
CallRow == [at : {"idle", "token", "tokenAnswer", "pick", "publish", "list", "pickAnswer"},
            role : Token \cup {NoToken}, game : GameRow, snap : Snapshot]

\* Type invariant.  A stream that is over or has not begun holds no tick channel
\* of the hub (cancel is deferred), and a running one holds one.
TypeOK ==
    /\ game \in GameRow
    /\ list \in Nat /\ pending \in Nat /\ writes \in Nat /\ cuts \in Nat
    /\ reg \in [Phone -> [here : BOOLEAN, role : Token \cup {NoToken}]]
    /\ tick \in [Phone -> {"none", "empty", "full"}]
    /\ stream \in [Phone -> StreamRow]
    /\ wire \in [Phone -> Snapshot \cup {Nothing}]
    /\ call \in [Phone -> CallRow]
    /\ view \in [Phone -> Snapshot]
    /\ \A p \in Phone : tick[p] = "none" <=> stream[p].at \in {"off", "dead", "subscribe"}

\* A snapshot but for what is written without a publish: the game's name, and
\* which token is shown for the role (that one is shown at all is published).
Loud(s, role) == [s EXCEPT !.name = 0, !.token = IF @ = NoToken THEN NoToken ELSE role]

Publishing == pending > 0 \/ \E p \in Phone : call[p].at = "publish"

\* "Subscribe happened before this first read, so no change can slip through":
\* a stream that waits with no tick has sent what the database has now, unless
\* somebody has yet to publish a change.  Its three reads and the ticks that
\* were dropped on a full slot make no difference.  It is said of what handlers
\* publish: phase, start, players and the role dealt.  A new name, or another
\* substitution for the role, stays unseen until a tick for something else or
\* the heartbeat (Converges).
NoLostTick ==
    \A p \in Phone :
        stream[p].at = "wait" /\ tick[p] = "empty" /\ ~Publishing =>
            Loud(stream[p].snap, stream[p].role) = Loud(Latest(p), reg[p].role)

\* A phone shows what the database has for it, or knows that the game is gone.
Current(p) ==
    \/ view[p] = Latest(p)
    \/ ~game.exists /\ stream[p].at = "dead"

\* Once nothing changes and the network holds, every phone comes to show the
\* latest state and keeps showing it: whatever connections were lost, answers
\* came late or changes were never published, and a withdrawn token is gone
\* from every screen.
Converges == \A p \in Phone : <>[]Current(p)
=============================================================================
