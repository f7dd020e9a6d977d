------------------------- MODULE TokenBagWatchProofs -------------------------
(***************************************************************************)
(* Theorems about TokenBagWatch, for any number of phones and roles and    *)
(* for any bounds.  That every phone comes to show the latest state is a   *)
(* liveness property and stays with TLC; its safety half is proved here.   *)
(***************************************************************************)
EXTENDS TokenBagWatch, TLAPS

-----------------------------------------------------------------------------
(***************************************************************************)
(* Snapshots and rows.                                                     *)
(***************************************************************************)
RegRow == [here : BOOLEAN, role : Token \cup {NoToken}]

LEMMA Fresh0 == FreshGame \in GameRow
  BY DEF FreshGame, GameRow

LEMMA EndedIsSnapshot == Ended \in Snapshot
  BY DEF Ended, Snapshot

LEMMA OffRow ==
    /\ Off \in StreamRow /\ Off.at = "off" /\ Off.snap = Ended /\ Off.list = 0
    /\ Off.role = NoToken
  BY Fresh0, EndedIsSnapshot DEF Off, StreamRow

LEMMA RestingRow == Resting \in CallRow /\ Resting.at = "idle"
  BY Fresh0, EndedIsSnapshot DEF Resting, CallRow

LEMMA TokenIsOne ==
    ASSUME NEW g \in GameRow, NEW role \in Token \cup {NoToken}
    PROVE  /\ tokenCharacter(g, role) \in Token \cup {NoToken}
           /\ tokenCharacter(g, role) = NoToken <=> role = NoToken
  BY NoTokenAssumption DEF tokenCharacter, GameRow

LEMMA BuildIsSnapshot ==
    ASSUME NEW g \in GameRow, NEW l \in Nat, NEW r \in RegRow
    PROVE  Build(g, l, r) \in Snapshot
  <1>1. tokenCharacter(g, r.role) \in Token \cup {NoToken}
    BY TokenIsOne DEF RegRow
  <1> QED BY <1>1, EndedIsSnapshot DEF Build, Snapshot, GameRow, RegRow

\* Two game rows that differ in their names and substitutions at most.
Alike(g, h) == g.exists = h.exists /\ g.phase = h.phase /\ g.started = h.started

LEMMA LoudBuild ==
    ASSUME NEW g \in GameRow, NEW h \in GameRow, NEW l \in Nat, NEW r \in RegRow, Alike(g, h)
    PROVE  Loud(Build(g, l, r), r.role) = Loud(Build(h, l, r), r.role)
  <1>1. CASE ~g.exists
    BY <1>1 DEF Alike, Build
  <1>2. CASE g.exists
    <2> DEFINE t(k) == IF r.here /\ k.phase = "revealed" /\ ~k.started
                       THEN tokenCharacter(k, r.role) ELSE NoToken
               row(n, u) == [phase |-> g.phase, started |-> g.started, name |-> n,
                             list |-> l, self |-> r.here, token |-> u]
    <2>1. Build(g, l, r) = row(g.name, t(g)) /\ Build(h, l, r) = row(h.name, t(h))
      BY <1>2 DEF Alike, Build
    <2>2. t(g) = NoToken <=> t(h) = NoToken
      <3>1. /\ tokenCharacter(g, r.role) = NoToken <=> r.role = NoToken
            /\ tokenCharacter(h, r.role) = NoToken <=> r.role = NoToken
        BY TokenIsOne DEF RegRow
      <3> QED BY <3>1 DEF Alike
    <2> HIDE DEF t
    <2>3. ASSUME NEW n, NEW u
          PROVE  Loud(row(n, u), r.role) = row(0, IF u = NoToken THEN NoToken ELSE r.role)
      <3>1. row(n, u).token = u
        OBVIOUS
      <3> DEFINE v == IF u = NoToken THEN NoToken ELSE r.role
      <3>2. Loud(row(n, u), r.role) = [row(n, u) EXCEPT !.name = 0, !.token = v]
        BY <3>1 DEF Loud
      <3> HIDE DEF v
      <3>3. [row(n, u) EXCEPT !.name = 0, !.token = v] = row(0, v)
        <4>1. [row(n, u) EXCEPT !.name = 0] = row(0, u)
          OBVIOUS
        <4>2. [row(0, u) EXCEPT !.token = v] = row(0, v)
          OBVIOUS
        <4>3. [row(n, u) EXCEPT !.name = 0, !.token = v]
                = [[row(n, u) EXCEPT !.name = 0] EXCEPT !.token = v]
          OBVIOUS
        <4> QED BY <4>1, <4>2, <4>3
      <3> QED BY <3>2, <3>3 DEF v
    <2> HIDE DEF row
    <2> QED BY <2>1, <2>2, <2>3
  <1>3. g.exists \in BOOLEAN
    BY DEF GameRow
  <1> QED BY <1>1, <1>2, <1>3

-----------------------------------------------------------------------------
(***************************************************************************)
(* The inductive invariant.                                                *)
(***************************************************************************)

\* What a stream has read, or sent, is what the database has now.
UpToDate(s, g, l, r) ==
    /\ s.at \in {"list", "self"} => Alike(s.game, g)
    /\ s.at = "self" => s.list = l
    /\ s.at \in {"send", "wait"} => Loud(s.snap, s.role) = Loud(Build(g, l, r), r.role)

\* The same of a stream at any of its steps, while no tick waits for it and
\* nobody has yet to publish.
Follows ==
    \A p \in Phone :
        tick[p] = "empty" /\ ~Publishing => UpToDate(stream[p], game, list, reg[p])

IInv == TypeOK /\ Follows

-----------------------------------------------------------------------------
(***************************************************************************)
(* The handlers that change the bag, and the hub.                          *)
(***************************************************************************)
Data ==
    /\ game \in GameRow /\ list \in Nat /\ pending \in Nat /\ writes \in Nat /\ cuts \in Nat
    /\ reg \in [Phone -> RegRow]
Channels ==
    /\ tick \in [Phone -> {"none", "empty", "full"}]
    /\ stream \in [Phone -> StreamRow]
    /\ \A p \in Phone : tick[p] = "none" <=> stream[p].at \in {"off", "dead", "subscribe"}
Screens ==
    /\ wire \in [Phone -> Snapshot \cup {Nothing}]
    /\ call \in [Phone -> CallRow] /\ view \in [Phone -> Snapshot]

LEMMA TypeParts ==
    /\ TypeOK <=> Data /\ Channels /\ Screens
    /\ TypeOK' <=> Data' /\ Channels' /\ Screens'
  BY DEF TypeOK, Data, Channels, Screens, RegRow

\* A commit makes a publisher of its handler, so that nobody need be up to date.
LEMMA WriterKeeps ==
    ASSUME IInv, EditList \/ Deal \/ Reset \/ RemovePlayer \/ Start \/ Delete
    PROVE  IInv'
  <1>1. Commit
    BY DEF EditList, Deal, Reset, RemovePlayer, Start, Delete
  <1>2. Data /\ Channels /\ Screens
    BY TypeParts DEF IInv
  <1>3. /\ pending' = pending + 1 /\ writes' = writes + 1
        /\ UNCHANGED <<tick, stream, wire, call, view, cuts>>
    BY <1>1 DEF Commit, phones
  <1>4. game' \in GameRow /\ list' \in Nat
    <2>1. game \in GameRow /\ list \in Nat
      BY <1>2 DEF Data
    <2>2. CASE EditList \/ RemovePlayer
      BY <2>1, <2>2 DEF EditList, RemovePlayer
    <2>3. CASE Deal \/ Reset \/ Start
      <3>1. /\ list' = list
            /\ \/ game' = [game EXCEPT !.phase = "revealed"]
               \/ game' = [game EXCEPT !.phase = "closed"]
               \/ game' = [game EXCEPT !.started = TRUE]
        BY <2>3 DEF Deal, Reset, Start
      <3> QED BY <2>1, <3>1 DEF GameRow
    <2>4. CASE Delete
      <3>1. list' = list + 1 /\ \E b \in BOOLEAN : game' = [game EXCEPT !.exists = b]
        BY <2>4 DEF Delete
      <3> QED BY <2>1, <3>1 DEF GameRow
    <2> QED BY <2>2, <2>3, <2>4
  <1>5. reg' \in [Phone -> RegRow]
    <2>1. CASE EditList \/ Start
      BY <1>2, <2>1 DEF EditList, Start, Data
    <2>2. CASE Deal
      <3>1. PICK role \in [Phone -> Token] :
               reg' = [p \in Phone |-> IF reg[p].here THEN [reg[p] EXCEPT !.role = role[p]]
                                       ELSE reg[p]]
        BY <2>2, RoleAssumption DEF Deal
      <3> QED BY <1>2, <3>1 DEF Data, RegRow
    <2>3. CASE Reset
      BY <1>2, <2>3 DEF Reset, Data, RegRow
    <2>4. CASE RemovePlayer \/ Delete
      <3> DEFINE gone == [here |-> FALSE, role |-> NoToken]
      <3>1. gone \in RegRow /\ reg \in [Phone -> RegRow]
        BY <1>2 DEF RegRow, Data
      <3>2. \/ reg' = [p \in Phone |-> gone]
            \/ \E p \in Phone : reg' = [reg EXCEPT ![p] = gone]
        BY <2>4 DEF RemovePlayer, Delete
      <3> HIDE DEF gone
      <3> QED BY <3>1, <3>2
    <2> QED BY <2>1, <2>2, <2>3, <2>4
  <1>6. Data' /\ Channels' /\ Screens'
    BY <1>2, <1>3, <1>4, <1>5 DEF Data, Channels, Screens
  <1>7. Publishing'
    BY <1>2, <1>3 DEF Data, Publishing
  <1> QED BY <1>6, <1>7, TypeParts DEF IInv, Follows

\* A new name, or another substitution, is not published, and nobody is missing
\* anything but that.
LEMMA UnpublishedKeeps ==
    ASSUME IInv, Rename \/ Substitute PROVE IInv'
  <1>1. /\ \/ game' = [game EXCEPT !.name = game.name + 1]
           \/ \E s \in Subs : game' = [game EXCEPT !.shows = s]
        /\ writes' = writes + 1
        /\ UNCHANGED <<list, reg, pending, tick, stream, wire, call, view, cuts>>
    BY DEF Rename, Substitute, phones
  <1>2. Data /\ Channels /\ Screens
    BY TypeParts DEF IInv
  <1>3. game' \in GameRow /\ Alike(game, game')
    BY <1>1, <1>2, SubsAssumption DEF Data, GameRow, Alike
  <1>4. Data' /\ Channels' /\ Screens'
    BY <1>1, <1>2, <1>3 DEF Data, Channels, Screens
  <1>5. Publishing' <=> Publishing
    BY <1>1 DEF Publishing
  <1>6. ASSUME NEW p \in Phone, UpToDate(stream[p], game, list, reg[p])
        PROVE  UpToDate(stream[p], game', list, reg[p])
    <2>1. reg[p] \in RegRow /\ list \in Nat /\ game \in GameRow
      BY <1>2 DEF Data
    <2>2. Loud(Build(game, list, reg[p]), reg[p].role)
            = Loud(Build(game', list, reg[p]), reg[p].role)
      BY <1>3, <2>1, LoudBuild
    <2> QED BY <1>3, <1>6, <2>2 DEF UpToDate, Alike
  <1>7. Follows'
    BY <1>1, <1>5, <1>6 DEF IInv, Follows
  <1> QED BY <1>4, <1>7, TypeParts DEF IInv

\* A publish fills the slot of every subscriber: nobody is left to miss it.
LEMMA TicksFill ==
    ASSUME Channels, tick' = Ticked(tick), stream' = stream
    PROVE  /\ Channels' /\ \A p \in Phone : tick'[p] # "empty"
  BY DEF Channels, Ticked

LEMMA PublishKeeps ==
    ASSUME IInv, Publish PROVE IInv'
  <1>1. /\ pending > 0 /\ pending' = pending - 1 /\ tick' = Ticked(tick)
        /\ UNCHANGED <<game, list, reg, stream, wire, call, view, writes, cuts>>
    BY DEF Publish, db, phones
  <1>2. Data /\ Channels /\ Screens
    BY TypeParts DEF IInv
  <1>3. Channels' /\ \A p \in Phone : tick'[p] # "empty"
    BY <1>1, <1>2, TicksFill
  <1>4. Data' /\ Screens'
    BY <1>1, <1>2 DEF Data, Screens
  <1> QED BY <1>3, <1>4, TypeParts DEF IInv, Follows

-----------------------------------------------------------------------------
(***************************************************************************)
(* The streams.                                                            *)
(***************************************************************************)
LEMMA StreamMoves ==
    ASSUME IInv, NEW p \in Phone, NEW s \in StreamRow, NEW t \in {"none", "empty", "full"},
           UNCHANGED <<game, list, reg, pending, call, writes, cuts>>,
           stream' = [stream EXCEPT ![p] = s], tick' = [tick EXCEPT ![p] = t],
           wire' \in [Phone -> Snapshot \cup {Nothing}], view' = view,
           t = "none" <=> s.at \in {"off", "dead", "subscribe"},
           t = "empty" /\ ~Publishing => UpToDate(s, game, list, reg[p])
    PROVE  IInv'
  <1>1. Data /\ Channels /\ Screens
    BY TypeParts DEF IInv
  <1>2. /\ stream'[p] = s /\ tick'[p] = t
        /\ \A q \in Phone \ {p} : stream'[q] = stream[q] /\ tick'[q] = tick[q]
        /\ stream' \in [Phone -> StreamRow] /\ tick' \in [Phone -> {"none", "empty", "full"}]
    BY <1>1 DEF Channels
  <1>3. Channels'
    BY <1>1, <1>2 DEF Channels
  <1>4. Data' /\ Screens'
    BY <1>1 DEF Data, Screens
  <1>5. Publishing' <=> Publishing
    BY DEF Publishing
  <1>6. Follows'
    BY <1>2, <1>5 DEF IInv, Follows
  <1> QED BY <1>3, <1>4, <1>6, TypeParts DEF IInv

\* What a stream is at the start of each round.
LEMMA OffWith ==
    ASSUME NEW a \in {"off", "dead", "subscribe", "game", "list", "self", "send", "wait"}
    PROVE  [Off EXCEPT !.at = a] \in StreamRow /\ [Off EXCEPT !.at = a].at = a
           /\ [Off EXCEPT !.at = a].snap = Ended
  <1>1. DOMAIN Off = {"at", "game", "list", "role", "snap"}
    BY DEF Off
  <1>2. /\ [Off EXCEPT !.at = a].at = a /\ [Off EXCEPT !.at = a].snap = Ended
    BY <1>1, OffRow
  <1> QED BY <1>2, OffRow DEF StreamRow

LEMMA SubscribesKeep ==
    ASSUME IInv, NEW p \in Phone, Dial(p) \/ Subscribe(p) \/ WakeOnTick(p) \/ Heartbeat(p)
    PROVE  IInv'
  <1>1. Data /\ Channels /\ Screens
    BY TypeParts DEF IInv
  <1>2. UNCHANGED <<game, list, reg, pending, call, writes, cuts, wire, view>>
    BY DEF Dial, Subscribe, WakeOnTick, Heartbeat, Follow, db
  <1>3. wire' \in [Phone -> Snapshot \cup {Nothing}]
    BY <1>1, <1>2 DEF Screens
  <1>4. tick = [tick EXCEPT ![p] = tick[p]] /\ tick[p] \in {"none", "empty", "full"}
    BY <1>1 DEF Channels
  <1>5. CASE Dial(p)
    <2> DEFINE a == IF game.exists THEN "subscribe" ELSE "dead"
               s == [Off EXCEPT !.at = a]
    <2>1. stream' = [stream EXCEPT ![p] = s] /\ tick' = tick /\ stream[p].at = "off"
      BY <1>5 DEF Dial, Follow
    <2>2. s \in StreamRow /\ s.at = a /\ a \in {"subscribe", "dead"}
      BY OffWith
    <2>3. tick[p] = "none"
      BY <1>1, <2>1 DEF Channels
    <2> HIDE DEF s
    <2> QED BY <1>2, <1>3, <1>4, <2>1, <2>2, <2>3, StreamMoves
  <1>6. CASE Subscribe(p) \/ WakeOnTick(p)
    <2> DEFINE s == [Off EXCEPT !.at = "game"]
    <2>1. stream' = [stream EXCEPT ![p] = s] /\ tick' = [tick EXCEPT ![p] = "empty"]
      BY <1>6 DEF Subscribe, WakeOnTick, Follow
    <2>2. s \in StreamRow /\ s.at = "game"
      BY OffWith
    <2> HIDE DEF s
    <2> QED BY <1>2, <1>3, <2>1, <2>2, StreamMoves DEF UpToDate
  <1>7. CASE Heartbeat(p)
    <2> DEFINE s == [Off EXCEPT !.at = "game"]
    <2>1. stream' = [stream EXCEPT ![p] = s] /\ tick' = tick /\ stream[p].at = "wait"
      BY <1>7 DEF Heartbeat, Follow
    <2>2. s \in StreamRow /\ s.at = "game"
      BY OffWith
    <2>3. tick[p] # "none"
      BY <1>1, <2>1 DEF Channels
    <2> HIDE DEF s
    <2> QED BY <1>2, <1>3, <1>4, <2>1, <2>2, <2>3, StreamMoves DEF UpToDate
  <1> QED BY <1>5, <1>6, <1>7

\* The three reads: a tick that was dropped on a full slot, or is yet to come,
\* makes the stream read again.
LEMMA ReadGameKeeps ==
    ASSUME IInv, NEW p \in Phone, ReadGame(p) PROVE IInv'
  <1>1. Data /\ Channels /\ Screens
    BY TypeParts DEF IInv
  <1>2. /\ UNCHANGED <<game, list, reg, pending, call, writes, cuts, wire, view>>
        /\ stream[p].at = "game" /\ tick' = tick
    BY DEF ReadGame, Follow, db
  <1>3. wire' \in [Phone -> Snapshot \cup {Nothing}]
    BY <1>1, <1>2 DEF Screens
  <1>4. /\ tick = [tick EXCEPT ![p] = tick[p]] /\ tick[p] \in {"none", "empty", "full"}
        /\ tick[p] # "none"
    BY <1>1, <1>2 DEF Channels
  <1>5. CASE game.exists
    <2> DEFINE off == [Off EXCEPT !.at = "list"]
    <2>1. off \in StreamRow /\ off.at = "list"
      BY OffWith
    <2>2. [Off EXCEPT !.at = "list", !.game = game] = [off EXCEPT !.game = game]
      BY DEF Off
    <2>3. stream' = [stream EXCEPT ![p] = [off EXCEPT !.game = game]]
      BY <1>5, <2>2 DEF ReadGame, Follow
    <2> HIDE DEF off
    <2> DEFINE s == [off EXCEPT !.game = game]
    <2>4. s \in StreamRow /\ s.at = "list" /\ s.game = game
      BY <1>1, <2>1 DEF StreamRow, Data
    <2> HIDE DEF s
    <2>5. UpToDate(s, game, list, reg[p])
      BY <2>4 DEF UpToDate, Alike
    <2>6. stream' = [stream EXCEPT ![p] = s]
      BY <2>3 DEF s
    <2> QED BY <1>2, <1>3, <1>4, <2>4, <2>5, <2>6, StreamMoves
  <1>6. CASE ~game.exists
    <2> DEFINE s == [Off EXCEPT !.at = "send"]
    <2>1. s \in StreamRow /\ s.at = "send" /\ s.snap = Ended
      BY OffWith
    <2>2. stream' = [stream EXCEPT ![p] = s]
      BY <1>6 DEF ReadGame, Follow
    <2> HIDE DEF s
    <2>3. UpToDate(s, game, list, reg[p])
      <3>1. Build(game, list, reg[p]) = Ended /\ \A x, y : Loud(Ended, x) = Loud(Ended, y)
        BY <1>6 DEF Build, Loud, Ended
      <3> QED BY <2>1, <3>1 DEF UpToDate
    <2> QED BY <1>2, <1>3, <1>4, <2>1, <2>2, <2>3, StreamMoves
  <1> QED BY <1>5, <1>6

LEMMA ReadListKeeps ==
    ASSUME IInv, NEW p \in Phone, ReadList(p) PROVE IInv'
  <1> DEFINE q == stream[p]
             s == [q EXCEPT !.at = "self", !.list = list]
  <1>1. Data /\ Channels /\ Screens
    BY TypeParts DEF IInv
  <1>2. /\ UNCHANGED <<game, list, reg, pending, call, writes, cuts, wire, view>>
        /\ q.at = "list" /\ tick' = tick /\ stream' = [stream EXCEPT ![p] = s]
    BY DEF ReadList, Follow, db
  <1>3. wire' \in [Phone -> Snapshot \cup {Nothing}]
    BY <1>1, <1>2 DEF Screens
  <1>4. /\ tick = [tick EXCEPT ![p] = tick[p]] /\ tick[p] \in {"none", "empty", "full"}
        /\ tick[p] # "none" /\ q \in StreamRow
    BY <1>1, <1>2 DEF Channels
  <1>5. tick[p] = "empty" /\ ~Publishing => UpToDate(q, game, list, reg[p])
    BY DEF IInv, Follows
  <1> HIDE DEF q
  <1>6. s \in StreamRow /\ s.at = "self" /\ s.list = list /\ s.game = q.game
    BY <1>1, <1>4 DEF StreamRow, Data
  <1> HIDE DEF s
  <1>7. tick[p] = "empty" /\ ~Publishing => UpToDate(s, game, list, reg[p])
    BY <1>2, <1>5, <1>6 DEF UpToDate
  <1> QED BY <1>2, <1>3, <1>4, <1>6, <1>7, StreamMoves

LEMMA ReadSelfKeeps ==
    ASSUME IInv, NEW p \in Phone, ReadSelf(p) PROVE IInv'
  <1> DEFINE q == stream[p]
             b == Build(q.game, q.list, reg[p])
             off == [Off EXCEPT !.at = "send"]
  <1>1. Data /\ Channels /\ Screens
    BY TypeParts DEF IInv
  <1>2. [Off EXCEPT !.at = "send", !.role = reg[p].role, !.snap = b]
          = [off EXCEPT !.role = reg[p].role, !.snap = b]
    BY DEF Off
  <1>3. off \in StreamRow /\ off.at = "send"
    BY OffWith
  <1>4. /\ UNCHANGED <<game, list, reg, pending, call, writes, cuts, wire, view>>
        /\ q.at = "self" /\ tick' = tick
        /\ stream' = [stream EXCEPT ![p] = [off EXCEPT !.role = reg[p].role, !.snap = b]]
    BY <1>2 DEF ReadSelf, Follow, db
  <1>5. wire' \in [Phone -> Snapshot \cup {Nothing}]
    BY <1>1, <1>4 DEF Screens
  <1>6. /\ tick = [tick EXCEPT ![p] = tick[p]] /\ tick[p] \in {"none", "empty", "full"}
        /\ tick[p] # "none" /\ q \in StreamRow
    BY <1>1, <1>4 DEF Channels
  <1>7. tick[p] = "empty" /\ ~Publishing => UpToDate(q, game, list, reg[p])
    BY DEF IInv, Follows
  <1> HIDE DEF q, off
  <1>8. /\ q.game \in GameRow /\ q.list \in Nat /\ reg[p] \in RegRow
        /\ game \in GameRow /\ list \in Nat
    BY <1>1, <1>6 DEF StreamRow, Data
  <1>9. b \in Snapshot
    BY <1>8, BuildIsSnapshot
  <1>10. tick[p] = "empty" /\ ~Publishing =>
           Loud(b, reg[p].role) = Loud(Build(game, list, reg[p]), reg[p].role)
    BY <1>4, <1>7, <1>8, LoudBuild DEF UpToDate
  <1> HIDE DEF b
  <1> DEFINE s == [off EXCEPT !.role = reg[p].role, !.snap = b]
  <1>11. s \in StreamRow /\ s.at = "send" /\ s.role = reg[p].role /\ s.snap = b
    BY <1>3, <1>8, <1>9 DEF StreamRow, RegRow
  <1>12. stream' = [stream EXCEPT ![p] = s]
    BY <1>4
  <1> HIDE DEF s
  <1>13. tick[p] = "empty" /\ ~Publishing => UpToDate(s, game, list, reg[p])
    BY <1>10, <1>11 DEF UpToDate
  <1>14. /\ UNCHANGED <<game, list, reg, pending, call, writes, cuts>> /\ view' = view
         /\ tick' = [tick EXCEPT ![p] = tick[p]] /\ tick[p] \in {"none", "empty", "full"}
         /\ tick[p] = "none" <=> s.at \in {"off", "dead", "subscribe"}
    BY <1>4, <1>6, <1>11
  <1>15. s \in StreamRow
    BY <1>11
  <1> QED BY <1>5, <1>12, <1>13, <1>14, <1>15, StreamMoves

LEMMA SendKeeps ==
    ASSUME IInv, NEW p \in Phone, Send(p) PROVE IInv'
  <1> DEFINE q == stream[p]
             t == IF q.snap = Ended THEN "none" ELSE tick[p]
             s == IF q.snap = Ended THEN Off ELSE [q EXCEPT !.at = "wait"]
  <1>1. Data /\ Channels /\ Screens
    BY TypeParts DEF IInv
  <1>2. /\ UNCHANGED <<game, list, reg, pending, call, writes, cuts, view>>
        /\ q.at = "send" /\ tick' = [tick EXCEPT ![p] = t]
        /\ stream' = [stream EXCEPT ![p] = s] /\ wire' = [wire EXCEPT ![p] = q.snap]
    BY DEF Send, Follow, db
  <1>3. /\ tick[p] \in {"none", "empty", "full"} /\ tick[p] # "none" /\ q \in StreamRow
    BY <1>1, <1>2 DEF Channels
  <1>4. wire' \in [Phone -> Snapshot \cup {Nothing}]
    <2>1. q.snap \in Snapshot /\ wire \in [Phone -> Snapshot \cup {Nothing}]
      BY <1>1, <1>3 DEF Screens, StreamRow
    <2> QED BY <1>2, <2>1
  <1>5. tick[p] = "empty" /\ ~Publishing => UpToDate(q, game, list, reg[p])
    BY DEF IInv, Follows
  <1> HIDE DEF q
  <1>6. CASE q.snap = Ended
    BY <1>2, <1>4, <1>6, OffRow, StreamMoves
  <1>7. CASE q.snap # Ended
    <2>1. s \in StreamRow /\ s.at = "wait" /\ s.snap = q.snap /\ s.role = q.role /\ t = tick[p]
      BY <1>3, <1>7 DEF StreamRow
    <2> HIDE DEF s, t
    <2>2. tick[p] = "empty" /\ ~Publishing => UpToDate(s, game, list, reg[p])
      BY <1>2, <1>5, <2>1 DEF UpToDate
    <2> QED BY <1>2, <1>3, <1>4, <2>1, <2>2, StreamMoves
  <1> QED BY <1>6, <1>7

LEMMA DeliverKeeps ==
    ASSUME IInv, NEW p \in Phone, Deliver(p) PROVE IInv'
  <1>1. Data /\ Channels /\ Screens
    BY TypeParts DEF IInv
  <1>2. /\ UNCHANGED <<game, list, reg, pending, tick, stream, call, writes, cuts>>
        /\ wire[p] # Nothing
        /\ view' = [view EXCEPT ![p] = wire[p]] /\ wire' = [wire EXCEPT ![p] = Nothing]
    BY DEF Deliver, db
  <1>3. Data' /\ Channels' /\ Screens'
    BY <1>1, <1>2 DEF Data, Channels, Screens
  <1>4. Follows'
    BY <1>2 DEF IInv, Follows, Publishing
  <1> QED BY <1>3, <1>4, TypeParts DEF IInv

\* A lost connection, and a restart of the server.
LEMMA CutKeeps ==
    ASSUME IInv, NEW p \in Phone, Cut(p) PROVE IInv'
  <1>1. Data /\ Channels /\ Screens
    BY TypeParts DEF IInv
  <1>2. /\ UNCHANGED <<game, list, reg, pending, call, view, writes>> /\ cuts' = cuts + 1
        /\ tick' = [tick EXCEPT ![p] = "none"]
        /\ stream' = [stream EXCEPT ![p] = Off] /\ wire' = [wire EXCEPT ![p] = Nothing]
    BY DEF Cut, db
  <1>3. /\ stream'[p] = Off /\ tick'[p] = "none"
        /\ \A q \in Phone \ {p} : stream'[q] = stream[q] /\ tick'[q] = tick[q]
        /\ stream' \in [Phone -> StreamRow] /\ tick' \in [Phone -> {"none", "empty", "full"}]
    BY <1>1, <1>2, OffRow DEF Channels
  <1>4. Channels'
    BY <1>1, <1>3, OffRow DEF Channels
  <1>5. Data' /\ Screens'
    BY <1>1, <1>2 DEF Data, Screens
  <1>6. Publishing' <=> Publishing
    BY <1>2 DEF Publishing
  <1>7. Follows'
    BY <1>2, <1>3, <1>6 DEF IInv, Follows
  <1> QED BY <1>4, <1>5, <1>7, TypeParts DEF IInv

LEMMA RestartKeeps ==
    ASSUME IInv, Restart PROVE IInv'
  <1>1. Data /\ Channels /\ Screens
    BY TypeParts DEF IInv
  <1>2. /\ UNCHANGED <<game, list, reg, view, writes>> /\ cuts' = cuts + 1 /\ pending' = 0
        /\ tick' = [p \in Phone |-> "none"]
        /\ stream' = [p \in Phone |-> IF stream[p].at = "dead" THEN stream[p] ELSE Off]
        /\ wire' = [p \in Phone |-> Nothing] /\ call' = [p \in Phone |-> Resting]
    BY DEF Restart, db
  <1>3. Channels' /\ \A p \in Phone : tick'[p] = "none"
    BY <1>1, <1>2, OffRow DEF Channels
  <1>4. Data' /\ Screens'
    BY <1>1, <1>2, RestingRow DEF Data, Screens
  <1> QED BY <1>3, <1>4, TypeParts DEF IInv, Follows

-----------------------------------------------------------------------------
(***************************************************************************)
(* The phones' own requests.                                               *)
(***************************************************************************)

\* A call that neither becomes a publisher nor was one: the streams are as far
\* behind as they were.
LEMMA CallMoves ==
    ASSUME IInv, NEW p \in Phone, NEW c \in CallRow, call' = [call EXCEPT ![p] = c],
           c.at # "publish", call[p].at # "publish",
           UNCHANGED <<game, list, reg, pending, tick, stream, wire, writes, cuts>>,
           view' \in [Phone -> Snapshot]
    PROVE  IInv'
  <1>1. Data /\ Channels /\ Screens
    BY TypeParts DEF IInv
  <1>2. /\ call' \in [Phone -> CallRow] /\ call'[p] = c
        /\ \A q \in Phone \ {p} : call'[q] = call[q]
    BY <1>1 DEF Screens
  <1>3. Data' /\ Channels' /\ Screens'
    BY <1>1, <1>2 DEF Data, Channels, Screens
  <1>4. Publishing' <=> Publishing
    BY <1>2 DEF Publishing
  <1>5. Follows'
    BY <1>4 DEF IInv, Follows
  <1> QED BY <1>3, <1>5, TypeParts DEF IInv

LEMMA TokenCallsKeep ==
    ASSUME IInv, NEW p \in Phone, TokenBegin(p) \/ TokenRead(p) \/ TokenAnswer(p)
    PROVE  IInv'
  <1>1. Data /\ Channels /\ Screens
    BY TypeParts DEF IInv
  <1>2. /\ UNCHANGED <<game, list, reg, pending, tick, stream, wire, writes, cuts>>
        /\ call[p].at \in {"idle", "token", "tokenAnswer"}
    BY DEF TokenBegin, TokenRead, TokenAnswer, db, Elsewhere
  <1>3. call[p] \in CallRow /\ view \in [Phone -> Snapshot] /\ reg[p] \in RegRow
    BY <1>1 DEF Screens, Data
  <1>4. CASE TokenBegin(p)
    <2> DEFINE c == [Resting EXCEPT !.at = "token", !.role = reg[p].role]
    <2>1. call' = [call EXCEPT ![p] = c] /\ view' = view
      BY <1>4 DEF TokenBegin, Calls
    <2>2. c \in CallRow /\ c.at = "token"
      BY <1>3, RestingRow DEF RegRow, CallRow
    <2> HIDE DEF c
    <2> QED BY <1>2, <1>3, <2>1, <2>2, CallMoves
  <1>5. CASE TokenRead(p)
    <2> DEFINE q == call[p]
               c == [q EXCEPT !.at = "tokenAnswer", !.role = tokenCharacter(game, q.role)]
    <2>1. /\ view' = view
          /\ call' = [call EXCEPT ![p] = c] \/ call' = [call EXCEPT ![p] = Resting]
      BY <1>5 DEF TokenRead, Calls
    <2>2. c \in CallRow /\ c.at = "tokenAnswer"
      <3>1. tokenCharacter(game, q.role) \in Token \cup {NoToken}
        BY <1>1, <1>3, TokenIsOne DEF CallRow, Data
      <3> QED BY <1>3, <3>1 DEF CallRow
    <2> HIDE DEF c
    <2> QED BY <1>2, <1>3, <2>1, <2>2, RestingRow, CallMoves
  <1>6. CASE TokenAnswer(p)
    <2> DEFINE w == view[p]
               v == [w EXCEPT !.token = call[p].role]
    <2>1. call' = [call EXCEPT ![p] = Resting] /\ view' = [view EXCEPT ![p] = v]
      BY <1>6, <1>3 DEF TokenAnswer, Calls
    <2>2. v \in Snapshot
      <3>1. w \in Snapshot /\ call[p].role \in Token \cup {NoToken}
        BY <1>3 DEF CallRow
      <3> QED BY <3>1 DEF Snapshot
    <2> HIDE DEF v
    <2>3. view' \in [Phone -> Snapshot]
      BY <1>3, <2>1, <2>2
    <2> QED BY <1>2, <2>1, <2>3, RestingRow, CallMoves
  <1> QED BY <1>4, <1>5, <1>6

LEMMA PickCallsKeep ==
    ASSUME IInv, NEW p \in Phone, PickBegin(p) \/ PickRead(p) \/ PickAnswer(p)
    PROVE  IInv'
  <1>1. Data /\ Channels /\ Screens
    BY TypeParts DEF IInv
  <1>2. /\ UNCHANGED <<game, list, reg, pending, tick, stream, wire, writes, cuts>>
        /\ call[p].at \in {"idle", "list", "pickAnswer"}
    BY DEF PickBegin, PickRead, PickAnswer, db, Elsewhere
  <1>3. call[p] \in CallRow /\ view \in [Phone -> Snapshot] /\ game \in GameRow /\ list \in Nat
    BY <1>1 DEF Screens, Data
  <1>4. CASE PickBegin(p)
    <2> DEFINE c == [Resting EXCEPT !.at = "pick", !.game = game]
    <2>1. call' = [call EXCEPT ![p] = c] /\ view' = view
      BY <1>4 DEF PickBegin, Calls
    <2>2. c \in CallRow /\ c.at = "pick"
      BY <1>3, RestingRow DEF CallRow
    <2> HIDE DEF c
    <2> QED BY <1>2, <1>3, <2>1, <2>2, CallMoves
  <1>5. CASE PickRead(p)
    <2> DEFINE own == [here |-> TRUE, role |-> call[p].role]
               s == Build(call[p].game, list, own)
               c == [Resting EXCEPT !.at = "pickAnswer", !.snap = s]
    <2>1. view' = view /\ call' = [call EXCEPT ![p] = c]
      BY <1>5 DEF PickRead, Calls
    <2>2. own \in RegRow /\ call[p].game \in GameRow
      BY <1>3 DEF CallRow, RegRow
    <2>3. s \in Snapshot
      <3> HIDE DEF own
      <3> QED BY <1>3, <2>2, BuildIsSnapshot
    <2> HIDE DEF s
    <2>4. c \in CallRow /\ c.at = "pickAnswer"
      BY <2>3, RestingRow DEF CallRow
    <2> HIDE DEF c
    <2> QED BY <1>2, <1>3, <2>1, <2>4, CallMoves
  <1>6. CASE PickAnswer(p)
    <2>1. /\ call' = [call EXCEPT ![p] = Resting]
          /\ view' = [view EXCEPT ![p] = call[p].snap]
      BY <1>6 DEF PickAnswer, Calls
    <2>2. view' \in [Phone -> Snapshot]
      BY <1>3, <2>1 DEF CallRow
    <2> QED BY <1>2, <2>1, <2>2, RestingRow, CallMoves
  <1> QED BY <1>4, <1>5, <1>6

\* A pick is published by the request that wrote it, after its commit.
LEMMA PickWritesKeep ==
    ASSUME IInv, NEW p \in Phone, PickCommit(p) \/ PickPublish(p) PROVE IInv'
  <1> DEFINE q == call[p]
  <1>1. Data /\ Channels /\ Screens
    BY TypeParts DEF IInv
  <1>2. q \in CallRow /\ view \in [Phone -> Snapshot]
    BY <1>1 DEF Screens
  <1>3. CASE PickCommit(p) /\ UNCHANGED <<list, writes>>
    <2>1. UNCHANGED <<game, list, reg, pending, tick, stream, wire, view, writes, cuts>>
      BY <1>3 DEF PickCommit, db, Elsewhere
    <2>2. q.at = "pick" /\ call' = [call EXCEPT ![p] = Resting]
      BY <1>1, <1>3 DEF PickCommit, Calls, Data
    <2> QED BY <1>2, <2>1, <2>2, RestingRow, CallMoves
  <1>4. CASE PickCommit(p) /\ ~UNCHANGED <<list, writes>>
    <2> DEFINE c == [q EXCEPT !.at = "publish", !.role = reg[p].role]
    <2>1. /\ UNCHANGED <<game, reg, pending, tick, stream, wire, view, cuts>>
          /\ list' = list + 1 /\ writes' = writes + 1 /\ call' = [call EXCEPT ![p] = c]
      BY <1>4 DEF PickCommit, Calls, db, Elsewhere
    <2>2. reg[p] \in RegRow
      BY <1>1 DEF Data
    <2> HIDE DEF q
    <2>3. c \in CallRow /\ c.at = "publish"
      BY <1>2, <2>2 DEF CallRow, RegRow
    <2> HIDE DEF c
    <2>4. call' \in [Phone -> CallRow] /\ call'[p] = c
      BY <1>1, <2>1, <2>3 DEF Screens
    <2>5. Data' /\ Channels' /\ Screens'
      BY <1>1, <2>1, <2>4 DEF Data, Channels, Screens
    <2>6. Publishing'
      BY <2>3, <2>4 DEF Publishing
    <2> QED BY <2>5, <2>6, TypeParts DEF IInv, Follows
  <1>5. CASE PickPublish(p)
    <2> DEFINE c == [q EXCEPT !.at = "list"]
    <2>1. /\ UNCHANGED <<game, list, reg, pending, stream, wire, view, writes, cuts>>
          /\ tick' = Ticked(tick) /\ call' = [call EXCEPT ![p] = c]
      BY <1>5 DEF PickPublish, Calls, db, Elsewhere
    <2> HIDE DEF q
    <2>2. c \in CallRow
      BY <1>2 DEF CallRow
    <2> HIDE DEF c
    <2>3. call' \in [Phone -> CallRow]
      BY <1>1, <2>1, <2>2 DEF Screens
    <2>4. Channels' /\ \A r \in Phone : tick'[r] # "empty"
      BY <1>1, <2>1, TicksFill
    <2>5. Data' /\ Screens'
      BY <1>1, <2>1, <2>3 DEF Data, Screens
    <2> QED BY <2>4, <2>5, TypeParts DEF IInv, Follows
  <1> QED BY <1>3, <1>4, <1>5

-----------------------------------------------------------------------------
LEMMA InitIInv == Init => IInv
  <1> SUFFICES ASSUME Init PROVE IInv
    OBVIOUS
  <1>1. Data
    BY Fresh0 DEF Init, Data, RegRow
  <1>2. Channels
    BY OffRow DEF Init, Channels
  <1>3. Screens
    BY RestingRow, EndedIsSnapshot DEF Init, Screens
  <1>4. Follows
    BY DEF Init, Follows
  <1> QED BY <1>1, <1>2, <1>3, <1>4, TypeParts DEF IInv

LEMMA Inductive == IInv /\ [Next]_vars => IInv'
  <1> SUFFICES ASSUME IInv, [Next]_vars PROVE IInv'
    OBVIOUS
  <1>1. CASE UNCHANGED vars
    <2>1. Data /\ Channels /\ Screens
      BY TypeParts DEF IInv
    <2>2. Data' /\ Channels' /\ Screens'
      BY <1>1, <2>1 DEF vars, Data, Channels, Screens
    <2>3. Follows'
      BY <1>1 DEF vars, IInv, Follows, Publishing
    <2> QED BY <2>2, <2>3, TypeParts DEF IInv
  <1>2. CASE Writer
    BY <1>2, WriterKeeps, UnpublishedKeeps DEF Writer
  <1>3. CASE Publish \/ Restart
    BY <1>3, PublishKeeps, RestartKeeps
  <1>4. ASSUME NEW p \in Phone,
               \/ Stream(p) \/ Deliver(p) \/ Cut(p)
               \/ TokenBegin(p) \/ PickBegin(p) \/ Call(p)
        PROVE  IInv'
    BY <1>4, SubscribesKeep, ReadGameKeeps, ReadListKeeps, ReadSelfKeeps, SendKeeps,
       DeliverKeeps, CutKeeps, TokenCallsKeep, PickCallsKeep, PickWritesKeep
       DEF Stream, Call
  <1> QED BY <1>2, <1>1, <1>3, <1>4 DEF Next

\* Well typed for any phones; in particular a stream that is over, by whatever
\* end it came to, holds no tick channel of the hub, and a running one holds one.
THEOREM TypeCorrect == Spec => []TypeOK
  <1>1. IInv => TypeOK
    BY DEF IInv
  <1> QED BY <1>1, InitIInv, Inductive, PTL DEF Spec

\* "Subscribe happened before this first read, so no change can slip through":
\* a stream that waits with an empty channel has sent what the database has now
\* unless somebody has yet to publish, however its three reads interleave with
\* commits, publishes, dropped ticks, lost connections and restarts.  What is
\* written without a publish is excepted: the name, and a role's substitution.
THEOREM NoTickIsLost == Spec => []NoLostTick
  <1>1. IInv => NoLostTick
    BY DEF IInv, Follows, NoLostTick, UpToDate, Latest
  <1> QED BY <1>1, InitIInv, Inductive, PTL DEF Spec

-----------------------------------------------------------------------------
(***************************************************************************)
(* What it takes a screen to catch up, and to stay so: the part of         *)
(* Converges that needs no fairness.                                       *)
(***************************************************************************)

\* What the stream has read, or is about to send, is what the database has.
ReadsCurrent(p) ==
    /\ stream[p].at \in {"list", "self"} => stream[p].game = game
    /\ stream[p].at = "self" => stream[p].list = list
    /\ stream[p].at = "send" => stream[p].snap = Latest(p)

\* So is what the phone's request under way will put on the screen.  A pick not
\* yet committed changes the database first.
CallCurrent(p) ==
    /\ call[p].at \in {"token", "publish", "list"} =>
           reg[p].here /\ call[p].role = reg[p].role
    /\ call[p].at \in {"publish", "list"} => call[p].game = game
    /\ call[p].at = "tokenAnswer" => call[p].role = Latest(p).token
    /\ call[p].at = "pickAnswer" => call[p].snap = Latest(p)

\* The screen shows the latest state, and nothing on its way shows an earlier one.
CaughtUp(p) ==
    view[p] = Latest(p) /\ wire[p] \in {Nothing, Latest(p)} /\ ReadsCurrent(p) /\ CallCurrent(p)

\* The phone was told that there is no such game, and has stopped dialling.
Gone(p) == ~game.exists /\ stream[p].at = "dead"

CallLeft(p) ==
    CASE call[p].at = "publish" -> 3
      [] call[p].at \in {"token", "list"} -> 2
      [] call[p].at \in {"tokenAnswer", "pickAnswer"} -> 1
      [] OTHER -> 0

\* Steps of the stream up to a current snapshot; one that has read too early
\* sends what it has first.
ReadsLeft(p) ==
    CASE stream[p].at = "off" -> 7
      [] stream[p].at \in {"subscribe", "wait"} -> 6
      [] stream[p].at = "game" -> 5
      [] stream[p].at = "list" -> IF ReadsCurrent(p) THEN 4 ELSE 10
      [] stream[p].at = "self" -> IF ReadsCurrent(p) THEN 3 ELSE 9
      [] stream[p].at = "send" -> IF ReadsCurrent(p) THEN 2 ELSE 8
      [] OTHER -> 0

Behind(p) ==
    IF CaughtUp(p) \/ Gone(p) THEN 0
    ELSE IF ~CallCurrent(p) THEN 30 + CallLeft(p)
    ELSE IF ReadsCurrent(p) /\ wire[p] = Latest(p) THEN 1
    ELSE 2 * ReadsLeft(p) + (IF wire[p] = Nothing THEN 0 ELSE 1)

\* What brings the screen forward: the answer to an outdated request, then the
\* delivery of what is on the wire, then the stream.
Onward(p) ==
    IF ~CallCurrent(p) THEN Call(p)
    ELSE IF wire[p] # Nothing THEN Deliver(p)
    ELSE Stream(p)

\* While the database stays and the network holds, no step of anybody sets a
\* screen back, and each of Onward brings it forward.
CatchUpStep ==
    \A p \in Phone :
        UNCHANGED db /\ cuts' = cuts =>
            /\ Behind(p)' <= Behind(p)
            /\ Behind(p) > 0 /\ Onward(p) => Behind(p)' < Behind(p)

\* Where a screen is behind, there is something to bring it forward.
SomethingLeft(p) ==
    IF ~CallCurrent(p) THEN call[p].at \notin {"idle", "pick"}
    ELSE wire[p] # Nothing \/ stream[p].at # "dead"

BehindIsBounded ==
    \A p \in Phone :
        /\ Behind(p) \in 0..33
        /\ Behind(p) = 0 => Current(p)
        /\ Behind(p) > 0 => SomethingLeft(p)

\* A screen that has caught up stays so as long as the database does, through
\* lost connections, restarts and whatever the phone asks meanwhile.
ShownStep ==
    \A p \in Phone : CaughtUp(p) /\ UNCHANGED db => CaughtUp(p)'

\* What a phone stopped dialling for does not come back.
DeadMeansGone == \A p \in Phone : stream[p].at = "dead" => ~game.exists

Known == IInv /\ DeadMeansGone

LEMMA Records ==
    ASSUME IInv
    PROVE  /\ game \in GameRow /\ list \in Nat /\ cuts \in Nat /\ reg \in [Phone -> RegRow]
           /\ stream \in [Phone -> StreamRow] /\ wire \in [Phone -> Snapshot \cup {Nothing}]
           /\ call \in [Phone -> CallRow] /\ view \in [Phone -> Snapshot]
  BY DEF IInv, TypeOK, RegRow

LEMMA LatestIs ==
    ASSUME IInv, NEW p \in Phone
    PROVE  /\ Latest(p) \in Snapshot /\ Latest(p) # Nothing
           /\ ~game.exists => Latest(p) = Ended
           /\ game.exists /\ ~game.started /\ game.phase = "revealed" /\ reg[p].here
                => Latest(p).token = tokenCharacter(game, reg[p].role)
  <1>1. Latest(p) \in Snapshot
    BY Records, BuildIsSnapshot DEF Latest
  <1>2. ~game.exists => Latest(p) = Ended
    BY DEF Latest, Build
  <1>3. game.exists /\ ~game.started /\ game.phase = "revealed" /\ reg[p].here
          => Latest(p).token = tokenCharacter(game, reg[p].role)
    BY DEF Latest, Build
  <1> QED BY <1>1, <1>2, <1>3, NothingAssumption

LEMMA LatestStays ==
    ASSUME NEW p \in Phone, UNCHANGED db PROVE Latest(p)' = Latest(p)
  BY DEF db, Latest

\* Neither part of a screen's state moves by itself.
LEMMA ReadsStay ==
    ASSUME NEW p \in Phone, UNCHANGED db, stream'[p] = stream[p]
    PROVE  /\ ReadsCurrent(p)' <=> ReadsCurrent(p)
           /\ ReadsLeft(p)' = ReadsLeft(p)
           /\ Gone(p)' <=> Gone(p)
  <1>1. ReadsCurrent(p)' <=> ReadsCurrent(p)
    BY LatestStays DEF db, ReadsCurrent
  <1>2. ReadsLeft(p)' = ReadsLeft(p)
    BY <1>1 DEF ReadsLeft
  <1>3. Gone(p)' <=> Gone(p)
    BY DEF db, Gone
  <1> QED BY <1>1, <1>2, <1>3

LEMMA CallStays ==
    ASSUME NEW p \in Phone, UNCHANGED db, call'[p] = call[p]
    PROVE  (CallCurrent(p)' <=> CallCurrent(p)) /\ CallLeft(p)' = CallLeft(p)
  BY LatestStays DEF db, CallCurrent, CallLeft

LEMMA Ranges ==
    ASSUME NEW p \in Phone
    PROVE  /\ CallLeft(p) \in 0..3 /\ ReadsLeft(p) \in 0..10 /\ Behind(p) \in 0..33
           /\ CallLeft(p)' \in 0..3 /\ ReadsLeft(p)' \in 0..10 /\ Behind(p)' \in 0..33
  <1>1. CallLeft(p) \in 0..3 /\ CallLeft(p)' \in 0..3
    BY DEF CallLeft
  <1>2. ReadsLeft(p) \in 0..10 /\ ReadsLeft(p)' \in 0..10
    BY DEF ReadsLeft
  <1> QED BY <1>1, <1>2 DEF Behind

\* How far a screen is behind, when its calls are as they were.
Keeps(p) ==
    /\ CaughtUp(p) => CaughtUp(p)'
    /\ Behind(p)' <= Behind(p)

LEMMA UntouchedKeeps ==
    ASSUME NEW p \in Phone, UNCHANGED db,
           stream'[p] = stream[p], wire'[p] = wire[p], call'[p] = call[p], view'[p] = view[p]
    PROVE  Keeps(p)
  <1>1. Behind(p)' = Behind(p) /\ (CaughtUp(p) => CaughtUp(p)')
    BY LatestStays, ReadsStay, CallStays DEF CaughtUp, Behind
  <1> QED BY <1>1, Ranges DEF Keeps

\* A request of the phone leaves the stream and the wire alone; what it learns
\* is current, and an outdated one comes to its answer.
LEMMA CallTells ==
    ASSUME IInv, NEW p \in Phone, UNCHANGED db, TokenBegin(p) \/ PickBegin(p) \/ Call(p)
    PROVE  /\ stream'[p] = stream[p] /\ wire'[p] = wire[p]
           /\ CallCurrent(p) => CallCurrent(p)'
           /\ ~CallCurrent(p) => CallCurrent(p)' \/ CallLeft(p)' < CallLeft(p)
           /\ CallCurrent(p) /\ view[p] = Latest(p) => view'[p] = Latest(p)
  <1> DEFINE q == call[p]
  <1>1. /\ q \in CallRow /\ call \in [Phone -> CallRow] /\ view \in [Phone -> Snapshot]
        /\ reg[p] \in RegRow /\ list \in Nat /\ game' = game /\ list' = list /\ reg' = reg
    BY Records DEF db
  <1>2. Latest(p)' = Latest(p) /\ Latest(p) \in Snapshot
    BY LatestStays, LatestIs
  <1>3. stream' = stream /\ wire' = wire
    BY DEF TokenBegin, PickBegin, Call, TokenRead, TokenAnswer, PickCommit, PickPublish,
           PickRead, PickAnswer, Elsewhere
  <1> HIDE DEF q
  <1>4. CASE call'[p] = Resting /\ (view' = view \/ (TokenAnswer(p) \/ PickAnswer(p)))
    <2>1. CallCurrent(p)'
      BY <1>4, RestingRow DEF CallCurrent
    <2>2. CASE TokenAnswer(p)
      <3>1. q.at = "tokenAnswer" /\ view' = [view EXCEPT ![p].token = q.role]
        BY <2>2 DEF TokenAnswer, q
      <3>2. CallCurrent(p) => q.role = Latest(p).token
        BY <3>1 DEF CallCurrent, q
      <3>3. view[p] = Latest(p) /\ q.role = Latest(p).token => view'[p] = Latest(p)
        <4> SUFFICES ASSUME view[p] = Latest(p), q.role = Latest(p).token
                     PROVE  view'[p] = Latest(p)
          OBVIOUS
        <4>1. view'[p] = [Latest(p) EXCEPT !.token = Latest(p).token]
          BY <1>1, <3>1
        <4> QED BY <1>2, <4>1 DEF Snapshot
      <3> QED BY <1>3, <2>1, <3>2, <3>3
    <2>3. CASE PickAnswer(p)
      <3>1. q.at = "pickAnswer" /\ view'[p] = q.snap
        BY <1>1, <2>3 DEF PickAnswer, q
      <3> QED BY <1>3, <2>1, <3>1 DEF CallCurrent, q
    <2> QED BY <1>3, <1>4, <2>1, <2>2, <2>3
  <1>5. CASE TokenBegin(p)
    <2> DEFINE c == [Resting EXCEPT !.at = "token", !.role = reg[p].role]
    <2>1. /\ reg[p].here /\ view' = view /\ call'[p] = c
          /\ q.at = "idle"
      BY <1>1, <1>5 DEF TokenBegin, Calls, q
    <2>2. c.at = "token" /\ c.role = reg[p].role
      BY DEF Resting
    <2> HIDE DEF c
    <2>3. CallCurrent(p)'
      BY <1>1, <2>1, <2>2 DEF CallCurrent
    <2> QED BY <1>3, <2>1, <2>3
  <1>6. CASE TokenRead(p) /\ call'[p] # Resting
    <2> DEFINE c == [q EXCEPT !.at = "tokenAnswer", !.role = tokenCharacter(game, q.role)]
    <2>1. /\ q.at = "token" /\ game.exists /\ ~game.started /\ game.phase = "revealed"
          /\ view' = view /\ call'[p] = c
      BY <1>1, <1>6 DEF TokenRead, Calls, q
    <2>2. c.at = "tokenAnswer" /\ c.role = tokenCharacter(game, q.role)
      BY <1>1, <2>1 DEF CallRow
    <2> HIDE DEF c
    <2>3. CallLeft(p)' = 1 /\ CallLeft(p) = 2
      BY <2>1, <2>2 DEF CallLeft, q
    <2>4. CallCurrent(p) => CallCurrent(p)'
      <3>1. CallCurrent(p) => tokenCharacter(game, q.role) = Latest(p).token
        BY <2>1, LatestIs DEF CallCurrent, q
      <3> QED BY <1>2, <2>1, <2>2, <3>1 DEF CallCurrent
    <2> QED BY <1>3, <2>1, <2>3, <2>4
  <1>7. CASE PickBegin(p)
    <2>1. view' = view /\ call'[p].at = "pick"
      BY <1>1, <1>7 DEF PickBegin, Calls, Resting
    <2> QED BY <1>3, <2>1 DEF CallCurrent
  <1>8. CASE PickPublish(p)
    <2> DEFINE c == [q EXCEPT !.at = "list"]
    <2>1. q.at = "publish" /\ view' = view /\ call'[p] = c
      BY <1>1, <1>8 DEF PickPublish, Calls, q
    <2>2. c.at = "list" /\ c.role = q.role /\ c.game = q.game
      BY <1>1, <2>1 DEF CallRow
    <2> HIDE DEF c
    <2>3. CallLeft(p)' = 2 /\ CallLeft(p) = 3
      BY <2>1, <2>2 DEF CallLeft, q
    <2>4. CallCurrent(p) => CallCurrent(p)'
      BY <1>1, <2>1, <2>2 DEF CallCurrent, q
    <2> QED BY <1>3, <2>1, <2>3, <2>4
  <1>9. CASE PickRead(p)
    <2> DEFINE own == [here |-> TRUE, role |-> q.role]
               s == Build(q.game, list, own)
               c == [Resting EXCEPT !.at = "pickAnswer", !.snap = s]
    <2>1. q.at = "list" /\ view' = view /\ call'[p] = c
      BY <1>1, <1>9 DEF PickRead, Calls, q
    <2>2. reg[p].here /\ q.role = reg[p].role => own = reg[p]
      BY <1>1 DEF RegRow
    <2>3. CallCurrent(p) => s = Latest(p)
      BY <2>1, <2>2 DEF CallCurrent, Latest, q
    <2> HIDE DEF s
    <2>4. c.at = "pickAnswer" /\ c.snap = s
      BY DEF Resting
    <2> HIDE DEF c
    <2>5. CallLeft(p)' = 1 /\ CallLeft(p) = 2
      BY <2>1, <2>4 DEF CallLeft, q
    <2>6. CallCurrent(p) => CallCurrent(p)'
      BY <1>2, <2>1, <2>3, <2>4 DEF CallCurrent
    <2> QED BY <1>3, <2>1, <2>5, <2>6
  <1>10. CASE PickCommit(p)
    <2>1. call' = [call EXCEPT ![p] = Resting] /\ view' = view
      BY <1>1, <1>10 DEF PickCommit, Calls
    <2> QED BY <1>1, <1>4, <2>1
  <1>11. CASE TokenRead(p) /\ call'[p] = Resting
    BY <1>4, <1>11 DEF TokenRead
  <1>12. CASE TokenAnswer(p) \/ PickAnswer(p)
    BY <1>1, <1>4, <1>12 DEF TokenAnswer, PickAnswer, Calls
  <1> QED BY <1>5, <1>6, <1>7, <1>8, <1>9, <1>10, <1>11, <1>12 DEF Call

\* The rest of a screen's distance, its request being current.
StreamLeft(p) ==
    IF ReadsCurrent(p) /\ wire[p] = Latest(p) THEN 1
    ELSE 2 * ReadsLeft(p) + (IF wire[p] = Nothing THEN 0 ELSE 1)

Measured(p) ==
    /\ CaughtUp(p) \/ Gone(p) => Behind(p) = 0
    /\ ~(CaughtUp(p) \/ Gone(p)) /\ ~CallCurrent(p) => Behind(p) = 30 + CallLeft(p)
    /\ ~(CaughtUp(p) \/ Gone(p)) /\ CallCurrent(p) => Behind(p) = StreamLeft(p)
    /\ StreamLeft(p) \in 0..21

LEMMA BehindIs ==
    ASSUME NEW p \in Phone PROVE Measured(p) /\ Measured(p)'
  <1>1. StreamLeft(p) \in 0..21 /\ StreamLeft(p)' \in 0..21
    BY Ranges DEF StreamLeft
  <1>2. /\ CaughtUp(p) \/ Gone(p) => Behind(p) = 0
        /\ ~(CaughtUp(p) \/ Gone(p)) /\ ~CallCurrent(p) => Behind(p) = 30 + CallLeft(p)
        /\ ~(CaughtUp(p) \/ Gone(p)) /\ CallCurrent(p) => Behind(p) = StreamLeft(p)
    BY DEF Behind, StreamLeft
  <1>3. /\ CaughtUp(p)' \/ Gone(p)' => Behind(p)' = 0
        /\ ~(CaughtUp(p)' \/ Gone(p)') /\ ~CallCurrent(p)' => Behind(p)' = 30 + CallLeft(p)'
        /\ ~(CaughtUp(p)' \/ Gone(p)') /\ CallCurrent(p)' => Behind(p)' = StreamLeft(p)'
    BY DEF Behind, StreamLeft
  <1> QED BY <1>1, <1>2, <1>3 DEF Measured

LEMMA NotBehind ==
    ASSUME Known, NEW p \in Phone
    PROVE  Behind(p) = 0 <=> CaughtUp(p) \/ Gone(p)
  <1>1. ReadsLeft(p) = 0 => Gone(p)
    <2>1. stream[p].at \in {"off", "dead", "subscribe", "game", "list", "self", "send", "wait"}
      BY Records DEF Known, StreamRow
    <2> QED BY <2>1 DEF Known, DeadMeansGone, ReadsLeft, Gone
  <1>2. StreamLeft(p) = 0 => Gone(p)
    BY <1>1, Ranges DEF StreamLeft
  <1> QED BY <1>2, BehindIs, Ranges DEF Measured

LEMMA CallKeeps ==
    ASSUME Known, NEW p \in Phone, UNCHANGED db, TokenBegin(p) \/ PickBegin(p) \/ Call(p)
    PROVE  Keeps(p) /\ (Behind(p) > 0 /\ ~CallCurrent(p) => Behind(p)' < Behind(p))
  <1>1. /\ stream'[p] = stream[p] /\ wire'[p] = wire[p]
        /\ CallCurrent(p) => CallCurrent(p)'
        /\ ~CallCurrent(p) => CallCurrent(p)' \/ CallLeft(p)' < CallLeft(p)
        /\ CallCurrent(p) /\ view[p] = Latest(p) => view'[p] = Latest(p)
    BY CallTells DEF Known
  <1>2. /\ ReadsCurrent(p)' <=> ReadsCurrent(p)
        /\ ReadsLeft(p)' = ReadsLeft(p) /\ (Gone(p)' <=> Gone(p))
        /\ Latest(p)' = Latest(p)
    BY <1>1, ReadsStay, LatestStays
  <1>3. CaughtUp(p) => CaughtUp(p)'
    BY <1>1, <1>2 DEF CaughtUp
  <1>4. StreamLeft(p)' = StreamLeft(p)
    BY <1>1, <1>2 DEF StreamLeft
  <1>5. Measured(p) /\ Measured(p)'
    BY BehindIs
  <1>6. CallLeft(p) \in 0..3 /\ CallLeft(p)' \in 0..3 /\ StreamLeft(p) \in 0..21
    BY Ranges, BehindIs DEF Measured
  <1> QED BY <1>1, <1>2, <1>3, <1>4, <1>5, <1>6, Ranges DEF Keeps, Measured

\* A step of the stream: closer to a current snapshot, and an outdated one is
\* sent only by a stream that had read it already.
LEMMA StreamTells ==
    ASSUME Known, NEW p \in Phone, UNCHANGED db, Stream(p)
    PROVE  /\ call'[p] = call[p] /\ view'[p] = view[p] /\ ~Gone(p)
           /\ ReadsCurrent(p) => ReadsCurrent(p)'
           /\ \/ wire'[p] = wire[p] /\ (ReadsLeft(p)' < ReadsLeft(p) \/ Gone(p)')
              \/ wire[p] = Nothing /\ ReadsCurrent(p) /\ ReadsCurrent(p)' /\ wire'[p] = Latest(p)
              \/ wire[p] = Nothing /\ wire'[p] # Nothing /\ ReadsLeft(p)' < ReadsLeft(p)
  <1> DEFINE q == stream[p]
  <1>1. /\ q \in StreamRow /\ stream \in [Phone -> StreamRow]
        /\ wire \in [Phone -> Snapshot \cup {Nothing}]
        /\ game' = game /\ list' = list /\ reg' = reg
    BY Records DEF db, Known
  <1>2. Latest(p)' = Latest(p) /\ (~game.exists => Latest(p) = Ended)
    BY LatestStays, LatestIs DEF Known
  <1>3. /\ call' = call /\ view' = view
        /\ q.at \in {"off", "subscribe", "game", "list", "self", "send", "wait"}
    BY DEF Stream, Dial, Subscribe, ReadGame, ReadList, ReadSelf, Send, WakeOnTick, Heartbeat, Follow
  <1>4. call'[p] = call[p] /\ view'[p] = view[p] /\ ~Gone(p)
    BY <1>3 DEF Gone
  <1> HIDE DEF q
  <1>5. CASE Dial(p)
    <2>1. q.at = "off" /\ wire' = wire
      BY <1>5 DEF Dial, q
    <2>2. stream'[p].at = (IF game.exists THEN "subscribe" ELSE "dead")
      BY <1>1, <1>5 DEF Dial, Follow, Off
    <2>3. ReadsCurrent(p)'
      BY <2>2 DEF ReadsCurrent
    <2>4. ReadsLeft(p) = 7 /\ (game.exists => ReadsLeft(p)' = 6)
      BY <2>1, <2>2 DEF ReadsLeft, q
    <2>5. ~game.exists => Gone(p)'
      BY <1>1, <2>2 DEF Gone
    <2> QED BY <1>4, <2>1, <2>3, <2>4, <2>5
  <1>6. CASE Subscribe(p) \/ WakeOnTick(p) \/ Heartbeat(p)
    <2>1. q.at \in {"subscribe", "wait"} /\ wire' = wire
      BY <1>6 DEF Subscribe, WakeOnTick, Heartbeat, q
    <2>2. stream'[p].at = "game"
      BY <1>1, <1>6 DEF Subscribe, WakeOnTick, Heartbeat, Follow, Off
    <2>3. ReadsCurrent(p)' /\ ReadsLeft(p)' = 5
      BY <2>2 DEF ReadsCurrent, ReadsLeft
    <2>4. ReadsLeft(p) = 6
      BY <2>1 DEF ReadsLeft, q
    <2> QED BY <1>4, <2>1, <2>3, <2>4
  <1>7. CASE ReadGame(p)
    <2>1. q.at = "game" /\ wire' = wire
      BY <1>7 DEF ReadGame, q
    <2>2. \/ game.exists /\ stream'[p].at = "list" /\ stream'[p].game = game
          \/ ~game.exists /\ stream'[p].at = "send" /\ stream'[p].snap = Ended
      <3> DEFINE s == IF game.exists THEN [Off EXCEPT !.at = "list", !.game = game]
                      ELSE [Off EXCEPT !.at = "send"]
      <3>1. stream'[p] = s
        BY <1>1, <1>7 DEF ReadGame, Follow
      <3>2. \/ game.exists /\ s.at = "list" /\ s.game = game
            \/ ~game.exists /\ s.at = "send" /\ s.snap = Ended
        BY DEF Off
      <3> QED BY <3>1, <3>2
    <2>3. ReadsCurrent(p)'
      BY <1>1, <1>2, <2>2 DEF ReadsCurrent
    <2>4. ReadsLeft(p)' \in {2, 4} /\ ReadsLeft(p) = 5
      BY <2>1, <2>2, <2>3 DEF ReadsLeft, q
    <2> QED BY <1>4, <2>1, <2>3, <2>4
  <1>8. CASE ReadList(p)
    <2>1. q.at = "list" /\ wire' = wire
      BY <1>8 DEF ReadList, q
    <2>2. stream'[p].at = "self" /\ stream'[p].game = q.game /\ stream'[p].list = list
      <3> DEFINE s == [q EXCEPT !.at = "self", !.list = list]
      <3>1. stream'[p] = s
        BY <1>1, <1>8 DEF ReadList, Follow, q
      <3>2. s.at = "self" /\ s.game = q.game /\ s.list = list
        BY <1>1 DEF StreamRow
      <3> QED BY <3>1, <3>2
    <2>3. ReadsCurrent(p)' <=> ReadsCurrent(p)
      BY <1>1, <2>1, <2>2 DEF ReadsCurrent, q
    <2>4. ReadsLeft(p)' < ReadsLeft(p)
      BY <2>1, <2>2, <2>3 DEF ReadsLeft, q
    <2> QED BY <1>4, <2>1, <2>3, <2>4
  <1>9. CASE ReadSelf(p)
    <2>1. q.at = "self" /\ wire' = wire
      BY <1>9 DEF ReadSelf, q
    <2>2. stream'[p].at = "send" /\ stream'[p].snap = Build(q.game, q.list, reg[p])
      <3> DEFINE b == Build(q.game, q.list, reg[p])
                 s == [Off EXCEPT !.at = "send", !.role = reg[p].role, !.snap = b]
      <3>1. stream'[p] = s
        BY <1>1, <1>9 DEF ReadSelf, Follow, q
      <3> HIDE DEF b
      <3>2. s.at = "send" /\ s.snap = b
        BY DEF Off
      <3> QED BY <3>1, <3>2 DEF b
    <2>3. ReadsCurrent(p) => ReadsCurrent(p)'
      <3> SUFFICES ASSUME ReadsCurrent(p) PROVE ReadsCurrent(p)'
        OBVIOUS
      <3>1. q.game = game /\ q.list = list
        BY <2>1 DEF ReadsCurrent, q
      <3>2. stream'[p].snap = Latest(p)
        BY <2>2, <3>1 DEF Latest
      <3> QED BY <1>2, <2>2, <3>2 DEF ReadsCurrent
    <2>4. ReadsLeft(p)' < ReadsLeft(p)
      BY <2>1, <2>2, <2>3 DEF ReadsLeft, q
    <2> QED BY <1>4, <2>1, <2>3, <2>4
  <1>10. CASE Send(p)
    <2>1. q.at = "send" /\ wire[p] = Nothing /\ wire'[p] = q.snap
      BY <1>1, <1>10 DEF Send, q
    <2>2. stream'[p].at \in {"off", "wait"} /\ (q.snap # Ended => stream'[p].at = "wait")
      <3> DEFINE s == IF q.snap = Ended THEN Off ELSE [q EXCEPT !.at = "wait"]
      <3>1. stream'[p] = s
        BY <1>1, <1>10 DEF Send, Follow, q
      <3>2. s.at \in {"off", "wait"}
        BY <1>1 DEF Off, StreamRow
      <3> QED BY <1>1, <3>1, <3>2 DEF StreamRow
    <2>3. ReadsCurrent(p)' /\ ReadsLeft(p)' \in {6, 7}
      BY <2>2 DEF ReadsCurrent, ReadsLeft
    <2>4. CASE ReadsCurrent(p)
      BY <1>4, <2>1, <2>3, <2>4 DEF ReadsCurrent, q
    <2>5. CASE ~ReadsCurrent(p)
      <3>1. ReadsLeft(p) = 8
        BY <2>1, <2>5 DEF ReadsLeft, q
      <3>2. q.snap # Nothing
        BY <1>1, NothingAssumption DEF StreamRow
      <3> QED BY <1>4, <2>1, <2>3, <2>5, <3>1, <3>2
    <2> QED BY <2>4, <2>5
  <1> QED BY <1>5, <1>6, <1>7, <1>8, <1>9, <1>10 DEF Stream

LEMMA StreamKeeps ==
    ASSUME Known, NEW p \in Phone, UNCHANGED db, Stream(p)
    PROVE  /\ Keeps(p)
           /\ Behind(p) > 0 /\ CallCurrent(p) /\ wire[p] = Nothing => Behind(p)' < Behind(p)
  <1>1. /\ call'[p] = call[p] /\ view'[p] = view[p] /\ ~Gone(p)
        /\ ReadsCurrent(p) => ReadsCurrent(p)'
        /\ \/ wire'[p] = wire[p] /\ (ReadsLeft(p)' < ReadsLeft(p) \/ Gone(p)')
           \/ wire[p] = Nothing /\ ReadsCurrent(p) /\ ReadsCurrent(p)' /\ wire'[p] = Latest(p)
           \/ wire[p] = Nothing /\ wire'[p] # Nothing /\ ReadsLeft(p)' < ReadsLeft(p)
    BY StreamTells
  <1>2. /\ (CallCurrent(p)' <=> CallCurrent(p)) /\ CallLeft(p)' = CallLeft(p)
        /\ Latest(p)' = Latest(p) /\ Latest(p) # Nothing
    BY <1>1, CallStays, LatestStays, LatestIs DEF Known
  <1>3. CaughtUp(p) => CaughtUp(p)'
    <2> SUFFICES ASSUME CaughtUp(p) PROVE CaughtUp(p)'
      OBVIOUS
    <2>1. /\ view[p] = Latest(p) /\ wire[p] \in {Nothing, Latest(p)}
          /\ ReadsCurrent(p) /\ CallCurrent(p)
      BY DEF CaughtUp
    <2>2. wire'[p] \in {Nothing, Latest(p)}
      <3>1. CASE Send(p)
        <4>1. stream[p].at = "send" /\ wire'[p] = stream[p].snap
          BY <3>1, Records DEF Send, Known
        <4> QED BY <2>1, <4>1 DEF ReadsCurrent
      <3>2. CASE ~Send(p)
        BY <2>1, <3>2 DEF Stream, Dial, Subscribe, ReadGame, ReadList, ReadSelf, WakeOnTick,
                          Heartbeat
      <3> QED BY <3>1, <3>2
    <2> QED BY <1>1, <1>2, <2>1, <2>2 DEF CaughtUp
  <1>4. Measured(p) /\ Measured(p)'
    BY BehindIs
  <1>5. CallLeft(p) \in 0..3 /\ StreamLeft(p) \in 0..21 /\ StreamLeft(p)' \in 0..21
    BY Ranges, BehindIs DEF Measured
  <1>6. ~Gone(p)' => /\ StreamLeft(p)' <= StreamLeft(p)
                     /\ wire[p] = Nothing => StreamLeft(p)' < StreamLeft(p)
    <2> SUFFICES ASSUME ~Gone(p)'
                 PROVE  /\ StreamLeft(p)' <= StreamLeft(p)
                        /\ wire[p] = Nothing => StreamLeft(p)' < StreamLeft(p)
      OBVIOUS
    <2>1. ReadsLeft(p) \in 0..10 /\ ReadsLeft(p)' \in 0..10
      BY Ranges
    <2>2. CASE wire'[p] = wire[p] /\ ReadsLeft(p)' < ReadsLeft(p)
      BY <1>1, <1>2, <2>1, <2>2 DEF StreamLeft
    <2>3. CASE wire[p] = Nothing /\ ReadsCurrent(p) /\ ReadsCurrent(p)' /\ wire'[p] = Latest(p)
      <3>1. StreamLeft(p)' = 1 /\ StreamLeft(p) = 2 * ReadsLeft(p)
        BY <1>2, <2>1, <2>3 DEF StreamLeft
      <3>2. ReadsLeft(p) # 0
        <4>1. stream[p].at \in {"off", "subscribe", "game", "list", "self", "send", "wait"}
          BY DEF Stream, Dial, Subscribe, ReadGame, ReadList, ReadSelf, Send, WakeOnTick, Heartbeat
        <4> QED BY <4>1 DEF ReadsLeft
      <3> QED BY <2>1, <2>3, <3>1, <3>2
    <2>4. CASE wire[p] = Nothing /\ wire'[p] # Nothing /\ ReadsLeft(p)' < ReadsLeft(p)
      <3>1. StreamLeft(p) = 2 * ReadsLeft(p)
        BY <1>2, <2>1, <2>4 DEF StreamLeft
      <3>2. StreamLeft(p)' = 1 \/ StreamLeft(p)' = 2 * ReadsLeft(p)' + 1
        BY <2>4 DEF StreamLeft
      <3> QED BY <2>1, <2>4, <3>1, <3>2
    <2> QED BY <1>1, <2>2, <2>3, <2>4
  <1> QED BY <1>1, <1>2, <1>3, <1>4, <1>5, <1>6, Ranges DEF Keeps, Measured

LEMMA DeliverBrings ==
    ASSUME Known, NEW p \in Phone, UNCHANGED db, Deliver(p)
    PROVE  Keeps(p) /\ (Behind(p) > 0 /\ CallCurrent(p) => Behind(p)' < Behind(p))
  <1>1. /\ stream'[p] = stream[p] /\ call'[p] = call[p] /\ wire[p] # Nothing
        /\ wire'[p] = Nothing /\ view'[p] = wire[p]
    BY Records DEF Deliver, Known
  <1>2. /\ (CallCurrent(p)' <=> CallCurrent(p)) /\ CallLeft(p)' = CallLeft(p)
        /\ (ReadsCurrent(p)' <=> ReadsCurrent(p)) /\ ReadsLeft(p)' = ReadsLeft(p)
        /\ (Gone(p)' <=> Gone(p)) /\ Latest(p)' = Latest(p) /\ Latest(p) # Nothing
    BY <1>1, CallStays, ReadsStay, LatestStays, LatestIs DEF Known
  <1>3. CaughtUp(p) => CaughtUp(p)'
    BY <1>1, <1>2 DEF CaughtUp
  <1>4. Measured(p) /\ Measured(p)'
    BY BehindIs
  <1>5. CallLeft(p) \in 0..3 /\ StreamLeft(p) \in 0..21 /\ StreamLeft(p)' \in 0..21
        /\ ReadsLeft(p) \in 0..10
    BY Ranges, BehindIs DEF Measured
  <1>6. StreamLeft(p)' = 2 * ReadsLeft(p)
    BY <1>1, <1>2, <1>5 DEF StreamLeft
  <1>7. CASE ReadsCurrent(p) /\ wire[p] = Latest(p) /\ CallCurrent(p)
    <2>1. CaughtUp(p)'
      BY <1>1, <1>2, <1>7 DEF CaughtUp
    <2> QED BY <1>3, <1>4, <2>1, Ranges DEF Keeps, Measured
  <1>8. CASE ~CallCurrent(p)
    BY <1>2, <1>3, <1>4, <1>5, <1>8, Ranges DEF Keeps, Measured
  <1>9. CASE CallCurrent(p) /\ ~(ReadsCurrent(p) /\ wire[p] = Latest(p))
    <2>1. StreamLeft(p) = 2 * ReadsLeft(p) + 1
      BY <1>1, <1>9 DEF StreamLeft
    <2> QED BY <1>2, <1>3, <1>4, <1>5, <1>6, <1>9, <2>1, Ranges DEF Keeps, Measured
  <1> QED BY <1>7, <1>8, <1>9

\* A connection that is lost, or all of them at once, takes away what is on the way.
LEMMA CutKeepsShown ==
    ASSUME Known, NEW p \in Phone, UNCHANGED db, Restart \/ (\E q \in Phone : Cut(q))
    PROVE  cuts' # cuts /\ (CaughtUp(p) => CaughtUp(p)')
  <1>1. /\ stream \in [Phone -> StreamRow] /\ wire \in [Phone -> Snapshot \cup {Nothing}]
        /\ call \in [Phone -> CallRow] /\ cuts \in Nat
    BY Records DEF Known
  <1>2. cuts' # cuts /\ view' = view
    BY <1>1 DEF Restart, Cut
  <1>3. stream'[p] = stream[p] \/ stream'[p] = Off
    BY <1>1 DEF Restart, Cut
  <1>4. wire'[p] = wire[p] \/ wire'[p] = Nothing
    BY <1>1 DEF Restart, Cut
  <1>5. call'[p] = call[p] \/ call'[p] = Resting
    BY <1>1 DEF Restart, Cut
  <1>6. ReadsCurrent(p) => ReadsCurrent(p)'
    <2>1. CASE stream'[p] = stream[p]
      BY <2>1, ReadsStay
    <2>2. CASE stream'[p] = Off
      BY <2>2, OffRow DEF ReadsCurrent
    <2> QED BY <1>3, <2>1, <2>2
  <1>7. CallCurrent(p) => CallCurrent(p)'
    <2>1. CASE call'[p] = call[p]
      BY <2>1, CallStays
    <2>2. CASE call'[p] = Resting
      BY <2>2, RestingRow DEF CallCurrent
    <2> QED BY <1>5, <2>1, <2>2
  <1> QED BY <1>2, <1>4, <1>6, <1>7, LatestStays DEF CaughtUp

\* What is not the phone's own step is no step of its screen.
LEMMA OthersKeep ==
    ASSUME Known, NEW p \in Phone, UNCHANGED db,
           \/ Writer \/ Publish \/ UNCHANGED vars
           \/ \E q \in Phone \ {p} : \/ Stream(q) \/ Deliver(q)
                                     \/ TokenBegin(q) \/ PickBegin(q) \/ Call(q)
    PROVE  Keeps(p)
  <1>1. /\ stream \in [Phone -> StreamRow] /\ wire \in [Phone -> Snapshot \cup {Nothing}]
        /\ call \in [Phone -> CallRow] /\ view \in [Phone -> Snapshot]
    BY Records DEF Known
  <1>2. CASE Writer \/ Publish \/ UNCHANGED vars
    <2>1. stream' = stream /\ wire' = wire /\ call' = call /\ view' = view
      BY <1>2 DEF Writer, EditList, Deal, Reset, RemovePlayer, Start, Delete, Rename, Substitute,
                  Commit, Publish, vars, phones
    <2> QED BY <2>1, UntouchedKeeps
  <1>3. ASSUME NEW q \in Phone \ {p}, Stream(q) \/ Deliver(q)
        PROVE  Keeps(p)
    <2>1. stream'[p] = stream[p]
      BY <1>1, <1>3 DEF Stream, Dial, Subscribe, ReadGame, ReadList, ReadSelf, Send, WakeOnTick,
                        Heartbeat, Follow, Deliver
    <2>2. wire'[p] = wire[p] /\ view'[p] = view[p] /\ call' = call
      BY <1>1, <1>3 DEF Stream, Dial, Subscribe, ReadGame, ReadList, ReadSelf, Send, WakeOnTick,
                        Heartbeat, Follow, Deliver
    <2> QED BY <2>1, <2>2, UntouchedKeeps
  <1>4. ASSUME NEW q \in Phone \ {p}, TokenBegin(q) \/ PickBegin(q) \/ Call(q)
        PROVE  Keeps(p)
    <2>1. stream' = stream /\ wire' = wire
      BY <1>4 DEF TokenBegin, PickBegin, Call, TokenRead, TokenAnswer, PickCommit, PickPublish,
                  PickRead, PickAnswer, Elsewhere
    <2>2. \E c : call' = [call EXCEPT ![q] = c]
      BY <1>4 DEF TokenBegin, PickBegin, Call, TokenRead, TokenAnswer, PickCommit, PickPublish,
                  PickRead, PickAnswer, Calls
    <2>3. call'[p] = call[p]
      BY <1>1, <2>2
    <2>4. view'[p] = view[p]
      BY <1>1, <1>4 DEF TokenBegin, PickBegin, Call, TokenRead, TokenAnswer, PickCommit,
                        PickPublish, PickRead, PickAnswer
    <2> QED BY <2>1, <2>3, <2>4, UntouchedKeeps
  <1> QED BY <1>2, <1>3, <1>4

LEMMA EveryStepKeeps ==
    ASSUME Known, [Next]_vars, NEW p \in Phone, UNCHANGED db
    PROVE  /\ CaughtUp(p) => CaughtUp(p)'
           /\ cuts' = cuts => Behind(p)' <= Behind(p)
  <1>1. CASE Restart \/ \E q \in Phone : Cut(q)
    BY <1>1, CutKeepsShown
  <1>2. CASE \/ Writer \/ Publish \/ UNCHANGED vars
             \/ \E q \in Phone \ {p} : \/ Stream(q) \/ Deliver(q)
                                       \/ TokenBegin(q) \/ PickBegin(q) \/ Call(q)
    BY <1>2, OthersKeep DEF Keeps
  <1>3. CASE Stream(p) \/ Deliver(p) \/ TokenBegin(p) \/ PickBegin(p) \/ Call(p)
    BY <1>3, StreamKeeps, DeliverBrings, CallKeeps DEF Keeps
  <1> QED BY <1>1, <1>2, <1>3 DEF Next

-----------------------------------------------------------------------------
LEMMA GoneForGood == Known /\ [Next]_vars => DeadMeansGone'
  <1> SUFFICES ASSUME Known, [Next]_vars, NEW p \in Phone, stream'[p].at = "dead"
               PROVE  ~game'.exists
    BY DEF DeadMeansGone
  <1>1. game \in GameRow /\ stream \in [Phone -> StreamRow]
    BY Records DEF Known
  <1>2. game'.exists => game.exists
    <2>1. CASE game' = game
      BY <2>1
    <2>2. CASE Writer
      BY <1>1, <2>2 DEF Writer, EditList, Deal, Reset, RemovePlayer, Start, Delete, Rename, Substitute
    <2> QED
      BY <2>1, <2>2 DEF Next, vars, db, Publish, Restart, Stream, Dial, Subscribe, ReadGame,
         ReadList, ReadSelf, Send, WakeOnTick, Heartbeat, Follow, Deliver, Cut, TokenBegin,
         PickBegin, Call, TokenRead, TokenAnswer, PickCommit, PickPublish, PickRead, PickAnswer
  <1>3. stream[p].at = "dead" \/ ~game.exists
    <2>1. CASE stream'[p] = stream[p]
      BY <2>1
    <2>2. CASE Restart \/ \E q \in Phone : Cut(q)
      <3>1. stream'[p] \in {stream[p], Off}
        BY <1>1, <2>2 DEF Restart, Cut
      <3> QED BY <3>1, OffRow
    <2>3. CASE Stream(p)
      <3>1. CASE Dial(p)
        BY <1>1, <3>1 DEF Dial, Follow, Off
      <3>2. CASE ReadList(p) \/ ReadSelf(p)
        <4>1. stream'[p].at # "dead"
          BY <1>1, <3>2 DEF ReadList, ReadSelf, Follow, Off, StreamRow
        <4> QED BY <4>1
      <3>3. CASE Send(p)
        <4> DEFINE s == IF stream[p].snap = Ended THEN Off ELSE [stream[p] EXCEPT !.at = "wait"]
        <4>1. stream'[p] = s
          BY <1>1, <3>3 DEF Send, Follow
        <4>2. s.at \in {"off", "wait"}
          BY <1>1 DEF Off, StreamRow
        <4> QED BY <4>1, <4>2
      <3>4. CASE Subscribe(p) \/ WakeOnTick(p) \/ Heartbeat(p)
        <4>1. stream' = [stream EXCEPT ![p] = [Off EXCEPT !.at = "game"]]
          BY <3>4 DEF Subscribe, WakeOnTick, Heartbeat, Follow
        <4>2. [Off EXCEPT !.at = "game"].at = "game"
          BY DEF Off
        <4> QED BY <1>1, <4>1, <4>2
      <3>5. CASE ReadGame(p)
        <4> DEFINE s == IF game.exists THEN [Off EXCEPT !.at = "list", !.game = game]
                        ELSE [Off EXCEPT !.at = "send"]
        <4>1. stream'[p] = s
          BY <1>1, <3>5 DEF ReadGame, Follow
        <4>2. s.at \in {"list", "send"}
          BY DEF Off
        <4> QED BY <4>1, <4>2
      <3> QED BY <2>3, <3>1, <3>2, <3>3, <3>4, <3>5 DEF Stream
    <2>4. CASE \E q \in Phone \ {p} : Stream(q)
      <3>1. stream'[p] = stream[p]
        BY <1>1, <2>4 DEF Stream, Dial, Subscribe, ReadGame, ReadList, ReadSelf, Send, WakeOnTick,
                          Heartbeat, Follow
      <3> QED BY <3>1
    <2>5. CASE Writer \/ Publish \/ UNCHANGED vars
      <3>1. stream' = stream
        BY <2>5 DEF Writer, EditList, Deal, Reset, RemovePlayer, Start, Delete, Rename, Substitute,
                    Commit, Publish, vars
      <3> QED BY <3>1
    <2>6. CASE \E q \in Phone : Deliver(q) \/ TokenBegin(q) \/ PickBegin(q) \/ Call(q)
      <3>1. stream' = stream
        BY <2>6 DEF Deliver, TokenBegin, PickBegin, Call, TokenRead, TokenAnswer, PickCommit,
                    PickPublish, PickRead, PickAnswer, Elsewhere
      <3> QED BY <3>1
    <2> QED BY <2>2, <2>3, <2>4, <2>5, <2>6 DEF Next
  <1> QED BY <1>2, <1>3 DEF Known, DeadMeansGone

LEMMA KnownAlways == Spec => []Known
  <1>1. Init => DeadMeansGone
    BY OffRow DEF Init, DeadMeansGone
  <1>2. Init => Known
    BY <1>1, InitIInv DEF Known
  <1>3. Known /\ [Next]_vars => Known'
    BY Inductive, GoneForGood DEF Known
  <1> QED BY <1>2, <1>3, PTL DEF Spec

\* The "keeps showing it" of Converges, for any number of phones: what is current
\* on a screen is not replaced by an older snapshot or a late answer.
THEOREM ShownStays == Spec => [][ShownStep]_vars
  <1>1. Known /\ [Next]_vars => [ShownStep]_vars
    BY EveryStepKeeps DEF ShownStep
  <1> QED BY <1>1, KnownAlways, PTL DEF Spec

\* The "comes to show" of Converges without its fairness: while nothing changes
\* and the network holds nobody's step sets a screen back, and at most 33 steps of
\* Onward are between it and the latest state.
THEOREM ScreensCatchUp == Spec => [][CatchUpStep]_vars
  <1>1. ASSUME Known, [Next]_vars, NEW p \in Phone, UNCHANGED db, cuts' = cuts
        PROVE  /\ Behind(p)' <= Behind(p)
               /\ Behind(p) > 0 /\ Onward(p) => Behind(p)' < Behind(p)
    BY <1>1, EveryStepKeeps, CallKeeps, DeliverBrings, StreamKeeps DEF Onward
  <1>2. Known /\ [Next]_vars => [CatchUpStep]_vars
    BY <1>1 DEF CatchUpStep
  <1> QED BY <1>2, KnownAlways, PTL DEF Spec

\* A screen no step is left for shows the latest state, or its phone knows that
\* the game is gone; and one that is behind has something to bring it forward.
THEOREM BehindCounts == Spec => []BehindIsBounded
  <1>1. ASSUME Known, NEW p \in Phone
        PROVE  /\ Behind(p) \in 0..33
               /\ Behind(p) = 0 => Current(p)
               /\ Behind(p) > 0 => SomethingLeft(p)
    <2>1. Behind(p) = 0 => Current(p)
      BY <1>1, NotBehind DEF CaughtUp, Gone, Current
    <2>2. Behind(p) > 0 => SomethingLeft(p)
      <3>1. ~CallCurrent(p) => call[p].at \notin {"idle", "pick"}
        BY DEF CallCurrent
      <3>2. Behind(p) > 0 => stream[p].at # "dead"
        BY <1>1, NotBehind DEF Known, DeadMeansGone, Gone
      <3> QED BY <3>1, <3>2 DEF SomethingLeft
    <2> QED BY <2>1, <2>2, Ranges
  <1>2. Known => BehindIsBounded
    BY <1>1 DEF BehindIsBounded
  <1> QED BY <1>2, KnownAlways, PTL
=============================================================================
