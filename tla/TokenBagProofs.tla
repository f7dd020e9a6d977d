--------------------------- MODULE TokenBagProofs ---------------------------
(***************************************************************************)
(* Proofs about TokenBag, for every set of requests, names and roles and   *)
(* every bound.                                                            *)
(***************************************************************************)
EXTENDS TokenBagLive, FiniteSetTheorems, TLAPS

LEMMA IdleTyped == Idle \in Request
  BY BoundAssumption DEF Idle, Request, RequestRow, Naming, Owning, Point, Row, RegId, Seating, Discarded

LEMMA NewRowTyped ==
    ASSUME NEW n \in Name, NEW shared \in BOOLEAN
    PROVE  NewRow(n, shared) \in Registration
  BY BoundAssumption DEF NewRow, Registration, Row, Discarded

\* Ending a request leaves every other request and every type as it was.
LEMMA EndTyped ==
    ASSUME TypeOK, NEW p \in Req, End(p)
    PROVE  lock' \in [Row -> Req \cup {Free}] /\ req' \in [Req -> Request]
  BY IdleTyped DEF End, TypeOK

LEMMA FailTyped == ASSUME TypeOK, NEW p \in Req, Fail(p) PROVE TypeOK'
  BY EndTyped DEF Fail, TypeOK, db, Regs

LEMMA BeginTyped ==
    ASSUME TypeOK, NEW p \in Req, NEW q \in Request, Begin(p, q)
    PROVE  TypeOK'
  BY DEF Begin, TypeOK, db, Regs

LEMMA GotoTyped ==
    ASSUME TypeOK, NEW p \in Req, NEW q \in Request, Goto(p, q),
           lock' \in [Row -> Req \cup {Free}]
    PROVE  TypeOK'
  BY DEF Goto, TypeOK, db, Regs

LEMMA LockTyped ==
    ASSUME TypeOK, NEW p \in Req, NEW x \in Row, Lock(p, x)
    PROVE  lock' \in [Row -> Req \cup {Free}]
  BY DEF Lock, TypeOK

\* Ids of rows are ids the serial can hand out.
LEMMA RegsAreIds == ASSUME TypeOK PROVE Regs \subseteq RegId /\ RegId \subseteq Row
  BY BoundAssumption DEF TypeOK, RegId, Row

\* The records with which handlers begin.
LEMMA BeginRecords ==
    /\ \A seats \in Seating, c \in Nat, at \in {"open", "reveal"} :
          /\ [Idle EXCEPT !.at = at, !.seats = seats, !.code = c] \in Request
          /\ [Idle EXCEPT !.at = at, !.seats = seats] \in Request
    /\ \A at \in {"close", "reset"} : [Idle EXCEPT !.at = at] \in Request
    /\ \A n \in Name :
          /\ [Idle EXCEPT !.at = "count", !.name = n, !.shared = TRUE] \in Request
          /\ [Idle EXCEPT !.at = "lookup", !.name = n] \in Request
    /\ \A i \in RegId, at \in {"remove", "target"} :
          [Idle EXCEPT !.at = at, !.reg = i] \in Request
  <1>0. Idle \in RequestRow
    BY IdleTyped DEF Request
  <1>1. ASSUME NEW seats \in Seating, NEW c \in Nat, NEW at \in {"open", "reveal"}
        PROVE  /\ [Idle EXCEPT !.at = at, !.seats = seats, !.code = c] \in Request
               /\ [Idle EXCEPT !.at = at, !.seats = seats] \in Request
    <2> DEFINE q == [Idle EXCEPT !.at = at, !.seats = seats]
               r == [Idle EXCEPT !.at = at, !.seats = seats, !.code = c]
    <2>1. q \in RequestRow /\ q.at = at
      BY <1>0 DEF RequestRow, Point
    <2>2. r \in RequestRow /\ r.at = at
      BY <1>0 DEF RequestRow, Point
    <2> QED BY <2>1, <2>2 DEF Request, Naming, Owning
  <1>2. ASSUME NEW at \in {"close", "reset"}
        PROVE  [Idle EXCEPT !.at = at] \in Request
    BY <1>0 DEF Request, RequestRow, Point, Naming, Owning
  <1>3. ASSUME NEW n \in Name
        PROVE  /\ [Idle EXCEPT !.at = "count", !.name = n, !.shared = TRUE] \in Request
               /\ [Idle EXCEPT !.at = "lookup", !.name = n] \in Request
    BY <1>0 DEF Request, RequestRow, Point, Naming, Owning
  <1>4. ASSUME NEW i \in RegId, NEW at \in {"remove", "target"}
        PROVE  [Idle EXCEPT !.at = at, !.reg = i] \in Request
    <2> DEFINE q == [Idle EXCEPT !.at = at, !.reg = i]
    <2>1. i \in Row
      BY BoundAssumption DEF RegId, Row
    <2>2. q \in RequestRow /\ q.at = at /\ q.reg = i
      BY <1>0, <2>1 DEF RequestRow, Point
    <2> QED BY <2>2 DEF Request, Naming, Owning
  <1> QED BY <1>1, <1>2, <1>3, <1>4

LEMMA HandlerTyped == ASSUME TypeOK, NEW p \in Req, Handler(p) PROVE TypeOK'
  <1> USE BeginTyped, BeginRecords
  <1>1. game.seats \in Seating /\ game.code \in Nat
    BY DEF TypeOK, Game
  <1>2. CASE BeginOpen(p)    BY <1>1, <1>2 DEF BeginOpen
  <1>3. CASE BeginClose(p)   BY <1>3 DEF BeginClose
  <1>4. CASE BeginAdd(p)     BY <1>4 DEF BeginAdd
  <1>5. CASE BeginJoin(p)    BY <1>5 DEF BeginJoin
  <1>6. CASE BeginJoinShared(p)  BY <1>6 DEF BeginJoinShared
  <1>7. CASE BeginRemove(p)  BY <1>7, RegsAreIds DEF BeginRemove
  <1>8. CASE BeginPick(p)    BY <1>8, RegsAreIds DEF BeginPick
  <1>9. CASE BeginReveal(p)  BY <1>1, <1>9 DEF BeginReveal
  <1>10. CASE BeginReset(p)  BY <1>10 DEF BeginReset
  <1> QED
    BY <1>2, <1>3, <1>4, <1>5, <1>6, <1>7, <1>8, <1>9, <1>10 DEF Handler

\* A row added under a fresh id.
LEMMA InsertTyped == ASSUME TypeOK, NEW p \in Req, Insert(p) PROVE TypeOK'
  <1> DEFINE i == lastId + 1
             n == req[p].name
             row == NewRow(n, req[p].shared)
  <1>1. CASE ~CanInsert(n) /\ Fail(p)
    BY <1>1, FailTyped
  <1>2. CASE CanInsert(n) /\ ~(~CanInsert(n) /\ Fail(p))
    <2>1. /\ req[p] \in Request /\ req[p].at = "insert"
          /\ lastId \in Row /\ i \in RegId /\ i \in Row
      BY <1>2, BoundAssumption DEF TypeOK, CanInsert, Row, RegId, Insert
    <2>2. n \in Name /\ row \in Registration
      BY <2>1, NewRowTyped DEF Request, RequestRow, Naming
    <2>3. /\ regs' = [j \in Regs \cup {i} |-> IF j = i THEN row ELSE regs[j]]
          /\ lastId' = i /\ UNCHANGED <<game, held, dealt>>
      BY <1>2 DEF Insert
    <2>4. Regs' = Regs \cup {i} /\ regs' \in [Regs' -> Registration]
      BY <2>2, <2>3 DEF TypeOK, Regs
    <2>5. Regs' \subseteq 1..lastId'
      BY <2>1, <2>3, <2>4 DEF TypeOK, Row
    <2>6. lock' \in [Row -> Req \cup {Free}] /\ req' \in [Req -> Request]
      <3>1. CASE End(p)
        BY <3>1, EndTyped
      <3>2. CASE /\ req' = [req EXCEPT ![p].at = "reply", ![p].reg = i, ![p].secret = 1]
                 /\ UNCHANGED lock
        <4> DEFINE q == [req[p] EXCEPT !.at = "reply", !.reg = i, !.secret = 1]
        <4>1. q \in RequestRow /\ q.at = "reply" /\ q.reg = i
          BY <2>1 DEF Request, RequestRow, Point
        <4>2. q \in Request
          BY <2>1, <4>1 DEF Request, Naming, Owning
        <4>3. req' = [req EXCEPT ![p] = q]
          BY <3>2 DEF TypeOK
        <4> QED BY <3>2, <4>2, <4>3 DEF TypeOK
      <3>3. \/ End(p)
            \/ /\ req' = [req EXCEPT ![p].at = "reply", ![p].reg = i, ![p].secret = 1]
               /\ UNCHANGED lock
        BY <1>2 DEF Insert
      <3> QED BY <3>1, <3>2, <3>3
    <2> QED BY <2>1, <2>3, <2>4, <2>5, <2>6 DEF TypeOK
  <1> QED BY <1>1, <1>2 DEF Insert

\* The records with which requests go on: the new point may only ask for a name
\* or a registration that is there.
LEMMA GotoRecords ==
    ASSUME NEW q \in Request
    PROVE  /\ \A F \in SUBSET Name :
                 [q EXCEPT !.at = "backfill", !.fill = F] \in Request
           /\ q.at = "lookup" =>
                 /\ [q EXCEPT !.at = "count"] \in Request
                 /\ \A i \in RegId : [q EXCEPT !.at = "claim", !.reg = i] \in Request
           /\ q.at = "claim" =>
                 \A s \in Nat : [q EXCEPT !.at = "reply", !.secret = s] \in Request
           /\ q.at = "count" => [q EXCEPT !.at = "insert"] \in Request
           /\ \A T \in SUBSET RegId : /\ [q EXCEPT !.todo = T] \in Request
                                      /\ [q EXCEPT !.at = "wipe", !.todo = T] \in Request
           /\ q.at = "remove" => \A T \in SUBSET RegId :
                 [q EXCEPT !.at = "unpick", !.todo = T] \in Request
           /\ q.at = "target" =>
                 \A t \in Row : [q EXCEPT !.at = "pick", !.pick = t] \in Request
           /\ q.at = "pick" => [q EXCEPT !.at = "recheck"] \in Request
           /\ q.at = "recheck" => [q EXCEPT !.at = "save"] \in Request
           /\ \A T \in SUBSET RegId, f \in [RegId -> Role \cup {NoRole}] :
                 [q EXCEPT !.at = "assign", !.todo = T, !.plan = f] \in Request
  <1>0. q \in RequestRow
    BY DEF Request
  <1>1. \A F \in SUBSET Name : [q EXCEPT !.at = "backfill", !.fill = F] \in Request
    BY <1>0 DEF Request, RequestRow, Point, Naming, Owning
  <1>2. ASSUME q.at = "lookup"
        PROVE  /\ [q EXCEPT !.at = "count"] \in Request
               /\ \A i \in RegId : [q EXCEPT !.at = "claim", !.reg = i] \in Request
    <2>1. [q EXCEPT !.at = "count"] \in Request
      BY <1>0, <1>2 DEF Request, RequestRow, Point, Naming, Owning
    <2>2. ASSUME NEW i \in RegId
          PROVE  [q EXCEPT !.at = "claim", !.reg = i] \in Request
      <3>1. i \in Row
        BY BoundAssumption DEF RegId, Row
      <3> QED BY <1>0, <3>1 DEF Request, RequestRow, Point, Naming, Owning
    <2> QED BY <2>1, <2>2
  <1>3. ASSUME q.at = "claim", NEW s \in Nat
        PROVE  [q EXCEPT !.at = "reply", !.secret = s] \in Request
    BY <1>0, <1>3 DEF Request, RequestRow, Point, Naming, Owning
  <1>4. ASSUME q.at = "count" PROVE [q EXCEPT !.at = "insert"] \in Request
    BY <1>0, <1>4 DEF Request, RequestRow, Point, Naming, Owning
  <1>5. ASSUME NEW T \in SUBSET RegId
        PROVE  /\ [q EXCEPT !.todo = T] \in Request
               /\ [q EXCEPT !.at = "wipe", !.todo = T] \in Request
    <2>1. [q EXCEPT !.todo = T] \in Request
      BY <1>0 DEF Request, RequestRow, Point, Naming, Owning
    <2>2. [q EXCEPT !.at = "wipe", !.todo = T] \in Request
      BY <1>0 DEF Request, RequestRow, Point, Naming, Owning
    <2> QED BY <2>1, <2>2
  <1>6. ASSUME q.at = "remove", NEW T \in SUBSET RegId
        PROVE  [q EXCEPT !.at = "unpick", !.todo = T] \in Request
    BY <1>0, <1>6 DEF Request, RequestRow, Point, Naming, Owning
  <1>7. ASSUME q.at = "target", NEW t \in Row
        PROVE  [q EXCEPT !.at = "pick", !.pick = t] \in Request
    BY <1>0, <1>7 DEF Request, RequestRow, Point, Naming, Owning
  <1>8. ASSUME q.at = "pick" PROVE [q EXCEPT !.at = "recheck"] \in Request
    BY <1>0, <1>8 DEF Request, RequestRow, Point, Naming, Owning
  <1>9. ASSUME q.at = "recheck" PROVE [q EXCEPT !.at = "save"] \in Request
    BY <1>0, <1>9 DEF Request, RequestRow, Point, Naming, Owning
  <1>10. ASSUME NEW T \in SUBSET RegId, NEW f \in [RegId -> Role \cup {NoRole}]
         PROVE  [q EXCEPT !.at = "assign", !.todo = T, !.plan = f] \in Request
    BY <1>0 DEF Request, RequestRow, Point, Naming, Owning
  <1> QED BY <1>1, <1>2, <1>3, <1>4, <1>5, <1>6, <1>7, <1>8, <1>9, <1>10

\* The rows that opening the bag adds, under ids of their own.
LEMMA BackfillRows ==
    ASSUME TypeOK, NEW F \in SUBSET Name, NEW last \in lastId..MaxId,
           NEW id \in [F -> (lastId + 1)..last],
           regs' = [i \in Regs \cup {id[n] : n \in F} |->
                      IF i \in Regs THEN regs[i]
                      ELSE NewRow(CHOOSE n \in F : id[n] = i, TRUE)],
           lastId' = last
    PROVE  /\ lastId' \in Row
           /\ Regs' \subseteq 1..lastId'
           /\ regs' \in [Regs' -> Registration]
  <1> DEFINE new == {id[n] : n \in F}
  <1>1. lastId \in Nat /\ last \in Row /\ lastId <= last
    BY BoundAssumption DEF TypeOK, Row
  <1>2. new \subseteq 1..last
    BY <1>1
  <1>3. Regs' = Regs \cup new
    BY DEF Regs
  <1>4. Regs \subseteq 1..last
    BY <1>1 DEF TypeOK
  <1>5. ASSUME NEW i \in new
        PROVE  NewRow(CHOOSE n \in F : id[n] = i, TRUE) \in Registration
    <2>1. \E n \in F : id[n] = i
      BY <1>5
    <2>2. (CHOOSE n \in F : id[n] = i) \in F
      BY <2>1, Zenon
    <2> QED BY <2>2, NewRowTyped
  <1>6. \A i \in Regs' : regs'[i] \in Registration
    BY <1>3, <1>5 DEF TypeOK
  <1> QED BY <1>1, <1>2, <1>3, <1>4, <1>6

LEMMA OpenTyped ==
    ASSUME TypeOK, NEW p \in Req, OpenWrite(p) \/ OpenCommit(p) \/ CloseWrite(p)
    PROVE  TypeOK'
  <1>0. req[p] \in Request /\ GameRow \in Row
    BY BoundAssumption DEF TypeOK, GameRow, Row
  <1>1. CASE OpenWrite(p)
    <2>1. CASE Fail(p) BY <2>1, FailTyped
    <2>2. CASE Lock(p, GameRow) /\ \E F \in Backfill(req[p].seats) :
                 Goto(p, [req[p] EXCEPT !.at = "backfill", !.fill = F])
      <3>1. Backfill(req[p].seats) \subseteq SUBSET Name
        BY <1>0 DEF Backfill, Seated, Request, RequestRow, Seating
      <3> QED BY <2>2, <3>1, <1>0, GotoRecords, GotoTyped, LockTyped
    <2> QED BY <1>1, <2>1, <2>2 DEF OpenWrite
  <1>2. CASE OpenCommit(p)
    <2>1. CASE Fail(p) BY <2>1, FailTyped
    <2>2. CASE ~Fail(p)
      <3> DEFINE F == req[p].fill
      <3>1. F \in SUBSET Name /\ req[p].code \in Nat
        BY <1>0 DEF Request, RequestRow
      <3>2. PICK last \in lastId..MaxId : \E id \in [F -> (lastId + 1)..last] :
              /\ regs' = [i \in Regs \cup {id[n] : n \in F} |->
                             IF i \in Regs THEN regs[i]
                             ELSE NewRow(CHOOSE n \in F : id[n] = i, TRUE)]
              /\ lastId' = last
        BY <1>2, <2>2 DEF OpenCommit
      <3>3. /\ lastId' \in Row
            /\ Regs' \subseteq 1..lastId'
            /\ regs' \in [Regs' -> Registration]
        <4>1. PICK id \in [F -> (lastId + 1)..last] :
                /\ regs' = [i \in Regs \cup {id[n] : n \in F} |->
                               IF i \in Regs THEN regs[i]
                               ELSE NewRow(CHOOSE n \in F : id[n] = i, TRUE)]
                /\ lastId' = last
          BY <3>2
        <4> HIDE DEF F
        <4> QED BY <3>1, <4>1, BackfillRows
      <3>4. game' \in Game
        <4> DEFINE c == IF req[p].code = 0 THEN game.code + 1 ELSE game.code
        <4>1. game \in Game /\ game.code \in Nat
          BY DEF TypeOK, Game
        <4>2. c \in Nat
          BY <4>1
        <4>3. game' = [game EXCEPT !.phase = "open", !.code = c]
          BY <1>2, <2>2 DEF OpenCommit
        <4> HIDE DEF c
        <4> QED BY <4>1, <4>2, <4>3 DEF Game, Phase
      <3>5. End(p) /\ UNCHANGED <<held, dealt>>
        BY <1>2, <2>2 DEF OpenCommit
      <3> QED BY <3>3, <3>4, <3>5, EndTyped DEF TypeOK
    <2> QED BY <2>1, <2>2
  <1>3. CASE CloseWrite(p)
    <2>1. CASE Fail(p) BY <2>1, FailTyped
    <2>2. CASE ~Fail(p)
      <3>1. game' \in Game
        BY <1>3, <2>2 DEF CloseWrite, TypeOK, Game, Phase
      <3> QED BY <1>3, <2>2, <3>1, EndTyped DEF CloseWrite, TypeOK, Regs
    <2> QED BY <2>1, <2>2
  <1> QED BY <1>1, <1>2, <1>3

LEMMA JoinTyped ==
    ASSUME TypeOK, NEW p \in Req,
           JoinLookup(p) \/ Claim(p) \/ CountRegs(p) \/ Reply(p)
    PROVE  TypeOK'
  <1>0. req[p] \in Request
    BY DEF TypeOK
  <1>1. CASE JoinLookup(p)
    BY <1>0, <1>1, RegsAreIds, FailTyped, GotoTyped, GotoRecords DEF JoinLookup, TypeOK
  <1>2. CASE Claim(p)
    <2>1. CASE Fail(p) BY <2>1, FailTyped
    <2>2. CASE ~Fail(p)
      <3> DEFINE i == req[p].reg
      <3>1. /\ i \in Regs /\ req[p].at = "claim"
            /\ regs' = [regs EXCEPT ![i].shared = FALSE, ![i].secret = @ + 1]
            /\ req' = [req EXCEPT ![p].at = "reply", ![p].secret = regs[i].secret + 1]
            /\ UNCHANGED <<game, lastId, lock, held, dealt>>
        BY <1>2, <2>2 DEF Claim
      <3>2. regs[i] \in Registration
        BY <3>1 DEF TypeOK
      <3>3. [regs[i] EXCEPT !.shared = FALSE, !.secret = @ + 1] \in Registration
        <4>1. ASSUME NEW row \in Registration
              PROVE  [row EXCEPT !.shared = FALSE, !.secret = @ + 1] \in Registration
          <5>1. row.secret \in Nat /\ row.secret + 1 \in Nat
            BY DEF Registration
          <5> QED BY <5>1 DEF Registration
        <4> QED BY <3>2, <4>1
      <3>4. regs' \in [Regs -> Registration] /\ Regs' = Regs
        BY <3>1, <3>3 DEF TypeOK, Regs
      <3>5. regs[i].secret + 1 \in Nat
        <4>1. \A row \in Registration : row.secret \in Nat
          BY DEF Registration
        <4> QED BY <3>2, <4>1
      <3>6. [req[p] EXCEPT !.at = "reply", !.secret = regs[i].secret + 1] \in Request
        BY <1>0, <3>1, <3>5, GotoRecords
      <3>7. req' \in [Req -> Request]
        BY <3>1, <3>6 DEF TypeOK
      <3> QED BY <3>1, <3>4, <3>7 DEF TypeOK
    <2> QED BY <2>1, <2>2
  <1>3. CASE CountRegs(p)
    BY <1>0, <1>3, FailTyped, GotoTyped, GotoRecords DEF CountRegs, TypeOK
  <1>4. CASE Reply(p)
    <2>1. [reg |-> req[p].reg, secret |-> req[p].secret] \in [reg : RegId, secret : Nat]
      BY <1>0, <1>4 DEF Reply, Request, RequestRow, Owning
    <2> QED BY <1>4, <2>1, EndTyped DEF Reply, TypeOK, db, Regs
  <1> QED BY <1>1, <1>2, <1>3, <1>4

LEMMA RemoveTyped ==
    ASSUME TypeOK, NEW p \in Req, RemoveDelete(p) \/ RemoveUnpick(p) \/ RemoveCommit(p)
    PROVE  TypeOK'
  <1>0. req[p] \in Request /\ Regs \subseteq RegId /\ RegId \subseteq Row
    BY RegsAreIds DEF TypeOK
  <1>1. CASE RemoveDelete(p)
    <2> DEFINE i == req[p].reg
    <2>1. CASE Fail(p) BY <2>1, FailTyped
    <2>2. CASE ~Fail(p)
      <3>1. /\ req[p].at = "remove" /\ Lock(p, i)
            /\ Goto(p, [req[p] EXCEPT !.at = "unpick",
                           !.todo = {j \in Regs \ {i} : regs[j].pick = i}])
        BY <1>1, <2>2 DEF RemoveDelete
      <3>2. i \in Row /\ {j \in Regs \ {i} : regs[j].pick = i} \in SUBSET RegId
        BY <1>0 DEF Request, RequestRow
      <3>3. [req[p] EXCEPT !.at = "unpick",
                           !.todo = {j \in Regs \ {i} : regs[j].pick = i}] \in Request
        BY <1>0, <3>1, <3>2, GotoRecords
      <3> QED BY <3>1, <3>2, <3>3, LockTyped, GotoTyped
    <2> QED BY <2>1, <2>2
  <1>2. CASE RemoveUnpick(p)
    <2>1. PICK j \in req[p].todo :
            /\ \/ Lock(p, j)
               \/ UNCHANGED lock
            /\ Goto(p, [req[p] EXCEPT !.todo = @ \ {j}])
      BY <1>2 DEF RemoveUnpick
    <2>2. req[p].todo \in SUBSET RegId
      BY <1>0 DEF Request, RequestRow
    <2>3. [req[p] EXCEPT !.todo = @ \ {j}] \in Request
      BY <1>0, <2>2, GotoRecords
    <2>4. lock' \in [Row -> Req \cup {Free}]
      BY <1>0, <2>1, <2>2, LockTyped DEF TypeOK
    <2> QED BY <2>1, <2>3, <2>4, GotoTyped
  <1>3. CASE RemoveCommit(p)
    <2>1. \A row \in Registration : [row EXCEPT !.pick = 0] \in Registration
      BY BoundAssumption DEF Registration, Row
    <2>2. /\ Regs' = Regs \ {req[p].reg}
          /\ regs' \in [Regs' -> Registration]
      BY <1>3, <2>1 DEF RemoveCommit, TypeOK, Regs
    <2> QED BY <1>3, <2>2, EndTyped DEF RemoveCommit, TypeOK
  <1> QED BY <1>1, <1>2, <1>3

LEMMA PickTyped ==
    ASSUME TypeOK, NEW p \in Req,
           PickTarget(p) \/ PickWrite(p) \/ PickRecheck(p) \/ PickCommit(p)
    PROVE  TypeOK'
  <1>0. req[p] \in Request /\ Regs \subseteq RegId /\ RegId \subseteq Row /\ 0 \in Row
    BY RegsAreIds, BoundAssumption DEF TypeOK, Row
  <1>1. CASE PickTarget(p)
    <2>1. PICK t \in Row : Goto(p, [req[p] EXCEPT !.at = "pick", !.pick = t])
      BY <1>0, <1>1 DEF PickTarget
    <2> QED BY <1>0, <1>1, <2>1, GotoTyped, GotoRecords DEF PickTarget, TypeOK
  <1>2. CASE PickWrite(p)
    <2>1. req[p].reg \in Row
      BY <1>0 DEF Request, RequestRow
    <2> QED BY <1>0, <1>2, <2>1, FailTyped, GotoTyped, GotoRecords, LockTyped DEF PickWrite
  <1>3. CASE PickRecheck(p)
    BY <1>0, <1>3, FailTyped, GotoTyped, GotoRecords DEF PickRecheck, TypeOK
  <1>4. CASE PickCommit(p)
    <2>1. req[p].pick \in Row
      BY <1>0 DEF Request, RequestRow
    <2>2. \A row \in Registration : [row EXCEPT !.pick = req[p].pick] \in Registration
      BY <2>1 DEF Registration
    <2>3. Regs' = Regs /\ regs' \in [Regs -> Registration]
      BY <1>4, <2>2 DEF PickCommit, TypeOK, Regs
    <2> QED BY <1>4, <2>3, EndTyped DEF PickCommit, TypeOK
  <1> QED BY <1>1, <1>2, <1>3, <1>4

LEMMA RevealTyped ==
    ASSUME TypeOK, NEW p \in Req, RevealRead(p) \/ RevealAssign(p) \/ RevealCommit(p)
    PROVE  TypeOK'
  <1>0. req[p] \in Request /\ Regs \subseteq RegId /\ RegId \subseteq Row
    BY RegsAreIds DEF TypeOK
  <1>1. CASE RevealRead(p)
    <2>1. CASE Fail(p) BY <2>1, FailTyped
    <2>2. CASE ~Fail(p)
      <3> DEFINE seats == req[p].seats
      <3>1. /\ Dealable(seats) /\ UNCHANGED lock
            /\ Goto(p, [req[p] EXCEPT !.at = "assign", !.todo = Regs,
                                      !.plan = Assignments(seats)])
        BY <1>1, <2>2 DEF RevealRead
      <3>2. ASSUME NEW i \in Regs
            PROVE  (CHOOSE r \in Role : seats[r] = regs[i].name) \in Role
        <4>1. \E r \in Role : seats[r] = regs[i].name
          BY <3>1 DEF Dealable, RolesOf
        <4> QED BY <4>1, Zenon
      <3>3. Assignments(seats) \in [RegId -> Role \cup {NoRole}]
        BY <3>2 DEF Assignments
      <3>4. [req[p] EXCEPT !.at = "assign", !.todo = Regs,
                           !.plan = Assignments(seats)] \in Request
        BY <1>0, <3>3, GotoRecords
      <3> QED BY <3>1, <3>4, GotoTyped DEF TypeOK
    <2> QED BY <2>1, <2>2
  <1>2. CASE RevealAssign(p)
    <2>1. CASE Fail(p) BY <2>1, FailTyped
    <2>2. CASE ~Fail(p)
      <3>1. PICK i \in req[p].todo :
              Lock(p, i) /\ Goto(p, [req[p] EXCEPT !.todo = @ \ {i}])
        BY <1>2, <2>2 DEF RevealAssign
      <3>2. req[p].todo \in SUBSET RegId
        BY <1>0 DEF Request, RequestRow
      <3>3. [req[p] EXCEPT !.todo = @ \ {i}] \in Request
        BY <1>0, <3>2, GotoRecords
      <3> QED BY <1>0, <3>1, <3>2, <3>3, LockTyped, GotoTyped
    <2> QED BY <2>1, <2>2
  <1>3. CASE RevealCommit(p)
    <2> DEFINE plan == req[p].plan
               mine == {i \in RegId : plan[i] # NoRole}
    <2>1. plan \in [RegId -> Role \cup {NoRole}]
      BY <1>0 DEF Request, RequestRow
    <2>2. \A row \in Registration, r \in Role \cup {NoRole} :
            [row EXCEPT !.role = r] \in Registration
      BY DEF Registration
    <2>3. regs' = [i \in Regs |-> IF i \in mine
                                  THEN [regs[i] EXCEPT !.role = plan[i]] ELSE regs[i]]
      BY <1>3 DEF RevealCommit
    <2>4. Regs' = Regs /\ regs' \in [Regs -> Registration]
      BY <1>0, <2>1, <2>2, <2>3 DEF TypeOK, Regs
    <2>5. game' \in Game
      BY <1>3 DEF RevealCommit, TypeOK, Game, Phase
    <2> QED BY <1>3, <2>4, <2>5, EndTyped DEF RevealCommit, TypeOK
  <1> QED BY <1>1, <1>2, <1>3

LEMMA ResetTyped ==
    ASSUME TypeOK, NEW p \in Req, ResetRead(p) \/ ResetWipe(p) \/ ResetCommit(p)
    PROVE  TypeOK'
  <1>0. req[p] \in Request /\ Regs \subseteq RegId /\ RegId \subseteq Row
    BY RegsAreIds DEF TypeOK
  <1>1. CASE ResetRead(p)
    BY <1>0, <1>1, GotoTyped, GotoRecords DEF ResetRead, TypeOK
  <1>2. CASE ResetWipe(p)
    <2>1. PICK i \in req[p].todo :
            /\ \/ Lock(p, i)
               \/ UNCHANGED lock
            /\ Goto(p, [req[p] EXCEPT !.todo = @ \ {i}])
      BY <1>2 DEF ResetWipe
    <2>2. req[p].todo \in SUBSET RegId
      BY <1>0 DEF Request, RequestRow
    <2>3. [req[p] EXCEPT !.todo = @ \ {i}] \in Request
      BY <1>0, <2>2, GotoRecords
    <2>4. lock' \in [Row -> Req \cup {Free}]
      BY <1>0, <2>1, <2>2, LockTyped DEF TypeOK
    <2> QED BY <2>1, <2>3, <2>4, GotoTyped
  <1>3. CASE ResetCommit(p)
    <2>1. CASE Fail(p) BY <2>1, FailTyped
    <2>2. CASE ~Fail(p)
      <3>1. \A row \in Registration : [row EXCEPT !.role = NoRole] \in Registration
        BY DEF Registration
      <3>2. Regs' = Regs /\ regs' \in [Regs -> Registration]
        BY <1>3, <2>2, <3>1 DEF ResetCommit, TypeOK, Regs
      <3>3. game' \in Game
        BY <1>3, <2>2 DEF ResetCommit, TypeOK, Game, Phase
      <3> QED BY <1>3, <2>2, <3>2, <3>3, EndTyped DEF ResetCommit, TypeOK
    <2> QED BY <2>1, <2>2
  <1> QED BY <1>1, <1>2, <1>3

LEMMA EnvironmentTyped == ASSUME TypeOK, Environment PROVE TypeOK'
  <1>1. CASE EditSeat
    <2>1. PICK r \in Role, n \in Name \cup {NoName} : game' = [game EXCEPT !.seats[r] = n]
      BY <1>1 DEF EditSeat
    <2>2. game.seats \in Seating
      BY DEF TypeOK, Game
    <2>3. [game.seats EXCEPT ![r] = n] \in Seating
      BY <2>2 DEF Seating
    <2>4. game' \in Game
      BY <2>1, <2>3 DEF TypeOK, Game
    <2> QED BY <1>1, <2>4 DEF EditSeat, UnchangedByGame, TypeOK, Regs
  <1>2. CASE StartGame
    BY <1>2 DEF StartGame, UnchangedByGame, TypeOK, Game, GameState, Regs
  <1>3. CASE EndGame
    BY <1>3 DEF EndGame, UnchangedByGame, TypeOK, Game, GameState, Regs
  <1>4. CASE DeleteGame
    BY <1>4 DEF DeleteGame, UnchangedByGame, TypeOK, Game, GameState, Regs
  <1> QED BY <1>1, <1>2, <1>3, <1>4 DEF Environment

LEMMA InitTyped == Init => TypeOK
  <1> SUFFICES ASSUME Init PROVE TypeOK
    OBVIOUS
  <1>1. game \in Game
    BY SeatingAssumption DEF Init, Game, GameState, Phase, Seating
  <1>2. req \in [Req -> Request]
    BY IdleTyped DEF Init
  <1> QED BY <1>1, <1>2, BoundAssumption DEF Init, TypeOK, Regs, Row

LEMMA NextTyped == TypeOK /\ [Next]_vars => TypeOK'
  <1> SUFFICES ASSUME TypeOK, [Next]_vars PROVE TypeOK'
    OBVIOUS
  <1>1. ASSUME NEW p \in Req, Handler(p) PROVE TypeOK'
    BY <1>1, HandlerTyped
  <1>2. ASSUME NEW p \in Req, Step(p) PROVE TypeOK'
    BY <1>2, OpenTyped, JoinTyped, InsertTyped, RemoveTyped, PickTyped, RevealTyped,
       ResetTyped DEF Step
  <1>3. ASSUME NEW p \in Req, Abort(p) PROVE TypeOK'
    BY <1>3, FailTyped DEF Abort
  <1>4. CASE UNCHANGED vars
    BY <1>4 DEF vars, TypeOK, Regs
  <1> QED BY <1>1, <1>2, <1>3, <1>4, EnvironmentTyped DEF Next

\* Every reachable state is well typed; in particular a registration's id is
\* always one the serial has handed out, so no id is ever used twice.
THEOREM TypeCorrect == Spec => []TypeOK
  BY InitTyped, NextTyped, PTL DEF Spec

-----------------------------------------------------------------------------
(***************************************************************************)
(* Locks.                                                                  *)
(***************************************************************************)

\* What a step that only moves requests does: one request changes, and the
\* only locks that change hands are its own.
Moves(p) ==
    /\ \A o \in Req \ {p} : req'[o] = req[o]
    /\ \A x \in Row : \/ lock'[x] = lock[x]
                      \/ lock[x] \in {Free, p} /\ lock'[x] \in {Free, p}

LEMMA EndMoves ==
    ASSUME TypeOK, NEW p \in Req, End(p)
    PROVE  /\ Moves(p) /\ req'[p] = Idle
           /\ \A x \in Row : lock'[x] # p
  <1>1. /\ \A o \in Req \ {p} : req'[o] = req[o]
        /\ req'[p] = Idle
    BY DEF TypeOK, End
  <1>2. \A x \in Row : lock'[x] = IF lock[x] = p THEN Free ELSE lock[x]
    BY DEF TypeOK, End
  <1> QED BY <1>1, <1>2, NullAssumption DEF Moves

LEMMA StepMoves ==
    ASSUME TypeOK, NEW p \in Req, Handler(p) \/ Step(p) \/ Abort(p)
    PROVE  Moves(p)
  <1>1. CASE End(p)
    BY <1>1, EndMoves
  <1>2. ASSUME NEW q, Goto(p, q), UNCHANGED lock PROVE Moves(p)
    <2>1. \A o \in Req \ {p} : req'[o] = req[o]
      BY <1>2 DEF Goto, TypeOK
    <2> QED BY <1>2, <2>1 DEF Moves
  <1>3. ASSUME NEW q, NEW x \in Row, Goto(p, q), Lock(p, x) PROVE Moves(p)
    <2>1. \A o \in Req \ {p} : req'[o] = req[o]
      BY <1>3 DEF Goto, TypeOK
    <2>2. \A y \in Row : lock'[y] = IF y = x THEN p ELSE lock[y]
      BY <1>3 DEF Lock, TypeOK
    <2> QED BY <1>3, <2>1, <2>2 DEF Lock, Moves
  <1>4. CASE Handler(p)
    <2>1. PICK q : Begin(p, q)
      BY <1>4 DEF Handler, BeginOpen, BeginClose, BeginAdd, BeginJoin, BeginJoinShared,
         BeginRemove, BeginPick, BeginReveal, BeginReset
    <2>2. /\ \A o \in Req \ {p} : req'[o] = req[o]
          /\ UNCHANGED lock
      BY <2>1 DEF Begin, TypeOK
    <2> QED BY <2>2 DEF Moves
  <1>5. req[p] \in RequestRow /\ RegId \subseteq Row /\ GameRow \in Row
    BY BoundAssumption DEF TypeOK, Request, RegId, Row, GameRow
  <1>6. req[p].reg \in Row /\ req[p].todo \subseteq Row
    BY <1>5 DEF RequestRow
  <1>7. ASSUME OpenWrite(p), ~End(p) PROVE Moves(p)
    BY <1>3, <1>5, <1>7 DEF OpenWrite, Fail
  <1>8. ASSUME JoinLookup(p) \/ CountRegs(p) \/ PickTarget(p) \/ PickRecheck(p)
               \/ RevealRead(p) \/ ResetRead(p), ~End(p) PROVE Moves(p)
    BY <1>2, <1>8 DEF JoinLookup, CountRegs, PickTarget, PickRecheck, RevealRead,
       ResetRead, Fail
  <1>9. ASSUME RemoveDelete(p) \/ PickWrite(p), ~End(p) PROVE Moves(p)
    BY <1>3, <1>6, <1>9 DEF RemoveDelete, PickWrite, Fail
  <1>10. ASSUME RemoveUnpick(p) \/ RevealAssign(p) \/ ResetWipe(p), ~End(p) PROVE Moves(p)
    BY <1>2, <1>3, <1>6, <1>10 DEF RemoveUnpick, RevealAssign, ResetWipe, Fail
  <1>11. ASSUME Claim(p) \/ Insert(p), ~End(p) PROVE Moves(p)
    <2>1. PICK q : req' = [req EXCEPT ![p] = q]
      BY <1>11 DEF Claim, Insert, Fail, TypeOK
    <2>2. UNCHANGED lock
      BY <1>11 DEF Claim, Insert, Fail
    <2>3. \A o \in Req \ {p} : req'[o] = req[o]
      BY <2>1 DEF TypeOK
    <2> QED BY <2>2, <2>3 DEF Moves
  <1>12. CASE OpenCommit(p) \/ CloseWrite(p) \/ Reply(p) \/ RemoveCommit(p)
              \/ PickCommit(p) \/ RevealCommit(p) \/ ResetCommit(p) \/ Abort(p)
    BY <1>1, <1>12 DEF OpenCommit, CloseWrite, Reply, RemoveCommit, PickCommit,
       RevealCommit, ResetCommit, Abort, Fail
  <1> QED
    BY <1>1, <1>4, <1>7, <1>8, <1>9, <1>10, <1>11, <1>12 DEF Step

\* A request that still has a lock after its step is inside its transaction.
LEMMA StepInTx ==
    ASSUME TypeOK, NEW p \in Req, Handler(p) \/ Step(p) \/ Abort(p)
    PROVE  \/ \A x \in Row : lock'[x] # p
           \/ req'[p].at \in TxPoint
           \/ UNCHANGED lock /\ req[p].at \notin TxPoint
  <1> DEFINE Goal == \/ \A x \in Row : lock'[x] # p
                     \/ req'[p].at \in TxPoint
                     \/ UNCHANGED lock /\ req[p].at \notin TxPoint
  <1>0. /\ req[p] \in RequestRow
        /\ \A q : req' = [req EXCEPT ![p] = q] => req'[p] = q
    BY DEF TypeOK, Request
  <1>1. CASE End(p)
    BY <1>1, EndMoves
  <1>2. CASE Handler(p)
    <2>1. req[p].at = "idle" /\ UNCHANGED lock
      BY <1>2 DEF Handler, BeginOpen, BeginClose, BeginAdd, BeginJoin, BeginJoinShared,
         BeginRemove, BeginPick, BeginReveal, BeginReset, Begin
    <2> QED BY <2>1 DEF TxPoint
  <1>3. ASSUME JoinLookup(p) \/ CountRegs(p) \/ PickTarget(p) \/ ResetRead(p), ~End(p)
        PROVE  Goal
    BY <1>3 DEF JoinLookup, CountRegs, PickTarget, ResetRead, Fail, TxPoint
  <1>4. ASSUME Claim(p) \/ Insert(p), ~End(p) PROVE Goal
    BY <1>4 DEF Claim, Insert, Fail, TxPoint
  <1>5. ASSUME OpenWrite(p) \/ RevealRead(p), ~End(p) PROVE Goal
    <2>1. CASE OpenWrite(p)
      <3>1. PICK F : Goto(p, [req[p] EXCEPT !.at = "backfill", !.fill = F])
        BY <1>5, <2>1 DEF OpenWrite, Fail
      <3>2. req'[p] = [req[p] EXCEPT !.at = "backfill", !.fill = F]
        BY <1>0, <3>1 DEF Goto
      <3> QED BY <1>0, <3>2 DEF TxPoint, RequestRow
    <2>2. CASE RevealRead(p)
      <3>1. Goto(p, [req[p] EXCEPT !.at = "assign", !.todo = Regs,
                           !.plan = Assignments(req[p].seats)])
        BY <1>5, <2>2 DEF RevealRead, Fail
      <3>2. req'[p] = [req[p] EXCEPT !.at = "assign", !.todo = Regs,
                           !.plan = Assignments(req[p].seats)]
        BY <1>0, <3>1 DEF Goto
      <3> QED BY <1>0, <3>2 DEF TxPoint, RequestRow
    <2> QED BY <1>5, <2>1, <2>2
  <1>6. ASSUME RemoveDelete(p) \/ PickWrite(p) \/ PickRecheck(p), ~End(p) PROVE Goal
    <2>1. CASE RemoveDelete(p)
      <3>1. PICK T : Goto(p, [req[p] EXCEPT !.at = "unpick", !.todo = T])
        BY <1>6, <2>1 DEF RemoveDelete, Fail
      <3>2. req'[p] = [req[p] EXCEPT !.at = "unpick", !.todo = T]
        BY <1>0, <3>1 DEF Goto
      <3> QED BY <1>0, <3>2 DEF TxPoint, RequestRow
    <2>2. CASE PickWrite(p)
      <3>1. req'[p] = [req[p] EXCEPT !.at = "recheck"]
        BY <1>0, <1>6, <2>2 DEF PickWrite, Fail, Goto
      <3> QED BY <1>0, <3>1 DEF TxPoint, RequestRow
    <2>3. CASE PickRecheck(p)
      <3>1. req'[p] = [req[p] EXCEPT !.at = "save"]
        BY <1>0, <1>6, <2>3 DEF PickRecheck, Fail, Goto
      <3> QED BY <1>0, <3>1 DEF TxPoint, RequestRow
    <2> QED BY <1>6, <2>1, <2>2, <2>3
  <1>7. ASSUME RemoveUnpick(p) \/ RevealAssign(p) \/ ResetWipe(p), ~End(p) PROVE Goal
    <2>1. req[p].at \in TxPoint
      BY <1>7 DEF RemoveUnpick, RevealAssign, ResetWipe, TxPoint
    <2>2. PICK i : Goto(p, [req[p] EXCEPT !.todo = @ \ {i}])
      BY <1>7 DEF RemoveUnpick, RevealAssign, ResetWipe, Fail
    <2>3. req'[p] = [req[p] EXCEPT !.todo = @ \ {i}]
      BY <1>0, <2>2 DEF Goto
    <2> QED BY <1>0, <2>1, <2>3 DEF RequestRow
  <1>8. CASE OpenCommit(p) \/ CloseWrite(p) \/ Reply(p) \/ RemoveCommit(p)
             \/ PickCommit(p) \/ RevealCommit(p) \/ ResetCommit(p) \/ Abort(p)
    BY <1>1, <1>8 DEF OpenCommit, CloseWrite, Reply, RemoveCommit, PickCommit,
       RevealCommit, ResetCommit, Abort, Fail
  <1> QED
    BY <1>1, <1>2, <1>3, <1>4, <1>5, <1>6, <1>7, <1>8 DEF Step

LEMMA InitLocks == Init => LocksOwned
  BY DEF Init, LocksOwned

LEMMA NextLocks == TypeOK /\ LocksOwned /\ [Next]_vars => LocksOwned'
  <1> SUFFICES ASSUME TypeOK, LocksOwned, [Next]_vars,
                      NEW x \in Row, lock'[x] # Free
               PROVE  req'[lock'[x]].at \in TxPoint
    BY DEF LocksOwned
  <1>1. ASSUME NEW p \in Req, Handler(p) \/ Step(p) \/ Abort(p)
        PROVE  req'[lock'[x]].at \in TxPoint
    <2>1. Moves(p)
      BY <1>1, StepMoves
    <2>2. lock[x] \in Req \cup {Free}
      BY DEF TypeOK
    <2>3. CASE lock'[x] = p
      BY <1>1, <2>2, <2>3, StepInTx, NullAssumption DEF LocksOwned
    <2>4. CASE lock'[x] # p
      <3>1. lock'[x] = lock[x] /\ lock[x] \in Req \ {p}
        BY <2>1, <2>2, <2>4 DEF Moves
      <3> QED BY <2>1, <3>1 DEF Moves, LocksOwned
    <2> QED BY <2>3, <2>4
  <1>2. CASE UNCHANGED <<lock, req>>
    BY <1>2 DEF LocksOwned
  <1>3. CASE Environment
    BY <1>2, <1>3 DEF Environment, EditSeat, StartGame, EndGame, DeleteGame, UnchangedByGame
  <1> QED BY <1>1, <1>2, <1>3 DEF Next, vars

\* No row stays locked when the transaction that locked it is over: every error
\* path of every handler rolls back.
THEOREM LocksAreOwned == Spec => []LocksOwned
  BY InitLocks, NextLocks, TypeCorrect, PTL DEF Spec

-----------------------------------------------------------------------------
(***************************************************************************)
(* Secrets.                                                                *)
(***************************************************************************)

\* Every secret that was told, or is on its way to the phone it is for.
Told == held \cup {[reg |-> req[p].reg, secret |-> req[p].secret] :
                     p \in {q \in Req : req[q].at = "reply"}}

\* HeldSecretsWork is not inductive: the secret on its way must work as well,
\* and a row that can still be claimed must have a secret nobody was told.
SecretsWork ==
    /\ \A i \in Regs : regs[i].shared <=> regs[i].secret = Discarded
    /\ \A h \in Told : /\ h.secret # Discarded
                       /\ h.reg <= lastId
                       /\ h.reg \in Regs => regs[h.reg].secret = h.secret

\* The secrets of the rows stay, and new rows have new ids.
SecretsKept ==
    /\ lastId' \in Nat /\ lastId <= lastId'
    /\ \A i \in Regs' :
          \/ /\ i \in Regs
             /\ regs'[i].shared = regs[i].shared /\ regs'[i].secret = regs[i].secret
          \/ i > lastId /\ (regs'[i].shared <=> regs'[i].secret = Discarded)

\* No secret is told or handed out.
NoneTold ==
    /\ held' \subseteq Told
    /\ \A o \in Req : req'[o].at = "reply" => req'[o] = req[o]

LEMMA KeptSecretsWork ==
    ASSUME TypeOK, SecretsWork, SecretsKept, NoneTold
    PROVE  SecretsWork'
  <1>1. Told' \subseteq Told
    BY DEF NoneTold, Told
  <1>2. lastId \in Nat /\ \A h \in Told : h.reg \in Nat
    BY BoundAssumption DEF Told, TypeOK, Request, RequestRow, Row, RegId
  <1>3. ASSUME NEW i \in Regs' PROVE (regs[i].shared <=> regs[i].secret = Discarded)'
    BY <1>3 DEF SecretsKept, SecretsWork, Discarded
  <1>4. ASSUME NEW h \in Told
        PROVE  /\ h.secret # Discarded
               /\ h.reg <= lastId'
               /\ h.reg \in Regs' => regs'[h.reg].secret = h.secret
    BY <1>2, <1>4 DEF SecretsKept, SecretsWork
  <1> QED BY <1>1, <1>3, <1>4 DEF SecretsWork, Discarded

\* Where a handler stands when it has read the game.
FirstPoint == {"open", "close", "count", "lookup", "remove", "target", "reveal", "reset"}

LEMMA HandlerBegins ==
    ASSUME NEW p \in Req, Handler(p)
    PROVE  \E q : Begin(p, q) /\ q.at \in FirstPoint
  <1>0. Idle \in RequestRow
    BY IdleTyped DEF Request
  <1>1. CASE BeginOpen(p)
    <2> DEFINE q == [Idle EXCEPT !.at = "open", !.seats = game.seats, !.code = game.code]
    <2>1. Begin(p, q)
      BY <1>1 DEF BeginOpen
    <2>2. q.at = "open"
      BY <1>0 DEF RequestRow
    <2> HIDE DEF q
    <2> QED BY <2>1, <2>2 DEF FirstPoint
  <1>2. CASE BeginClose(p)
    <2> DEFINE q == [Idle EXCEPT !.at = "close"]
    <2>1. Begin(p, q)
      BY <1>2 DEF BeginClose
    <2>2. q.at = "close"
      BY <1>0 DEF RequestRow
    <2> HIDE DEF q
    <2> QED BY <2>1, <2>2 DEF FirstPoint
  <1>3. CASE BeginAdd(p)
    <2> DEFINE q(n) == [Idle EXCEPT !.at = "count", !.name = n, !.shared = TRUE]
    <2>1. PICK n \in Name : Begin(p, q(n))
      BY <1>3 DEF BeginAdd
    <2>2. q(n).at = "count"
      BY <1>0 DEF RequestRow
    <2> HIDE DEF q
    <2> QED BY <2>1, <2>2 DEF FirstPoint
  <1>4. CASE BeginJoin(p)
    <2> DEFINE q(n) == [Idle EXCEPT !.at = "lookup", !.name = n]
    <2>1. PICK n \in Name : Begin(p, q(n))
      BY <1>4 DEF BeginJoin
    <2>2. q(n).at = "lookup"
      BY <1>0 DEF RequestRow
    <2> HIDE DEF q
    <2> QED BY <2>1, <2>2 DEF FirstPoint
  <1>5. CASE BeginJoinShared(p)
    <2> DEFINE q(n) == [Idle EXCEPT !.at = "count", !.name = n, !.shared = TRUE]
    <2>1. PICK n \in Name : Begin(p, q(n))
      BY <1>5 DEF BeginJoinShared
    <2>2. q(n).at = "count"
      BY <1>0 DEF RequestRow
    <2> HIDE DEF q
    <2> QED BY <2>1, <2>2 DEF FirstPoint
  <1>6. CASE BeginRemove(p)
    <2> DEFINE q(i) == [Idle EXCEPT !.at = "remove", !.reg = i]
    <2>1. PICK i \in Regs : Begin(p, q(i))
      BY <1>6 DEF BeginRemove
    <2>2. q(i).at = "remove"
      BY <1>0 DEF RequestRow
    <2> HIDE DEF q
    <2> QED BY <2>1, <2>2 DEF FirstPoint
  <1>7. CASE BeginPick(p)
    <2> DEFINE q(h) == [Idle EXCEPT !.at = "target", !.reg = h.reg]
    <2>1. PICK h \in held : Begin(p, q(h))
      BY <1>7 DEF BeginPick
    <2>2. q(h).at = "target"
      BY <1>0 DEF RequestRow
    <2> HIDE DEF q
    <2> QED BY <2>1, <2>2 DEF FirstPoint
  <1>8. CASE BeginReveal(p)
    <2> DEFINE q == [Idle EXCEPT !.at = "reveal", !.seats = game.seats]
    <2>1. Begin(p, q)
      BY <1>8 DEF BeginReveal
    <2>2. q.at = "reveal"
      BY <1>0 DEF RequestRow
    <2> HIDE DEF q
    <2> QED BY <2>1, <2>2 DEF FirstPoint
  <1>9. CASE BeginReset(p)
    <2> DEFINE q == [Idle EXCEPT !.at = "reset"]
    <2>1. Begin(p, q)
      BY <1>9 DEF BeginReset
    <2>2. q.at = "reset"
      BY <1>0 DEF RequestRow
    <2> HIDE DEF q
    <2> QED BY <2>1, <2>2 DEF FirstPoint
  <1> QED BY <1>1, <1>2, <1>3, <1>4, <1>5, <1>6, <1>7, <1>8, <1>9 DEF Handler

\* Steps that only read, and commits, tell nobody a secret.
LEMMA StepTellsNone ==
    ASSUME TypeOK, NEW p \in Req, Handler(p) \/ Step(p) \/ Abort(p),
           ~End(p), ~Claim(p), ~Insert(p)
    PROVE  NoneTold /\ UNCHANGED <<db, held>>
  <1>0. /\ req[p] \in RequestRow
        /\ \A q : req' = [req EXCEPT ![p] = q] => req'[p] = q
        /\ Idle.at = "idle"
    BY DEF TypeOK, Request, Idle
  <1>1. ASSUME req'[p].at # "reply", UNCHANGED held PROVE NoneTold
    BY <1>1, StepMoves DEF Moves, NoneTold, Told
  <1>2. CASE Handler(p)
    <2>1. PICK q : Begin(p, q) /\ q.at \in FirstPoint
      BY <1>2, HandlerBegins
    <2> QED BY <1>0, <1>1, <2>1 DEF Begin, FirstPoint
  <1>3. ASSUME NEW q, Goto(p, q), q.at # "reply"
        PROVE  NoneTold /\ UNCHANGED <<db, held>>
    BY <1>0, <1>1, <1>3 DEF Goto
  <1>4. CASE JoinLookup(p) \/ CountRegs(p)
    <2>1. \/ Goto(p, [req[p] EXCEPT !.at = "count"])
          \/ Goto(p, [req[p] EXCEPT !.at = "insert"])
          \/ \E i \in Regs : Goto(p, [req[p] EXCEPT !.at = "claim", !.reg = i])
      BY <1>4 DEF JoinLookup, CountRegs, Fail
    <2> QED BY <1>0, <1>3, <2>1 DEF RequestRow
  <1>5. CASE OpenWrite(p) \/ RevealRead(p)
    <2>1. \/ \E F : Goto(p, [req[p] EXCEPT !.at = "backfill", !.fill = F])
          \/ Goto(p, [req[p] EXCEPT !.at = "assign", !.todo = Regs,
                            !.plan = Assignments(req[p].seats)])
      BY <1>5 DEF OpenWrite, RevealRead, Fail
    <2> QED BY <1>0, <1>3, <2>1 DEF RequestRow
  <1>6. CASE RemoveDelete(p) \/ PickTarget(p) \/ PickWrite(p) \/ PickRecheck(p)
    <2>1. \/ \E T : Goto(p, [req[p] EXCEPT !.at = "unpick", !.todo = T])
          \/ \E t : Goto(p, [req[p] EXCEPT !.at = "pick", !.pick = t])
          \/ Goto(p, [req[p] EXCEPT !.at = "recheck"])
          \/ Goto(p, [req[p] EXCEPT !.at = "save"])
      BY <1>6 DEF RemoveDelete, PickTarget, PickWrite, PickRecheck, Fail
    <2> QED BY <1>0, <1>3, <2>1 DEF RequestRow
  <1>7. CASE RemoveUnpick(p) \/ RevealAssign(p) \/ ResetWipe(p)
    <2>1. /\ req[p].at \in {"unpick", "assign", "wipe"}
          /\ \E i : Goto(p, [req[p] EXCEPT !.todo = @ \ {i}])
      BY <1>7 DEF RemoveUnpick, RevealAssign, ResetWipe, Fail
    <2> QED BY <1>0, <1>3, <2>1 DEF RequestRow
  <1>8. CASE ResetRead(p)
    <2>1. Goto(p, [req[p] EXCEPT !.at = "wipe", !.todo = Regs])
      BY <1>8 DEF ResetRead
    <2> QED BY <1>0, <1>3, <2>1 DEF RequestRow
  <1>9. CASE OpenCommit(p) \/ CloseWrite(p) \/ Reply(p) \/ RemoveCommit(p)
             \/ PickCommit(p) \/ RevealCommit(p) \/ ResetCommit(p) \/ Abort(p)
    BY <1>9 DEF OpenCommit, CloseWrite, Reply, RemoveCommit, PickCommit,
       RevealCommit, ResetCommit, Abort, Fail
  <1> QED BY <1>2, <1>4, <1>5, <1>6, <1>7, <1>8, <1>9 DEF Step

\* Rows that stay as they are keep their secrets.
LEMMA UntouchedSecrets ==
    ASSUME TypeOK, UNCHANGED lastId, Regs' \subseteq Regs,
           \A i \in Regs' : /\ regs'[i].shared = regs[i].shared
                            /\ regs'[i].secret = regs[i].secret
    PROVE  SecretsKept
  BY DEF SecretsKept, TypeOK, Row

LEMMA CommitKeepsSecrets ==
    ASSUME TypeOK, NEW p \in Req, Step(p) \/ Abort(p), End(p), ~Insert(p), ~Claim(p)
    PROVE  SecretsKept /\ NoneTold
  <1>0. /\ \A o \in Req : req'[o].at = "reply" => req'[o] = req[o]
        /\ \A i \in Regs : regs[i] \in Registration
    BY EndMoves DEF Moves, Idle, TypeOK
  <1>1. CASE Fail(p)
    BY <1>0, <1>1, UntouchedSecrets DEF Fail, db, NoneTold, Told, Regs
  <1>2. CASE CloseWrite(p) /\ ~Fail(p)
    BY <1>0, <1>2, UntouchedSecrets DEF CloseWrite, NoneTold, Told, Regs
  <1>3. CASE Reply(p)
    BY <1>0, <1>3, UntouchedSecrets DEF Reply, db, NoneTold, Told, Regs
  <1>4. CASE RemoveCommit(p)
    BY <1>0, <1>4, UntouchedSecrets DEF RemoveCommit, NoneTold, Told, Regs, Registration
  <1>5. CASE PickCommit(p)
    BY <1>0, <1>5, UntouchedSecrets DEF PickCommit, NoneTold, Told, Regs, Registration
  <1>6. CASE RevealCommit(p)
    BY <1>0, <1>6, UntouchedSecrets DEF RevealCommit, NoneTold, Told, Regs, Registration
  <1>7. CASE ResetCommit(p) /\ ~Fail(p)
    BY <1>0, <1>7, UntouchedSecrets DEF ResetCommit, NoneTold, Told, Regs, Registration
  <1>8. CASE OpenCommit(p) /\ ~Fail(p)
    <2> DEFINE F == req[p].fill
    <2>1. PICK last \in lastId..MaxId : \E id \in [F -> (lastId + 1)..last] :
            /\ regs' = [i \in Regs \cup {id[n] : n \in F} |->
                           IF i \in Regs THEN regs[i]
                           ELSE NewRow(CHOOSE n \in F : id[n] = i, TRUE)]
            /\ lastId' = last
      BY <1>8 DEF OpenCommit
    <2>2. PICK id \in [F -> (lastId + 1)..last] :
            /\ regs' = [i \in Regs \cup {id[n] : n \in F} |->
                           IF i \in Regs THEN regs[i]
                           ELSE NewRow(CHOOSE n \in F : id[n] = i, TRUE)]
            /\ lastId' = last
      BY <2>1
    <2>3. lastId \in Nat /\ lastId' \in Nat /\ lastId <= lastId'
      BY <2>1, BoundAssumption DEF TypeOK, Row
    <2>4. ASSUME NEW i \in Regs', i \notin Regs
          PROVE  i > lastId /\ regs'[i].shared /\ regs'[i].secret = Discarded
      <3> HIDE DEF F
      <3>1. i > lastId
        BY <2>2, <2>3, <2>4 DEF Regs
      <3>2. regs'[i] = NewRow(CHOOSE n \in F : id[n] = i, TRUE)
        BY <2>2, <2>4 DEF Regs
      <3> QED BY <3>1, <3>2 DEF NewRow
    <2>5. \A i \in Regs : i \in Regs' => regs'[i] = regs[i]
      <3> HIDE DEF F
      <3> QED BY <2>2 DEF Regs
    <2>6. SecretsKept
      BY <2>3, <2>4, <2>5 DEF SecretsKept
    <2> QED BY <1>0, <1>8, <2>6 DEF OpenCommit, NoneTold, Told
  <1>9. \/ Fail(p) \/ CloseWrite(p) \/ Reply(p) \/ RemoveCommit(p) \/ PickCommit(p)
        \/ RevealCommit(p) \/ ResetCommit(p) \/ OpenCommit(p)
    <2>1. ASSUME NEW q, Goto(p, q) PROVE UNCHANGED <<db, held, dealt>>
      BY <2>1 DEF Goto
    <2> QED
      BY <2>1 DEF Step, Abort, Fail, OpenWrite, JoinLookup, CountRegs, RemoveDelete,
         RemoveUnpick, PickTarget, PickWrite, PickRecheck, RevealRead, RevealAssign,
         ResetRead, ResetWipe
  <1> QED BY <1>1, <1>2, <1>3, <1>4, <1>5, <1>6, <1>7, <1>8, <1>9

\* A claim gives a secret to a row of which nobody was told one.
LEMMA ClaimSecrets ==
    ASSUME TypeOK, SecretsWork, NEW p \in Req, Claim(p), ~Fail(p)
    PROVE  SecretsWork'
  <1> DEFINE i == req[p].reg
             s == regs[i].secret + 1
             told == [reg |-> i, secret |-> s]
  <1>1. /\ i \in Regs /\ regs[i].shared
        /\ regs' = [regs EXCEPT ![i].shared = FALSE, ![i].secret = @ + 1]
        /\ req' = [req EXCEPT ![p].at = "reply", ![p].secret = s]
        /\ UNCHANGED <<lastId, held>>
    BY DEF Claim
  <1>2. /\ req[p] \in RequestRow /\ lastId \in Nat /\ Regs \subseteq 1..lastId
        /\ \A j \in Regs : regs[j] \in Registration
    BY DEF TypeOK, Request, Row
  <1>3. regs[i].secret = 0
    BY <1>1 DEF SecretsWork, Discarded
  <1>4. req'[p].reg = i /\ req'[p].secret = s
    BY <1>1, <1>2 DEF TypeOK, RequestRow
  <1>5. \A o \in Req \ {p} : req'[o] = req[o]
    BY <1>1 DEF TypeOK
  <1>6. Told' \subseteq Told \cup {told}
    BY <1>1, <1>4, <1>5 DEF Told
  <1>7. /\ Regs' = Regs
        /\ ~regs'[i].shared /\ regs'[i].secret = 1 /\ s = 1
        /\ \A j \in Regs \ {i} : regs'[j] = regs[j]
    <2>1. Regs' = Regs /\ \A j \in Regs \ {i} : regs'[j] = regs[j]
      BY <1>1 DEF Regs
    <2>2. regs'[i].shared = FALSE /\ regs'[i].secret = regs[i].secret + 1
      BY <1>1, <1>2 DEF Regs, Registration
    <2> QED BY <1>3, <2>1, <2>2
  <1>8. \A h \in Told : h.reg # i
    BY <1>1, <1>3 DEF SecretsWork, Discarded
  <1>9. \A j \in Regs' : (regs[j].shared <=> regs[j].secret = Discarded)'
    BY <1>7 DEF SecretsWork, Discarded
  <1>10. ASSUME NEW h \in Told'
         PROVE  /\ h.secret # Discarded
                /\ h.reg <= lastId'
                /\ h.reg \in Regs' => regs'[h.reg].secret = h.secret
    <2>1. CASE h \in Told
      <3>1. h.reg # i /\ UNCHANGED lastId /\ Regs' = Regs
        BY <1>1, <1>7, <1>8, <2>1
      <3>2. h.reg \in Regs => regs'[h.reg] = regs[h.reg]
        BY <1>7, <3>1
      <3> HIDE DEF i, s, told
      <3> QED BY <2>1, <3>1, <3>2 DEF SecretsWork
    <2>2. CASE h = told
      <3>1. h.reg = i /\ h.secret = 1
        BY <1>7, <2>2
      <3>2. i \in Regs /\ i <= lastId'
        BY <1>1, <1>2
      <3> HIDE DEF i, s, told
      <3> QED BY <1>7, <3>1, <3>2 DEF Discarded
    <2> QED BY <1>6, <2>1, <2>2
  <1> QED BY <1>9, <1>10 DEF SecretsWork, Discarded

\* A new row has an id no secret was ever told for.
LEMMA InsertSecrets ==
    ASSUME TypeOK, SecretsWork, NEW p \in Req, Insert(p), ~Fail(p)
    PROVE  SecretsWork'
  <1> DEFINE i == lastId + 1
             row == NewRow(req[p].name, req[p].shared)
             told == [reg |-> i, secret |-> 1]
  <1>1. /\ regs' = [j \in Regs \cup {i} |-> IF j = i THEN row ELSE regs[j]]
        /\ lastId' = i /\ UNCHANGED held
    BY DEF Insert
  <1>2. /\ req[p] \in RequestRow /\ req[p].shared \in BOOLEAN
        /\ lastId \in Nat /\ i \in Nat /\ i > lastId
        /\ Regs \subseteq 1..lastId
        /\ \A h \in Told : h.reg \in Nat
    BY BoundAssumption DEF TypeOK, Request, RequestRow, Row, Told, RegId
  <1>3. /\ Regs' = Regs \cup {i} /\ regs'[i] = row
        /\ \A j \in Regs : regs'[j] = regs[j]
    BY <1>1, <1>2 DEF Regs
  <1>4. row.shared = req[p].shared /\ row.secret = IF req[p].shared THEN 0 ELSE 1
    BY DEF NewRow, Discarded
  <1>5. /\ req[p].shared => Told' \subseteq Told
        /\ ~req[p].shared => Told' \subseteq Told \cup {told}
    <2>1. CASE End(p) /\ req[p].shared
      BY <1>1, <2>1, EndMoves DEF Moves, Told, Idle
    <2>2. CASE /\ ~req[p].shared
               /\ req' = [req EXCEPT ![p].at = "reply", ![p].reg = i, ![p].secret = 1]
      <3>1. req'[p].reg = i /\ req'[p].secret = 1
        BY <1>2, <2>2 DEF TypeOK, RequestRow
      <3>2. \A o \in Req \ {p} : req'[o] = req[o]
        BY <2>2 DEF TypeOK
      <3> QED BY <1>1, <2>2, <3>1, <3>2 DEF Told
    <2> QED BY <2>1, <2>2 DEF Insert
  <1>6. \A j \in Regs' : (regs[j].shared <=> regs[j].secret = Discarded)'
    BY <1>2, <1>3, <1>4 DEF SecretsWork, Discarded
  <1>7. ASSUME NEW h \in Told'
        PROVE  /\ h.secret # Discarded
               /\ h.reg <= lastId'
               /\ h.reg \in Regs' => regs'[h.reg].secret = h.secret
    <2>1. CASE h \in Told
      BY <1>1, <1>2, <1>3, <2>1 DEF SecretsWork
    <2>2. CASE h = told /\ ~req[p].shared
      BY <1>1, <1>2, <1>3, <1>4, <2>2 DEF Discarded
    <2> QED BY <1>2, <1>5, <2>1, <2>2
  <1> QED BY <1>6, <1>7 DEF SecretsWork, Discarded

LEMMA InitSecrets == Init => SecretsWork
  BY DEF Init, SecretsWork, Told, Idle, Regs

LEMMA NextSecrets == TypeOK /\ SecretsWork /\ [Next]_vars => SecretsWork'
  <1> SUFFICES ASSUME TypeOK, SecretsWork, [Next]_vars PROVE SecretsWork'
    OBVIOUS
  <1>1. ASSUME NEW p \in Req, Handler(p) \/ Step(p) \/ Abort(p) PROVE SecretsWork'
    <2>1. CASE Claim(p) /\ ~Fail(p)
      BY <2>1, ClaimSecrets
    <2>2. CASE Insert(p) /\ ~Fail(p)
      BY <2>2, InsertSecrets
    <2>3. CASE Fail(p)
      BY <2>3, KeptSecretsWork, UntouchedSecrets, EndMoves
         DEF Fail, db, Regs, NoneTold, Told, Moves, Idle
    <2>4. CASE End(p) /\ ~Claim(p) /\ ~Insert(p) /\ ~Handler(p)
      BY <1>1, <2>4, CommitKeepsSecrets, KeptSecretsWork
    <2>5. CASE ~End(p) /\ ~Claim(p) /\ ~Insert(p)
      BY <1>1, <2>5, StepTellsNone, KeptSecretsWork, UntouchedSecrets DEF db, Regs
    <2>6. CASE Handler(p)
      <3>1. PICK q : Begin(p, q) /\ q.at \in FirstPoint
        BY <2>6, HandlerBegins
      <3>2. /\ req' = [req EXCEPT ![p] = q] /\ q.at # "reply"
            /\ UNCHANGED <<db, held>>
        BY <3>1 DEF Begin, FirstPoint
      <3>3. NoneTold
        BY <3>2 DEF NoneTold, Told, TypeOK
      <3> QED BY <3>2, <3>3, KeptSecretsWork, UntouchedSecrets DEF db, Regs
    <2> QED BY <2>1, <2>2, <2>3, <2>4, <2>5, <2>6
  <1>2. CASE Environment
    <2>1. UNCHANGED <<req, held, lastId>>
      BY <1>2 DEF Environment, EditSeat, StartGame, EndGame, DeleteGame, UnchangedByGame
    <2>2. UNCHANGED regs \/ Regs' = {}
      BY <1>2 DEF Environment, EditSeat, StartGame, EndGame, DeleteGame, Regs
    <2>3. NoneTold
      BY <2>1 DEF NoneTold, Told
    <2>4. SecretsKept
      BY <2>1, <2>2, UntouchedSecrets DEF Regs
    <2> QED BY <2>3, <2>4, KeptSecretsWork
  <1>3. CASE UNCHANGED vars
    BY <1>3 DEF vars, SecretsWork, Told, Regs
  <1> QED BY <1>1, <1>2, <1>3 DEF Next

\* A secret a phone was told works for as long as its registration exists,
\* however the claims, removals, backfills and deletions run beside each other.
THEOREM SecretsKeepWorking == Spec => []HeldSecretsWork
  <1>1. SecretsWork => HeldSecretsWork
    BY DEF SecretsWork, HeldSecretsWork, Told
  <1> QED BY <1>1, InitSecrets, NextSecrets, TypeCorrect, PTL DEF Spec

\* A registration is one phone's.  The phone that is being told its secret is the
\* only one, and no phone was told it before: of all that join under a name or
\* claim it at the same time, one gets in and the others learn that it is taken.
Replying == {p \in Req : req[p].at = "reply"}

OnePhoneEach ==
    /\ \A p, q \in Replying : req[p].reg = req[q].reg => p = q
    /\ \A p \in Replying, h \in held : h.reg # req[p].reg
    /\ \A g, h \in held : g.reg = h.reg => g = h

\* A request that is told a secret is the first one to be told of its row.
LEMMA FirstTold ==
    ASSUME TypeOK, SecretsWork, OnePhoneEach, NEW p \in Req, Moves(p), UNCHANGED held,
           \/ req'[p].at # "reply" \/ req'[p] = req[p]
           \/ \A h \in Told : h.reg # req'[p].reg
    PROVE  OnePhoneEach'
  <1>1. \A o \in Req \ {p} : req'[o] = req[o]
    BY DEF Moves
  <1>2. ASSUME NEW o \in Replying PROVE \E h \in Told : h.reg = req[o].reg
    <2>1. [reg |-> req[o].reg, secret |-> req[o].secret] \in Told
      BY <1>2 DEF Replying, Told
    <2> QED BY <2>1
  <1>3. CASE req'[p].at # "reply" \/ req'[p] = req[p]
    BY <1>1, <1>3 DEF OnePhoneEach, Replying
  <1>4. CASE \A h \in Told : h.reg # req'[p].reg
    <2>1. \A o \in Replying : req[o].reg # req'[p].reg
      BY <1>2, <1>4
    <2>2. \A h \in held : h.reg # req'[p].reg
      BY <1>4 DEF Told
    <2> QED BY <1>1, <2>1, <2>2 DEF OnePhoneEach, Replying
  <1> QED BY <1>3, <1>4

LEMMA StepTellsOne ==
    ASSUME TypeOK, SecretsWork, OnePhoneEach, NEW p \in Req, Handler(p) \/ Step(p) \/ Abort(p)
    PROVE  OnePhoneEach'
  <1>0. /\ Moves(p) /\ req[p] \in RequestRow /\ lastId \in Nat
        /\ End(p) => req'[p].at = "idle"
    BY StepMoves, EndMoves DEF TypeOK, Request, Row, Idle
  <1>1. CASE Claim(p) /\ ~Fail(p)
    <2> DEFINE i == req[p].reg
    <2>1. /\ i \in Regs /\ regs[i].shared /\ UNCHANGED held
          /\ \E s : req' = [req EXCEPT ![p].at = "reply", ![p].secret = s]
      BY <1>1 DEF Claim
    <2>2. req'[p].reg = i
      BY <1>0, <2>1 DEF TypeOK, RequestRow
    <2>3. \A h \in Told : h.reg # i
      BY <2>1 DEF SecretsWork
    <2> QED BY <1>0, <2>1, <2>2, <2>3, FirstTold
  <1>2. CASE Insert(p) /\ ~Fail(p) /\ ~End(p)
    <2>1. /\ UNCHANGED held
          /\ req' = [req EXCEPT ![p].at = "reply", ![p].reg = lastId + 1, ![p].secret = 1]
      BY <1>2 DEF Insert
    <2>2. req'[p].reg = lastId + 1
      BY <1>0, <2>1 DEF TypeOK, RequestRow
    <2>3. ASSUME NEW h \in Told PROVE h.reg # lastId + 1
      <3>1. h.reg \in Nat /\ h.reg <= lastId
        BY BoundAssumption DEF SecretsWork, Told, TypeOK, Request, RequestRow, Row, RegId
      <3> QED BY <1>0, <3>1
    <2> QED BY <1>0, <2>1, <2>2, <2>3, FirstTold
  <1>3. CASE End(p) /\ UNCHANGED held
    BY <1>0, <1>3, FirstTold
  <1>4. CASE Reply(p)
    <2>1. /\ p \in Replying /\ req'[p].at = "idle"
          /\ held' = held \cup {[reg |-> req[p].reg, secret |-> req[p].secret]}
      BY <1>0, <1>4 DEF Reply, Replying
    <2>2. Replying' = Replying \ {p} /\ \A o \in Replying' : req'[o] = req[o]
      BY <1>0, <2>1 DEF Replying, Moves
    <2> QED BY <2>1, <2>2 DEF OnePhoneEach
  <1>5. CASE ~End(p) /\ ~Claim(p) /\ ~Insert(p)
    BY <1>0, <1>5, StepTellsNone, FirstTold DEF NoneTold
  <1>6. End(p) => UNCHANGED held \/ Reply(p)
    <2>1. CASE Handler(p)
      <3>1. UNCHANGED held
        BY <2>1, HandlerBegins DEF Begin
      <3> QED BY <3>1
    <2>2. CASE Abort(p)
      BY <2>2 DEF Abort, Fail
    <2>3. CASE Step(p)
      <3>1. ASSUME NEW q, Goto(p, q) PROVE UNCHANGED held
        BY <3>1 DEF Goto
      <3> QED
        BY <2>3, <3>1 DEF Step, OpenWrite, OpenCommit, CloseWrite, JoinLookup, Claim, CountRegs,
           Insert, RemoveDelete, RemoveUnpick, RemoveCommit, PickTarget, PickWrite,
           PickRecheck, PickCommit, RevealRead, RevealAssign, RevealCommit, ResetRead,
           ResetWipe, ResetCommit, Fail
    <2> QED BY <2>1, <2>2, <2>3
  <1>7. Fail(p) => End(p)
    BY DEF Fail
  <1> QED BY <1>1, <1>2, <1>3, <1>4, <1>5, <1>6, <1>7

LEMMA InitOnePhone == Init => OnePhoneEach
  BY DEF Init, OnePhoneEach, Replying, Idle

LEMMA NextOnePhone == TypeOK /\ SecretsWork /\ OnePhoneEach /\ [Next]_vars => OnePhoneEach'
  <1> SUFFICES ASSUME TypeOK, SecretsWork, OnePhoneEach, [Next]_vars PROVE OnePhoneEach'
    OBVIOUS
  <1>1. CASE UNCHANGED <<req, held>>
    BY <1>1 DEF OnePhoneEach, Replying
  <1>2. CASE Environment
    BY <1>1, <1>2 DEF Environment, EditSeat, StartGame, EndGame, DeleteGame, UnchangedByGame
  <1> QED BY <1>1, <1>2, StepTellsOne DEF Next, vars

\* No two phones are ever told that a registration is theirs.
THEOREM OneRegistrationOnePhone == Spec => []OnePhoneEach
  BY InitSecrets, NextSecrets, InitOnePhone, NextOnePhone, TypeCorrect, PTL DEF Spec

-----------------------------------------------------------------------------
(***************************************************************************)
(* Roles.                                                                  *)
(***************************************************************************)

\* Only a reveal and a reset write a role.
LEMMA RolesKept ==
    ASSUME TypeOK, NEW p \in Req, Handler(p) \/ Step(p) \/ Abort(p),
           ~RevealCommit(p), ~(ResetCommit(p) /\ ~Fail(p)), NEW i \in Regs, i \in Regs'
    PROVE  regs'[i].role = regs[i].role
  <1>0. regs[i] \in Registration
    BY DEF TypeOK
  <1>1. CASE UNCHANGED regs
    BY <1>1
  <1>2. CASE Claim(p) /\ ~Fail(p)
    <2>1. regs' = [regs EXCEPT ![req[p].reg].shared = FALSE, ![req[p].reg].secret = @ + 1]
      BY <1>2 DEF Claim
    <2> QED BY <1>0, <2>1 DEF Registration, Regs
  <1>3. CASE Insert(p) /\ ~Fail(p)
    <2>1. i # lastId + 1
      BY BoundAssumption DEF TypeOK, Row
    <2> QED BY <1>3, <2>1 DEF Insert, Regs
  <1>4. CASE OpenCommit(p) /\ ~Fail(p)
    BY <1>4 DEF OpenCommit, Regs
  <1>5. CASE RemoveCommit(p)
    BY <1>0, <1>5 DEF RemoveCommit, Registration, Regs
  <1>6. CASE PickCommit(p)
    BY <1>0, <1>6 DEF PickCommit, Registration, Regs
  <1>7. CASE End(p) /\ ~Insert(p) /\ ~Claim(p) /\ ~OpenCommit(p) /\ ~RemoveCommit(p)
             /\ ~PickCommit(p) /\ ~Handler(p)
    <2>1. ASSUME NEW q, Goto(p, q) PROVE UNCHANGED regs
      BY <2>1 DEF Goto, db
    <2>2. UNCHANGED regs
      BY <1>7, <2>1 DEF Step, Abort, Fail, db, OpenWrite, CloseWrite, JoinLookup,
         CountRegs, Reply, RemoveDelete, RemoveUnpick, PickTarget, PickWrite, PickRecheck,
         RevealRead, RevealAssign, ResetRead, ResetWipe, ResetCommit
    <2> QED BY <2>2
  <1>8. CASE ~End(p) /\ ~Insert(p) /\ ~Claim(p)
    BY <1>8, StepTellsNone DEF db
  <1>9. CASE Handler(p)
    BY <1>9, HandlerBegins DEF Begin, db
  <1> QED BY <1>1, <1>2, <1>3, <1>4, <1>5, <1>6, <1>7, <1>8, <1>9 DEF Fail, db

LEMMA StepSealsRoles == TypeOK /\ [Next]_vars => StartSealsRolesStep
  <1> SUFFICES ASSUME TypeOK, [Next]_vars, NEW i \in Regs, i \in Regs',
                      game.state # "setup", regs[i].role # NoRole
               PROVE  regs'[i].role # NoRole
    BY DEF StartSealsRolesStep, Regs
  <1>0. regs[i] \in Registration /\ i \in RegId
    BY RegsAreIds DEF TypeOK
  <1>1. ASSUME NEW p \in Req, Handler(p) \/ Step(p) \/ Abort(p)
        PROVE  regs'[i].role # NoRole
    <2>1. ~(ResetCommit(p) /\ ~Fail(p))
      BY DEF ResetCommit
    <2>2. CASE RevealCommit(p)
      <3>1. regs'[i] = IF req[p].plan[i] # NoRole
                       THEN [regs[i] EXCEPT !.role = req[p].plan[i]] ELSE regs[i]
        BY <1>0, <2>2 DEF RevealCommit, Regs
      <3> QED BY <1>0, <3>1 DEF Registration
    <2> QED BY <1>1, <2>1, <2>2, RolesKept
  <1>2. CASE Environment
    BY <1>2 DEF Environment, EditSeat, StartGame, EndGame, DeleteGame, Regs
  <1> QED BY <1>1, <1>2 DEF Next, vars

\* Once the storyteller has started the game, nobody loses a role on the record.
THEOREM StartSeals == Spec => StartSealsRoles
  <1>1. TypeOK /\ [Next]_vars => [StartSealsRolesStep]_vars
    BY StepSealsRoles
  <1> QED BY <1>1, TypeCorrect, PTL DEF Spec, StartSealsRoles

-----------------------------------------------------------------------------
(***************************************************************************)
(* Deals and picks.                                                        *)
(***************************************************************************)
NamesUnique == \A i, j \in Regs : regs[i].name = regs[j].name => i = j

\* Locks and deals are of rows that the serial has handed out.
Numbered ==
    /\ \A x \in Row : lock[x] # Free => x <= lastId
    /\ \A i \in dealt : i <= lastId

\* A reveal gives each registration it lists a role of its own, and holds the
\* locks of those it has been through.
Planned(p) ==
    LET q == req[p] IN
    q.at = "assign" =>
        \A i \in RegId : q.plan[i] # NoRole =>
            /\ i <= lastId /\ (i \in q.todo \/ lock[i] = p)
            /\ \A j \in RegId : q.plan[j] = q.plan[i] => j = i

\* A pick holds the lock of its row; when it has seen the phase for the second
\* time, no reveal can deal to that row before it is over.
Picking(p) ==
    LET q == req[p] IN
    /\ q.at \in {"recheck", "save"} => lock[q.reg] = p
    /\ q.at = "save" /\ game.phase = "revealed" => q.reg \notin dealt

\* The rows that a removal has locked still pick the row it removes.
Unpicking(p) ==
    LET q == req[p] IN
    q.at = "unpick" => \A j \in Regs \ {q.reg} : lock[j] = p => regs[j].pick = q.reg

IInv ==
    /\ TypeOK /\ LocksOwned /\ NamesUnique /\ Numbered /\ DealtHoldOneRole
    /\ \A p \in Req : Planned(p) /\ Picking(p) /\ Unpicking(p)

\* What the steps of one request leave to the others: the rows they have
\* locked, and the deal unless it locked every row it deals to.
RowsKept(p) ==
    /\ lastId \in Nat /\ lastId' \in Nat /\ lastId <= lastId'
    /\ \A i \in Regs' : i \in Regs \/ i > lastId
    /\ \A i \in Regs \cap Regs' : regs'[i].pick # regs[i].pick => lock[i] = p
    /\ game'.phase = "revealed" =>
          \/ game.phase = "revealed" /\ dealt' \subseteq dealt
          \/ \A i \in dealt' : lock[i] = p

LEMMA OthersKept ==
    ASSUME IInv, TypeOK', NEW p \in Req, Moves(p), RowsKept(p), NEW o \in Req \ {p}
    PROVE  Planned(o)' /\ Picking(o)' /\ Unpicking(o)'
  <1>1. /\ req'[o] = req[o] /\ req[o] \in Request /\ RegId \subseteq Row
        /\ \A x \in Row : lock[x] = o <=> lock'[x] = o
    BY NullAssumption, BoundAssumption DEF Moves, IInv, TypeOK, RegId, Row
  <1>2. Planned(o)'
    <2> SUFFICES ASSUME req[o].at = "assign", NEW i \in RegId, req[o].plan[i] # NoRole
                 PROVE  /\ i <= lastId' /\ (i \in req[o].todo \/ lock'[i] = o)
                        /\ \A j \in RegId : req[o].plan[j] = req[o].plan[i] => j = i
      BY <1>1 DEF Planned
    <2>1. i \in Nat /\ i \in Row /\ lastId \in Nat /\ lastId' \in Nat /\ lastId <= lastId'
      BY <1>1 DEF RegId, RowsKept
    <2>2. /\ i <= lastId /\ (i \in req[o].todo \/ lock[i] = o)
          /\ \A j \in RegId : req[o].plan[j] = req[o].plan[i] => j = i
      BY DEF IInv, Planned
    <2> QED BY <1>1, <2>1, <2>2
  <1>3. Picking(o)'
    <2> SUFFICES ASSUME req[o].at \in {"recheck", "save"} PROVE Picking(o)'
      BY <1>1 DEF Picking
    <2>1. req[o].reg \in Row
      BY <1>1 DEF Request, RequestRow
    <2>2. lock[req[o].reg] = o /\ lock'[req[o].reg] = o
      BY <1>1, <2>1 DEF IInv, Picking
    <2>3. req[o].at = "save" /\ game'.phase = "revealed" => req[o].reg \notin dealt'
      BY <2>2 DEF IInv, Picking, RowsKept
    <2> QED BY <1>1, <2>2, <2>3 DEF Picking
  <1>4. Unpicking(o)'
    <2> SUFFICES ASSUME req[o].at = "unpick", NEW j \in Regs' \ {req[o].reg}, lock'[j] = o
                 PROVE  regs'[j].pick = req[o].reg
      BY <1>1 DEF Unpicking
    <2>1. j \in Nat /\ j \in Row /\ lastId \in Nat
      BY BoundAssumption DEF RowsKept, TypeOK, Row
    <2>2. lock[j] = o /\ lock[j] \notin {Free, p}
      BY <1>1, <2>1, NullAssumption
    <2>3. j \in Regs
      BY <2>1, <2>2 DEF IInv, Numbered, RowsKept
    <2> QED BY <2>2, <2>3 DEF IInv, Unpicking, RowsKept
  <1> QED BY <1>2, <1>3, <1>4

\* No step renames a row; only a pick and the removal of a neighbour re-pick one,
\* and new rows have new ids.
LEMMA RowsMove ==
    ASSUME TypeOK, NEW p \in Req, Handler(p) \/ Step(p) \/ Abort(p)
    PROVE  /\ lastId \in Nat /\ lastId' \in Nat /\ lastId <= lastId'
           /\ \A i \in Regs' : i \in Regs \/ i > lastId
           /\ \A i \in Regs \cap Regs' :
                 /\ regs'[i].name = regs[i].name
                 /\ \/ regs'[i].pick = regs[i].pick
                    \/ PickCommit(p) /\ i = req[p].reg
                    \/ RemoveCommit(p) /\ lock[i] = p /\ regs'[i].pick = 0
  <1> DEFINE Goal ==
             /\ lastId' \in Nat /\ lastId <= lastId'
             /\ \A i \in Regs' : i \in Regs \/ i > lastId
             /\ \A i \in Regs \cap Regs' :
                   /\ regs'[i].name = regs[i].name
                   /\ \/ regs'[i].pick = regs[i].pick
                      \/ PickCommit(p) /\ i = req[p].reg
                      \/ RemoveCommit(p) /\ lock[i] = p /\ regs'[i].pick = 0
  <1>0. lastId \in Nat /\ \A i \in Regs : regs[i] \in Registration
    BY BoundAssumption DEF TypeOK, Row
  <1>1. ASSUME UNCHANGED <<regs, lastId>> PROVE Goal
    BY <1>0, <1>1 DEF Regs
  <1>2. CASE Claim(p) /\ ~Fail(p)
    <2>1. /\ regs' = [regs EXCEPT ![req[p].reg].shared = FALSE, ![req[p].reg].secret = @ + 1]
          /\ UNCHANGED lastId
      BY <1>2 DEF Claim
    <2> QED BY <1>0, <2>1 DEF Registration, Regs
  <1>3. CASE Insert(p) /\ ~Fail(p)
    <2>1. /\ regs' = [j \in Regs \cup {lastId + 1} |->
                        IF j = lastId + 1 THEN NewRow(req[p].name, req[p].shared) ELSE regs[j]]
          /\ lastId' = lastId + 1
      BY <1>3 DEF Insert
    <2>2. lastId + 1 \notin Regs
      BY <1>0 DEF TypeOK
    <2> QED BY <1>0, <2>1, <2>2 DEF Regs
  <1>4. CASE OpenCommit(p) /\ ~Fail(p)
    <2> DEFINE F == req[p].fill
    <2>1. PICK last \in lastId..MaxId : \E id \in [F -> (lastId + 1)..last] :
            /\ regs' = [i \in Regs \cup {id[n] : n \in F} |->
                           IF i \in Regs THEN regs[i]
                           ELSE NewRow(CHOOSE n \in F : id[n] = i, TRUE)]
            /\ lastId' = last
      BY <1>4 DEF OpenCommit
    <2>2. PICK id \in [F -> (lastId + 1)..last] :
            /\ regs' = [i \in Regs \cup {id[n] : n \in F} |->
                           IF i \in Regs THEN regs[i]
                           ELSE NewRow(CHOOSE n \in F : id[n] = i, TRUE)]
            /\ lastId' = last
      BY <2>1
    <2>3. lastId' \in Nat /\ lastId <= lastId' /\ last \in Nat
      BY <1>0, <2>1, BoundAssumption
    <2> HIDE DEF F
    <2>4. \A i \in Regs' : i \in Regs \/ i > lastId
      BY <1>0, <2>2, <2>3 DEF Regs
    <2>5. \A i \in Regs \cap Regs' : regs'[i] = regs[i]
      BY <2>2 DEF Regs
    <2>6. \A i \in Regs \cap Regs' : regs'[i].name = regs[i].name /\ regs'[i].pick = regs[i].pick
      BY <2>5
    <2> QED BY <1>0, <2>3, <2>4, <2>6
  <1>5. CASE RemoveCommit(p)
    BY <1>0, <1>5 DEF RemoveCommit, Registration, Regs
  <1>6. CASE PickCommit(p)
    <2>1. /\ regs' = [regs EXCEPT ![req[p].reg].pick = req[p].pick]
          /\ UNCHANGED lastId
      BY <1>6 DEF PickCommit
    <2> QED BY <1>0, <1>6, <2>1 DEF Registration, Regs
  <1>7. CASE RevealCommit(p)
    <2>1. /\ regs' = [i \in Regs |-> IF i \in {j \in RegId : req[p].plan[j] # NoRole}
                                     THEN [regs[i] EXCEPT !.role = req[p].plan[i]] ELSE regs[i]]
          /\ UNCHANGED lastId
      BY <1>7 DEF RevealCommit
    <2> QED BY <1>0, <2>1 DEF Registration, Regs
  <1>8. CASE ResetCommit(p) /\ ~Fail(p)
    <2>1. /\ regs' = [i \in Regs |-> IF lock[i] = p
                                     THEN [regs[i] EXCEPT !.role = NoRole] ELSE regs[i]]
          /\ UNCHANGED lastId
      BY <1>8 DEF ResetCommit
    <2> QED BY <1>0, <2>1 DEF Registration, Regs
  <1>9. CASE End(p) /\ ~Insert(p) /\ ~Claim(p) /\ ~OpenCommit(p) /\ ~RemoveCommit(p)
             /\ ~PickCommit(p) /\ ~RevealCommit(p) /\ ~(ResetCommit(p) /\ ~Fail(p)) /\ ~Handler(p)
    <2>1. ASSUME NEW q, Goto(p, q) PROVE UNCHANGED <<regs, lastId>>
      BY <2>1 DEF Goto, db
    <2>2. UNCHANGED <<regs, lastId>>
      BY <1>9, <2>1 DEF Step, Abort, Fail, db, OpenWrite, CloseWrite, JoinLookup,
         CountRegs, Reply, RemoveDelete, RemoveUnpick, PickTarget, PickWrite, PickRecheck,
         RevealRead, RevealAssign, ResetRead, ResetWipe
    <2> QED BY <1>1, <2>2
  <1>10. CASE ~End(p) /\ ~Insert(p) /\ ~Claim(p)
    BY <1>1, <1>10, StepTellsNone DEF db
  <1>11. CASE Handler(p)
    BY <1>1, <1>11, HandlerBegins DEF Begin, db
  <1>12. CASE Fail(p)
    BY <1>1, <1>12 DEF Fail, db
  <1> QED
    BY <1>2, <1>3, <1>4, <1>5, <1>6, <1>7, <1>8, <1>9, <1>10, <1>11, <1>12

\* The bag becomes revealed by a reveal, and what was dealt changes by a reveal
\* and where the bag is not revealed any more.
LEMMA DealMoves ==
    ASSUME TypeOK, NEW p \in Req, Handler(p) \/ Step(p) \/ Abort(p), ~RevealCommit(p)
    PROVE  /\ dealt' \subseteq dealt
           /\ game'.phase = "revealed" => game.phase = "revealed" /\ ~(ResetCommit(p) /\ ~Fail(p))
  <1> DEFINE Goal ==
             /\ dealt' \subseteq dealt
             /\ game'.phase = "revealed" => game.phase = "revealed" /\ ~(ResetCommit(p) /\ ~Fail(p))
  <1>0. game \in Game
    BY DEF TypeOK
  <1>1. ASSUME UNCHANGED <<game, dealt>>, ~(ResetCommit(p) /\ ~Fail(p)) PROVE Goal
    BY <1>1
  <1>2. CASE OpenCommit(p) /\ ~Fail(p)
    <2>1. UNCHANGED dealt /\ \E c : game' = [game EXCEPT !.phase = "open", !.code = c]
      BY <1>2 DEF OpenCommit
    <2> QED BY <1>0, <2>1 DEF Game
  <1>3. CASE CloseWrite(p) /\ ~Fail(p)
    <2>1. UNCHANGED dealt /\ game' = [game EXCEPT !.phase = "closed"]
      BY <1>3 DEF CloseWrite
    <2> QED BY <1>0, <2>1 DEF Game
  <1>4. CASE ResetCommit(p) /\ ~Fail(p)
    <2>1. dealt' = {} /\ game' = [game EXCEPT !.phase = "closed"]
      BY <1>4 DEF ResetCommit
    <2> QED BY <1>0, <2>1 DEF Game
  <1>5. CASE Fail(p)
    BY <1>1, <1>5 DEF Fail, db
  <1>6. CASE Handler(p)
    <2>1. UNCHANGED <<game, dealt>> /\ req[p].at = "idle"
      BY <1>6, HandlerBegins DEF Begin, db
    <2> QED BY <1>1, <2>1 DEF ResetCommit
  <1>7. CASE ~Handler(p) /\ ~Fail(p) /\ ~OpenCommit(p) /\ ~CloseWrite(p) /\ ~ResetCommit(p)
    <2>1. ASSUME NEW q, Goto(p, q) PROVE UNCHANGED <<game, dealt>>
      BY <2>1 DEF Goto, db
    <2>2. UNCHANGED <<game, dealt>>
      BY <1>7, <2>1 DEF Step, Abort, db, OpenWrite, JoinLookup, Claim, Insert, PickCommit,
         RemoveCommit, CountRegs, Reply, RemoveDelete, RemoveUnpick, PickTarget, PickWrite,
         PickRecheck, RevealRead, RevealAssign, ResetRead, ResetWipe
    <2> QED BY <1>1, <1>7, <2>2
  <1> QED BY <1>2, <1>3, <1>4, <1>5, <1>6, <1>7

\* The steps by which a request comes to where its locks matter.
LEMMA Arrives ==
    ASSUME TypeOK, NEW p \in Req, Handler(p) \/ Step(p) \/ Abort(p),
           req'[p].at \in {"assign", "recheck", "save", "unpick"}
    PROVE  /\ ~End(p)
           /\ req'[p].at = "assign" => RevealRead(p) \/ RevealAssign(p)
           /\ req'[p].at = "recheck" => PickWrite(p)
           /\ req'[p].at = "save" => PickRecheck(p)
           /\ req'[p].at = "unpick" => RemoveDelete(p) \/ RemoveUnpick(p)
  <1> DEFINE at == req'[p].at
  <1>0. req[p] \in RequestRow /\ \A q : Goto(p, q) => at = q.at
    BY DEF TypeOK, Request, Goto
  <1>1. ~End(p)
    <2>1. End(p) => at = "idle"
      BY EndMoves DEF Idle
    <2> QED BY <2>1
  <1>2. ~Handler(p)
    <2>1. \A q : Begin(p, q) => at = q.at
      BY DEF Begin, TypeOK
    <2> QED BY <2>1, HandlerBegins DEF FirstPoint
  <1>3. ASSUME OpenWrite(p) PROVE FALSE
    <2>1. PICK F : Goto(p, [req[p] EXCEPT !.at = "backfill", !.fill = F])
      BY <1>1, <1>3 DEF OpenWrite, Fail
    <2>2. [req[p] EXCEPT !.at = "backfill", !.fill = F].at = "backfill"
      BY <1>0 DEF RequestRow
    <2> QED BY <1>0, <2>1, <2>2
  <1>4. ASSUME JoinLookup(p) \/ CountRegs(p) PROVE FALSE
    <2>1. \/ \E at1 \in {"count", "insert"} : Goto(p, [req[p] EXCEPT !.at = at1])
          \/ \E i : Goto(p, [req[p] EXCEPT !.at = "claim", !.reg = i])
      BY <1>1, <1>4 DEF JoinLookup, CountRegs, Fail
    <2>2. /\ \A at1 \in {"count", "insert"} : [req[p] EXCEPT !.at = at1].at = at1
          /\ \A i : [req[p] EXCEPT !.at = "claim", !.reg = i].at = "claim"
      BY <1>0 DEF RequestRow
    <2>3. at \in {"count", "insert", "claim"}
      BY <1>0, <2>1, <2>2
    <2> QED BY <2>3
  <1>5. ASSUME Claim(p) \/ Insert(p) PROVE FALSE
    <2>1. \/ req' = [req EXCEPT ![p].at = "reply", ![p].secret = regs[req[p].reg].secret + 1]
          \/ req' = [req EXCEPT ![p].at = "reply", ![p].reg = lastId + 1, ![p].secret = 1]
      BY <1>1, <1>5 DEF Claim, Insert, Fail
    <2>2. at = "reply"
      BY <1>0, <2>1 DEF TypeOK, RequestRow
    <2> QED BY <2>2
  <1>6. ASSUME PickTarget(p) PROVE FALSE
    <2>1. PICK t : Goto(p, [req[p] EXCEPT !.at = "pick", !.pick = t])
      BY <1>6 DEF PickTarget
    <2>2. [req[p] EXCEPT !.at = "pick", !.pick = t].at = "pick"
      BY <1>0 DEF RequestRow
    <2> QED BY <1>0, <2>1, <2>2
  <1>7. ASSUME ResetRead(p) \/ ResetWipe(p) PROVE FALSE
    <2>1. \/ Goto(p, [req[p] EXCEPT !.at = "wipe", !.todo = Regs])
          \/ /\ req[p].at = "wipe"
             /\ \E T : Goto(p, [req[p] EXCEPT !.todo = T])
      BY <1>7 DEF ResetRead, ResetWipe
    <2>2. /\ [req[p] EXCEPT !.at = "wipe", !.todo = Regs].at = "wipe"
          /\ \A T : [req[p] EXCEPT !.todo = T].at = req[p].at
      BY <1>0 DEF RequestRow
    <2>3. at = "wipe"
      BY <1>0, <2>1, <2>2
    <2> QED BY <2>3
  <1>8. PickWrite(p) => at = "recheck"
    <2>1. PickWrite(p) => Goto(p, [req[p] EXCEPT !.at = "recheck"])
      BY <1>1 DEF PickWrite, Fail
    <2>2. [req[p] EXCEPT !.at = "recheck"].at = "recheck"
      BY <1>0 DEF RequestRow
    <2> QED BY <1>0, <2>1, <2>2
  <1>9. PickRecheck(p) => at = "save"
    <2>1. PickRecheck(p) => Goto(p, [req[p] EXCEPT !.at = "save"])
      BY <1>1 DEF PickRecheck, Fail
    <2>2. [req[p] EXCEPT !.at = "save"].at = "save"
      BY <1>0 DEF RequestRow
    <2> QED BY <1>0, <2>1, <2>2
  <1>10. RemoveDelete(p) \/ RemoveUnpick(p) => at = "unpick"
    <2>1. RemoveDelete(p) \/ RemoveUnpick(p) =>
            \/ \E T : Goto(p, [req[p] EXCEPT !.at = "unpick", !.todo = T])
            \/ req[p].at = "unpick" /\ \E T : Goto(p, [req[p] EXCEPT !.todo = T])
      BY <1>1 DEF RemoveDelete, RemoveUnpick, Fail
    <2>2. \A T : /\ [req[p] EXCEPT !.at = "unpick", !.todo = T].at = "unpick"
                 /\ [req[p] EXCEPT !.todo = T].at = req[p].at
      BY <1>0 DEF RequestRow
    <2> QED BY <1>0, <2>1, <2>2
  <1>11. RevealRead(p) \/ RevealAssign(p) => at = "assign"
    <2>1. ASSUME RevealRead(p) PROVE at = "assign"
      <3>1. Goto(p, [req[p] EXCEPT !.at = "assign", !.todo = Regs,
                           !.plan = Assignments(req[p].seats)])
        BY <1>1, <2>1 DEF RevealRead, Fail
      <3>2. [req[p] EXCEPT !.at = "assign", !.todo = Regs,
                           !.plan = Assignments(req[p].seats)].at = "assign"
        BY <1>0 DEF RequestRow
      <3> QED BY <1>0, <3>1, <3>2
    <2>2. ASSUME RevealAssign(p) PROVE at = "assign"
      <3>1. req[p].at = "assign" /\ \E T : Goto(p, [req[p] EXCEPT !.todo = T])
        BY <1>1, <2>2 DEF RevealAssign, Fail
      <3>2. \A T : [req[p] EXCEPT !.todo = T].at = req[p].at
        BY <1>0 DEF RequestRow
      <3> QED BY <1>0, <3>1, <3>2
    <2> QED BY <2>1, <2>2
  <1>12. ~Abort(p) /\ ~OpenCommit(p) /\ ~CloseWrite(p) /\ ~Reply(p) /\ ~RemoveCommit(p)
         /\ ~PickCommit(p) /\ ~RevealCommit(p) /\ ~ResetCommit(p)
    BY <1>1 DEF Abort, OpenCommit, CloseWrite, Reply, RemoveCommit, PickCommit,
       RevealCommit, ResetCommit, Fail
  <1>13. \/ PickWrite(p) \/ PickRecheck(p) \/ RemoveDelete(p) \/ RemoveUnpick(p)
         \/ RevealRead(p) \/ RevealAssign(p)
    BY <1>2, <1>3, <1>4, <1>5, <1>6, <1>7, <1>12 DEF Step
  <1> QED BY <1>1, <1>8, <1>9, <1>10, <1>11, <1>13

\* Only the game row and rows that exist are locked.
LEMMA NewLocks ==
    ASSUME TypeOK, NEW p \in Req, Handler(p) \/ Step(p) \/ Abort(p), NEW x \in Row, lock'[x] = p
    PROVE  lock[x] = p \/ x = GameRow \/ x \in Regs
  <1>1. CASE End(p)
    BY <1>1, EndMoves
  <1>2. CASE UNCHANGED lock
    BY <1>2
  <1>3. ASSUME NEW y, Lock(p, y), y = GameRow \/ y \in Regs
        PROVE  lock[x] = p \/ x = GameRow \/ x \in Regs
    <2>1. lock'[x] = IF x = y THEN p ELSE lock[x]
      BY <1>3 DEF Lock, TypeOK
    <2> QED BY <1>3, <2>1
  <1>4. CASE Handler(p)
    BY <1>2, <1>4, HandlerBegins DEF Begin
  <1>5. CASE OpenWrite(p) /\ ~End(p)
    BY <1>3, <1>5 DEF OpenWrite, Fail
  <1>6. CASE (RemoveDelete(p) \/ PickWrite(p)) /\ ~End(p)
    BY <1>3, <1>6 DEF RemoveDelete, PickWrite, Fail
  <1>7. CASE (RemoveUnpick(p) \/ RevealAssign(p) \/ ResetWipe(p)) /\ ~End(p)
    BY <1>2, <1>3, <1>7 DEF RemoveUnpick, RevealAssign, ResetWipe, Fail
  <1>8. CASE /\ JoinLookup(p) \/ CountRegs(p) \/ PickTarget(p) \/ PickRecheck(p)
                \/ RevealRead(p) \/ ResetRead(p) \/ Claim(p) \/ Insert(p)
             /\ ~End(p)
    BY <1>2, <1>8 DEF JoinLookup, CountRegs, PickTarget, PickRecheck, RevealRead, ResetRead,
       Claim, Insert, Fail
  <1>9. CASE OpenCommit(p) \/ CloseWrite(p) \/ Reply(p) \/ RemoveCommit(p)
             \/ PickCommit(p) \/ RevealCommit(p) \/ ResetCommit(p) \/ Abort(p)
    BY <1>1, <1>9 DEF OpenCommit, CloseWrite, Reply, RemoveCommit, PickCommit,
       RevealCommit, ResetCommit, Abort, Fail
  <1> QED BY <1>1, <1>4, <1>5, <1>6, <1>7, <1>8, <1>9 DEF Step

\* What a request that goes on knows of its own locks and plan.
LEMMA OwnFacts ==
    ASSUME IInv, TypeOK', NEW p \in Req, Handler(p) \/ Step(p) \/ Abort(p)
    PROVE  Planned(p)' /\ Picking(p)' /\ Unpicking(p)'
  <1>0. /\ TypeOK /\ req[p] \in Request /\ req[p] \in RequestRow
        /\ RegId \subseteq Row /\ Regs \subseteq RegId
        /\ \A q : Goto(p, q) => req'[p] = q /\ UNCHANGED <<db, dealt>> /\ Regs' = Regs
    BY RegsAreIds DEF IInv, TypeOK, Request, Goto, db, Regs
  <1>1. CASE req'[p].at \notin {"assign", "recheck", "save", "unpick"}
    BY <1>1 DEF Planned, Picking, Unpicking
  <1>2. CASE req'[p].at = "assign"
    <2> SUFFICES Planned(p)'
      BY <1>2 DEF Picking, Unpicking
    <2>0. ~End(p) /\ (RevealRead(p) \/ RevealAssign(p))
      BY <1>0, <1>2, Arrives
    <2>1. CASE RevealRead(p)
      <3> DEFINE seats == req[p].seats
                 plan == Assignments(seats)
                 q == [req[p] EXCEPT !.at = "assign", !.todo = Regs, !.plan = plan]
      <3>1. Dealable(seats) /\ Goto(p, q)
        BY <2>0, <2>1 DEF RevealRead, Fail
      <3>2. q.todo = Regs /\ q.plan = plan
        BY <1>0 DEF RequestRow
      <3> HIDE DEF q
      <3>3. req'[p].todo = Regs /\ req'[p].plan = plan /\ UNCHANGED lastId
        BY <1>0, <3>1, <3>2 DEF db
      <3>4. ASSUME NEW i \in RegId, plan[i] # NoRole
            PROVE  /\ i \in Regs /\ plan[i] \in Role /\ seats[plan[i]] = regs[i].name
                   /\ \A r \in Role : seats[r] = regs[i].name => r = plan[i]
        <4>1. i \in Regs /\ plan[i] = CHOOSE r \in Role : seats[r] = regs[i].name
          BY <3>4 DEF Assignments
        <4>2. PICK r \in Role : {x \in Role : seats[x] = regs[i].name} = {r}
          BY <3>1, <4>1 DEF Dealable, RolesOf
        <4>3. plan[i] \in Role /\ seats[plan[i]] = regs[i].name
          BY <4>1, <4>2
        <4> QED BY <4>1, <4>2, <4>3
      <3>5. ASSUME NEW i \in RegId, NEW j \in RegId, plan[i] # NoRole, plan[j] = plan[i]
            PROVE  j = i
        <4>1. i \in Regs /\ j \in Regs /\ regs[i].name = regs[j].name
          BY <3>4, <3>5
        <4> QED BY <4>1 DEF IInv, NamesUnique
      <3>6. \A i \in Regs : i <= lastId
        BY <1>0 DEF TypeOK
      <3> HIDE DEF plan
      <3> QED BY <3>3, <3>4, <3>5, <3>6 DEF Planned
    <2>2. CASE RevealAssign(p)
      <3>1. PICK i \in req[p].todo :
              Lock(p, i) /\ Goto(p, [req[p] EXCEPT !.todo = @ \ {i}])
        BY <2>0, <2>2 DEF RevealAssign, Fail
      <3> DEFINE q == [req[p] EXCEPT !.todo = @ \ {i}]
      <3>2. q.todo = req[p].todo \ {i} /\ q.plan = req[p].plan /\ i \in Row
        BY <1>0, <3>1 DEF RequestRow
      <3> HIDE DEF q
      <3>3. /\ req'[p].todo = req[p].todo \ {i} /\ req'[p].plan = req[p].plan
            /\ UNCHANGED lastId
        BY <1>0, <3>1, <3>2 DEF q, db
      <3>4. \A x \in Row : lock'[x] = IF x = i THEN p ELSE lock[x]
        BY <1>0, <3>1 DEF Lock, TypeOK
      <3>5. Planned(p) /\ req[p].at = "assign"
        BY <2>2 DEF IInv, RevealAssign
      <3> QED BY <1>0, <3>3, <3>4, <3>5 DEF Planned
    <2> QED BY <2>0, <2>1, <2>2
  <1>3. CASE req'[p].at = "recheck"
    <2> DEFINE q == [req[p] EXCEPT !.at = "recheck"]
    <2>1. Lock(p, req[p].reg) /\ Goto(p, q)
      BY <1>0, <1>3, Arrives DEF PickWrite, Fail
    <2>2. q.reg = req[p].reg /\ req[p].reg \in Row
      BY <1>0 DEF RequestRow
    <2> HIDE DEF q
    <2>3. req'[p].reg = req[p].reg /\ lock'[req[p].reg] = p
      BY <1>0, <2>1, <2>2 DEF Lock, TypeOK
    <2> QED BY <1>3, <2>3 DEF Planned, Picking, Unpicking
  <1>4. CASE req'[p].at = "save"
    <2> DEFINE q == [req[p] EXCEPT !.at = "save"]
    <2>1. Pickable /\ Goto(p, q) /\ UNCHANGED lock /\ req[p].at = "recheck"
      BY <1>0, <1>4, Arrives DEF PickRecheck, Fail
    <2>2. q.reg = req[p].reg
      BY <1>0 DEF RequestRow
    <2> HIDE DEF q
    <2>3. req'[p].reg = req[p].reg /\ lock'[req[p].reg] = p /\ game'.phase # "revealed"
      BY <1>0, <2>1, <2>2 DEF Pickable, IInv, Picking, db
    <2> QED BY <1>4, <2>3 DEF Planned, Picking, Unpicking
  <1>5. CASE req'[p].at = "unpick"
    <2> SUFFICES Unpicking(p)'
      BY <1>5 DEF Planned, Picking
    <2>0. ~End(p) /\ (RemoveDelete(p) \/ RemoveUnpick(p))
      BY <1>0, <1>5, Arrives
    <2>1. CASE RemoveDelete(p)
      <3> DEFINE i == req[p].reg
                 T == {j \in Regs \ {i} : regs[j].pick = i}
                 q == [req[p] EXCEPT !.at = "unpick", !.todo = T]
      <3>1. Lock(p, i) /\ Goto(p, q) /\ req[p].at = "remove"
        BY <2>0, <2>1 DEF RemoveDelete, Fail
      <3>2. q.reg = i
        BY <1>0 DEF RequestRow
      <3> HIDE DEF q
      <3>3. \A x \in Row : lock[x] # p
        BY <3>1, NullAssumption DEF IInv, LocksOwned, TxPoint
      <3>4. \A x \in Row : lock'[x] = p => x = i
        BY <1>0, <3>1, <3>3 DEF Lock, TypeOK
      <3>5. req'[p].reg = i /\ Regs' = Regs
        BY <1>0, <3>1, <3>2
      <3> QED BY <1>0, <3>4, <3>5 DEF Unpicking
    <2>2. CASE RemoveUnpick(p)
      <3>1. PICK j \in req[p].todo :
              /\ \/ UNCHANGED lock
                 \/ Lock(p, j) /\ regs[j].pick = req[p].reg
              /\ Goto(p, [req[p] EXCEPT !.todo = @ \ {j}])
        BY <2>0, <2>2 DEF RemoveUnpick
      <3> DEFINE q == [req[p] EXCEPT !.todo = @ \ {j}]
      <3>2. q.reg = req[p].reg
        BY <1>0 DEF RequestRow
      <3> HIDE DEF q
      <3>3. req'[p].reg = req[p].reg /\ Regs' = Regs /\ regs' = regs
        BY <1>0, <3>1, <3>2 DEF q, db
      <3>4. \A x \in Row : lock'[x] = p => lock[x] = p \/ regs[x].pick = req[p].reg
        BY <1>0, <3>1 DEF Lock, TypeOK
      <3>5. Unpicking(p) /\ req[p].at = "unpick"
        BY <2>2 DEF IInv, RemoveUnpick
      <3> QED BY <1>0, <3>3, <3>4, <3>5 DEF Unpicking
    <2> QED BY <2>0, <2>1, <2>2
  <1> QED BY <1>1, <1>2, <1>3, <1>4, <1>5

\* A step that deals to nobody keeps the deal that was made.
LEMMA DealKept ==
    ASSUME IInv, TypeOK', NEW p \in Req, Handler(p) \/ Step(p) \/ Abort(p), ~RevealCommit(p)
    PROVE  DealtHoldOneRole'
  <1> SUFFICES ASSUME game'.phase = "revealed",
                      NEW i \in dealt' \cap Regs', NEW j \in dealt' \cap Regs'
               PROVE  /\ regs'[i].role # NoRole
                      /\ i # j => regs'[i].role # regs'[j].role
    BY DEF DealtHoldOneRole
  <1>1. game.phase = "revealed" /\ dealt' \subseteq dealt /\ ~(ResetCommit(p) /\ ~Fail(p))
    BY DealMoves DEF IInv
  <1>2. \A k \in dealt \cap Regs' : k \in Regs /\ regs'[k].role = regs[k].role
    <2>1. /\ lastId \in Nat /\ \A k \in Regs' : k \in Regs \/ k > lastId
          /\ \A k \in dealt : k <= lastId
      BY RowsMove DEF IInv, Numbered
    <2>2. \A k \in Regs' : k \in Nat
      BY BoundAssumption DEF TypeOK, Row
    <2> QED BY <1>1, <2>1, <2>2, RolesKept DEF IInv
  <1> QED BY <1>1, <1>2 DEF IInv, DealtHoldOneRole

\* Names stay unique: the index refuses a second row of a name.
LEMMA NamesKept ==
    ASSUME IInv, TypeOK', NEW p \in Req, Handler(p) \/ Step(p) \/ Abort(p)
    PROVE  NamesUnique'
  <1>0. /\ \A i \in Regs \cap Regs' : regs'[i].name = regs[i].name
        /\ \A i, j \in Regs : regs[i].name = regs[j].name => i = j
    BY RowsMove DEF IInv, NamesUnique
  <1>1. CASE Regs' \subseteq Regs
    BY <1>0, <1>1 DEF NamesUnique
  <1>2. CASE Insert(p) /\ ~Fail(p)
    <2> DEFINE k == lastId + 1
    <2>1. /\ regs' = [j \in Regs \cup {k} |->
                        IF j = k THEN NewRow(req[p].name, req[p].shared) ELSE regs[j]]
          /\ \A j \in Regs : regs[j].name # req[p].name
      BY <1>2 DEF Insert, CanInsert, NamesTaken
    <2>2. Regs' = Regs \cup {k} /\ regs'[k].name = req[p].name
      BY <2>1 DEF Regs, NewRow
    <2> HIDE DEF k
    <2> QED BY <1>0, <2>1, <2>2 DEF NamesUnique
  <1>3. CASE OpenCommit(p) /\ ~Fail(p)
    <2> DEFINE F == req[p].fill
    <2>1. PICK last \in lastId..MaxId : \E id \in [F -> (lastId + 1)..last] :
            /\ regs' = [i \in Regs \cup {id[n] : n \in F} |->
                           IF i \in Regs THEN regs[i]
                           ELSE NewRow(CHOOSE n \in F : id[n] = i, TRUE)]
      BY <1>3 DEF OpenCommit
    <2>2. PICK id \in [F -> (lastId + 1)..last] :
            /\ regs' = [i \in Regs \cup {id[n] : n \in F} |->
                           IF i \in Regs THEN regs[i]
                           ELSE NewRow(CHOOSE n \in F : id[n] = i, TRUE)]
      BY <2>1
    <2>0. F \cap NamesTaken = {}
      BY <1>3 DEF OpenCommit
    <2> HIDE DEF F
    <2>3. \A i \in Regs : regs[i].name \notin F
      BY <2>0 DEF NamesTaken
    <2>4. ASSUME NEW i \in Regs', i \notin Regs
          PROVE  regs'[i].name \in F /\ id[regs'[i].name] = i
      <3>1. \E n \in F : id[n] = i
        BY <2>2, <2>4 DEF Regs
      <3> DEFINE n == CHOOSE n \in F : id[n] = i
      <3>2. n \in F /\ id[n] = i
        BY <3>1, Zenon
      <3> HIDE DEF n
      <3>3. regs'[i] = NewRow(n, TRUE)
        BY <2>2, <2>4 DEF Regs, n
      <3> QED BY <3>2, <3>3 DEF NewRow
    <2> QED BY <1>0, <2>3, <2>4 DEF NamesUnique
  <1>4. ASSUME UNCHANGED regs PROVE Regs' \subseteq Regs
    BY <1>4 DEF Regs
  <1>5. CASE ~(Insert(p) /\ ~Fail(p)) /\ ~(OpenCommit(p) /\ ~Fail(p))
    <2>1. ASSUME NEW q, Goto(p, q) PROVE UNCHANGED regs
      BY <2>1 DEF Goto, db
    <2>2. CASE Handler(p) \/ Fail(p)
      BY <1>1, <1>4, <2>2, HandlerBegins DEF Begin, Fail, db
    <2>3. CASE Claim(p) \/ RemoveCommit(p) \/ PickCommit(p) \/ RevealCommit(p) \/ ResetCommit(p)
      <3>1. Regs' \subseteq Regs
        BY <1>4, <2>3 DEF Claim, RemoveCommit, PickCommit, RevealCommit, ResetCommit, Fail,
           db, Regs
      <3> QED BY <1>1, <3>1
    <2>4. CASE ~Handler(p) /\ ~Fail(p) /\ ~Claim(p) /\ ~RemoveCommit(p) /\ ~PickCommit(p)
               /\ ~RevealCommit(p) /\ ~ResetCommit(p)
      <3>1. UNCHANGED regs
        BY <1>5, <2>1, <2>4 DEF Step, Abort, db, OpenWrite, CloseWrite, JoinLookup,
           CountRegs, Reply, RemoveDelete, RemoveUnpick, PickTarget, PickWrite, PickRecheck,
           RevealRead, RevealAssign, ResetRead, ResetWipe
      <3> QED BY <1>1, <1>4, <3>1
    <2> QED BY <2>2, <2>3, <2>4
  <1> QED BY <1>2, <1>3, <1>5

\* The reveal's commit: it holds every row it deals to, and deals each role once.
LEMMA RevealDeals ==
    ASSUME IInv, TypeOK', NEW p \in Req, RevealCommit(p)
    PROVE  /\ DealtHoldOneRole'
           /\ \A i \in dealt' : lock[i] = p /\ i <= lastId
  <1> DEFINE plan == req[p].plan
  <1>1. /\ dealt' = {i \in RegId : plan[i] # NoRole} /\ Regs' = Regs
        /\ \A i \in dealt' \cap Regs : regs'[i] = [regs[i] EXCEPT !.role = plan[i]]
        /\ req[p].at = "assign" /\ req[p].todo = {}
    BY DEF RevealCommit, Regs
  <1> HIDE DEF plan
  <1>2. \A i \in dealt' :
          /\ i <= lastId /\ lock[i] = p
          /\ \A j \in RegId : plan[j] = plan[i] => j = i
    BY <1>1 DEF IInv, Planned, plan
  <1>3. \A i \in dealt' \cap Regs : regs'[i].role = plan[i] /\ plan[i] # NoRole
    BY <1>1 DEF IInv, TypeOK, Registration
  <1> QED BY <1>1, <1>2, <1>3 DEF DealtHoldOneRole

LEMMA RequestKeeps ==
    ASSUME IInv, TypeOK', LocksOwned', NEW p \in Req, Handler(p) \/ Step(p) \/ Abort(p)
    PROVE  IInv'
  <1>1. Moves(p) /\ NamesUnique'
    BY StepMoves, NamesKept DEF IInv
  <1>2. DealtHoldOneRole'
    BY DealKept, RevealDeals
  <1>3. /\ lastId \in Nat /\ lastId' \in Nat /\ lastId <= lastId'
        /\ \A i \in Regs' : i \in Regs \/ i > lastId
        /\ \A i \in Regs \cap Regs' :
              \/ regs'[i].pick = regs[i].pick
              \/ PickCommit(p) /\ i = req[p].reg
              \/ RemoveCommit(p) /\ lock[i] = p
    BY RowsMove DEF IInv
  <1>4. PickCommit(p) => lock[req[p].reg] = p
    BY DEF PickCommit, IInv, Picking
  <1>5. \/ \A i \in dealt' : lock[i] = p /\ i <= lastId
        \/ dealt' \subseteq dealt /\ (game'.phase = "revealed" => game.phase = "revealed")
    BY DealMoves, RevealDeals DEF IInv
  <1>6. RowsKept(p)
    BY <1>3, <1>4, <1>5 DEF RowsKept
  <1>7. \A o \in Req : Planned(o)' /\ Picking(o)' /\ Unpicking(o)'
    BY <1>1, <1>6, OthersKept, OwnFacts
  <1>8. Numbered'
    <2>1. ASSUME NEW x \in Row, lock'[x] # Free PROVE x <= lastId'
      <3>1. x \in Nat /\ 0 <= lastId
        BY <1>3, BoundAssumption DEF Row
      <3>2. lock[x] # Free => x <= lastId
        BY DEF IInv, Numbered
      <3>3. CASE lock'[x] = p
        <4>1. lock[x] = p \/ x = 0 \/ x \in Regs
          BY <3>3, NewLocks DEF IInv, GameRow
        <4>2. x \in Regs => x <= lastId
          BY DEF IInv, TypeOK
        <4> QED BY <1>3, <3>1, <3>2, <4>1, <4>2, NullAssumption
      <3>4. CASE lock'[x] # p
        BY <1>1, <1>3, <2>1, <3>1, <3>2, <3>4 DEF Moves
      <3> QED BY <3>3, <3>4
    <2>2. ASSUME NEW i \in dealt' PROVE i <= lastId'
      <3>1. i \in Nat
        BY DEF TypeOK, RegId
      <3>2. i <= lastId
        BY <1>5 DEF IInv, Numbered
      <3> QED BY <1>3, <3>1, <3>2
    <2> QED BY <2>1, <2>2 DEF Numbered
  <1> QED BY <1>1, <1>2, <1>7, <1>8 DEF IInv

LEMMA EnvironmentKeeps ==
    ASSUME IInv, TypeOK', LocksOwned', Environment
    PROVE  IInv'
  <1>1. UNCHANGED <<lastId, lock, req>>
    BY DEF Environment, EditSeat, StartGame, EndGame, DeleteGame, UnchangedByGame
  <1>2. CASE UNCHANGED <<regs, dealt>> /\ game'.phase = game.phase
    <2>1. Regs' = Regs /\ NamesUnique' /\ Numbered' /\ DealtHoldOneRole'
      BY <1>1, <1>2 DEF IInv, Regs, NamesUnique, Numbered, DealtHoldOneRole
    <2>2. \A p \in Req : Planned(p)' /\ Picking(p)' /\ Unpicking(p)'
      BY <1>1, <1>2, <2>1 DEF IInv, Planned, Picking, Unpicking
    <2> QED BY <2>1, <2>2 DEF IInv
  <1>3. CASE Regs' = {} /\ dealt' = {}
    <2>1. NamesUnique' /\ Numbered' /\ DealtHoldOneRole'
      BY <1>1, <1>3 DEF IInv, NamesUnique, Numbered, DealtHoldOneRole
    <2>2. \A p \in Req : Planned(p)' /\ Picking(p)' /\ Unpicking(p)'
      BY <1>1, <1>3 DEF IInv, Planned, Picking, Unpicking
    <2> QED BY <2>1, <2>2 DEF IInv
  <1>4. game \in Game
    BY DEF IInv, TypeOK
  <1>5. EditSeat \/ StartGame \/ EndGame => UNCHANGED <<regs, dealt>> /\ game'.phase = game.phase
    <2>1. EditSeat => game'.phase = game.phase
      BY <1>4 DEF EditSeat, Game
    <2> QED BY <1>4, <2>1 DEF EditSeat, StartGame, EndGame, Game
  <1>6. DeleteGame => Regs' = {} /\ dealt' = {}
    BY DEF DeleteGame, Regs
  <1> QED BY <1>2, <1>3, <1>5, <1>6 DEF Environment

LEMMA InitIInv == Init => IInv
  <1> SUFFICES ASSUME Init PROVE IInv
    OBVIOUS
  <1>1. TypeOK /\ LocksOwned
    BY InitTyped, InitLocks
  <1>2. /\ Regs = {} /\ dealt = {} /\ \A x \in Row : lock[x] = Free
        /\ \A p \in Req : req[p].at = "idle"
    BY DEF Init, Regs, Idle
  <1> QED BY <1>1, <1>2 DEF IInv, NamesUnique, Numbered, DealtHoldOneRole, Planned, Picking, Unpicking

LEMMA Inductive == IInv /\ [Next]_vars => IInv'
  <1> SUFFICES ASSUME IInv, [Next]_vars PROVE IInv'
    OBVIOUS
  <1>1. TypeOK' /\ LocksOwned'
    BY NextTyped, NextLocks DEF IInv
  <1>2. CASE UNCHANGED vars
    BY <1>1, <1>2 DEF vars, IInv, Regs, NamesUnique, Numbered, DealtHoldOneRole, Planned,
       Picking, Unpicking
  <1> QED BY <1>1, <1>2, RequestKeeps, EnvironmentKeeps DEF Next

\* However many requests run beside a reveal - resets, joins, removals, picks,
\* edits of the grimoire - no two players it deals to hold one role.
THEOREM DealIsOneRoleEach == Spec => []DealtHoldOneRole
  <1>1. IInv => DealtHoldOneRole
    BY DEF IInv
  <1> QED BY <1>1, InitIInv, Inductive, PTL DEF Spec

LEMMA StepFreezesPicks == IInv /\ [Next]_vars => PicksFrozenStep
  <1> SUFFICES ASSUME IInv, [Next]_vars, NEW i \in dealt \cap Regs, game.phase = "revealed",
                      i \in DOMAIN regs'
               PROVE  \/ regs'[i].pick = regs[i].pick
                      \/ regs'[i].pick = 0 /\ regs[i].pick \notin DOMAIN regs'
    BY DEF PicksFrozenStep
  <1>1. CASE UNCHANGED regs
    BY <1>1
  <1>2. CASE Environment
    BY <1>1, <1>2 DEF Environment, EditSeat, StartGame, EndGame, DeleteGame
  <1>3. ASSUME NEW p \in Req, Handler(p) \/ Step(p) \/ Abort(p)
        PROVE  \/ regs'[i].pick = regs[i].pick
               \/ regs'[i].pick = 0 /\ regs[i].pick \notin DOMAIN regs'
    <2>1. \/ regs'[i].pick = regs[i].pick
          \/ PickCommit(p) /\ i = req[p].reg
          \/ RemoveCommit(p) /\ lock[i] = p /\ regs'[i].pick = 0
      BY <1>3, RowsMove DEF IInv, Regs
    <2>2. ~(PickCommit(p) /\ i = req[p].reg)
      BY DEF PickCommit, IInv, Picking
    <2>3. CASE RemoveCommit(p) /\ lock[i] = p /\ regs'[i].pick = 0
      <3>1. DOMAIN regs' = Regs \ {req[p].reg} /\ req[p].at = "unpick"
        BY <2>3 DEF RemoveCommit
      <3>2. regs[i].pick = req[p].reg
        BY <2>3, <3>1 DEF IInv, Unpicking
      <3> QED BY <2>3, <3>1, <3>2
    <2> QED BY <2>1, <2>2, <2>3
  <1> QED BY <1>1, <1>2, <1>3 DEF Next, vars

\* On a revealed bag the neighbours of a player who was dealt to are settled: a
\* pick that was in flight when the reveal ran is refused, or was there before.
THEOREM PicksFreeze == Spec => PicksFrozen
  <1>1. IInv /\ [Next]_vars => [PicksFrozenStep]_vars
    BY StepFreezesPicks
  <1> QED BY <1>1, InitIInv, Inductive, PTL DEF Spec, PicksFrozen

-----------------------------------------------------------------------------
(***************************************************************************)
(* Progress, as far as it is a matter of states and steps: every request   *)
(* is a bounded number of statements long, and where no statement can run, *)
(* two of the requests that update many rows have deadlocked, which the    *)
(* detector resolves (Deadlocked, DeadlockVictim).                         *)
(***************************************************************************)

\* The points at which a transaction locks the rows of todo one by one.
Writing == {"assign", "unpick", "wipe"}
ManyRows(p) == req[p].at \in Writing /\ req[p].todo # {}

InFlight == {p \in Req : req[p].at # "idle"}

\* The next statement of p need not wait for anybody.
Ready(p) ==
    /\ p \in InFlight
    /\ ~(req[p].at = "insert" /\ Minting)
    /\ Wants(p) = {} \/ \E x \in Wants(p) : lock[x] = Free

\* The statements p has left, at most.
Left(p) ==
    CASE req[p].at \in Writing -> Cardinality(req[p].todo) + 1
      [] req[p].at \in {"reveal", "remove", "reset"} -> MaxId + 2
      [] req[p].at \in {"lookup", "target"} -> 4
      [] req[p].at \in {"count", "pick"} -> 3
      [] req[p].at \in {"open", "claim", "insert", "recheck"} -> 2
      [] req[p].at \in {"backfill", "close", "reply", "save"} -> 1
      [] OTHER -> 0

\* Where a statement that does not end its request takes it.
Turns(q, r, p) ==
    \/ q.at = "open" /\ r.at = "backfill" /\ Lock(p, GameRow)
    \/ /\ UNCHANGED lock
       /\ \/ q.at = "lookup" /\ r.at \in {"count", "claim"}
          \/ q.at = "count" /\ r.at = "insert"
          \/ q.at \in {"claim", "insert"} /\ r.at = "reply"
          \/ q.at = "target" /\ r.at = "pick"
          \/ q.at = "recheck" /\ r.at = "save"
    \/ q.at = "pick" /\ r.at = "recheck" /\ Lock(p, q.reg)
    \/ q.at = "remove" /\ r.at = "unpick" /\ Lock(p, q.reg) /\ r.todo \subseteq RegId \ {q.reg}
    \/ /\ \/ q.at = "reveal" /\ r.at = "assign"
          \/ q.at = "reset" /\ r.at = "wipe"
       /\ r.todo = Regs /\ UNCHANGED lock
    \/ /\ q.at \in Writing /\ r.at = q.at
       /\ \E j \in q.todo : r.todo = q.todo \ {j} /\ (UNCHANGED lock \/ Lock(p, j))

LEMMA StepTurns ==
    ASSUME TypeOK, NEW p \in Req, Step(p), ~End(p)
    PROVE  Turns(req[p], req'[p], p)
  <1>0. /\ req[p] \in RequestRow /\ Regs \subseteq RegId
        /\ \A q : req' = [req EXCEPT ![p] = q] => req'[p] = q
    BY RegsAreIds DEF TypeOK, Request
  <1>1. ASSUME NEW a, NEW f, Goto(p, [req[p] EXCEPT !.at = a, !.fill = f])
        PROVE  req'[p].at = a
    <2>1. req'[p] = [req[p] EXCEPT !.at = a, !.fill = f]
      BY <1>0, <1>1 DEF Goto
    <2> QED BY <1>0, <2>1 DEF RequestRow
  <1>2. ASSUME NEW a, Goto(p, [req[p] EXCEPT !.at = a]) PROVE req'[p].at = a
    <2>1. req'[p] = [req[p] EXCEPT !.at = a]
      BY <1>0, <1>2 DEF Goto
    <2> QED BY <1>0, <2>1 DEF RequestRow
  <1>3. ASSUME NEW T, Goto(p, [req[p] EXCEPT !.todo = T])
        PROVE  req'[p].at = req[p].at /\ req'[p].todo = T
    <2>1. req'[p] = [req[p] EXCEPT !.todo = T]
      BY <1>0, <1>3 DEF Goto
    <2> QED BY <1>0, <2>1 DEF RequestRow
  <1>4. ASSUME NEW a, NEW T, Goto(p, [req[p] EXCEPT !.at = a, !.todo = T])
        PROVE  req'[p].at = a /\ req'[p].todo = T
    <2>1. req'[p] = [req[p] EXCEPT !.at = a, !.todo = T]
      BY <1>0, <1>4 DEF Goto
    <2> QED BY <1>0, <2>1 DEF RequestRow
  <1>5. CASE OpenWrite(p)
    <2>1. PICK F : Lock(p, GameRow) /\ Goto(p, [req[p] EXCEPT !.at = "backfill", !.fill = F])
      BY <1>5 DEF OpenWrite, Fail
    <2> QED BY <1>1, <1>5, <2>1 DEF OpenWrite, Turns
  <1>6. CASE JoinLookup(p)
    <2>1. /\ UNCHANGED lock
          /\ \/ Goto(p, [req[p] EXCEPT !.at = "count"])
             \/ \E i : Goto(p, [req[p] EXCEPT !.at = "claim", !.reg = i])
      BY <1>6 DEF JoinLookup, Fail
    <2>2. ASSUME NEW i, Goto(p, [req[p] EXCEPT !.at = "claim", !.reg = i])
          PROVE  req'[p].at = "claim"
      <3>1. req'[p] = [req[p] EXCEPT !.at = "claim", !.reg = i]
        BY <1>0, <2>2 DEF Goto
      <3> QED BY <1>0, <3>1 DEF RequestRow
    <2>3. req'[p].at \in {"count", "claim"}
      BY <1>2, <2>1, <2>2
    <2> QED BY <1>6, <2>1, <2>3 DEF JoinLookup, Turns
  <1>7. CASE CountRegs(p) \/ PickRecheck(p)
    <2>1. /\ UNCHANGED lock
          /\ \/ req[p].at = "count" /\ Goto(p, [req[p] EXCEPT !.at = "insert"])
             \/ req[p].at = "recheck" /\ Goto(p, [req[p] EXCEPT !.at = "save"])
      BY <1>7 DEF CountRegs, PickRecheck, Fail
    <2> QED BY <1>2, <2>1 DEF Turns
  <1>8. CASE Claim(p) \/ Insert(p)
    <2>1. /\ UNCHANGED lock
          /\ req[p].at \in {"claim", "insert"}
          /\ \/ \E s : req' = [req EXCEPT ![p].at = "reply", ![p].secret = s]
             \/ \E i : req' = [req EXCEPT ![p].at = "reply", ![p].reg = i, ![p].secret = 1]
      BY <1>8 DEF Claim, Insert, Fail
    <2>2. ASSUME NEW s, req' = [req EXCEPT ![p].at = "reply", ![p].secret = s]
          PROVE  req'[p].at = "reply"
      BY <1>0, <2>2 DEF TypeOK, RequestRow
    <2>3. ASSUME NEW i, req' = [req EXCEPT ![p].at = "reply", ![p].reg = i, ![p].secret = 1]
          PROVE  req'[p].at = "reply"
      BY <1>0, <2>3 DEF TypeOK, RequestRow
    <2>4. req'[p].at = "reply"
      BY <2>1, <2>2, <2>3
    <2> QED BY <2>1, <2>4 DEF Turns
  <1>9. CASE PickTarget(p)
    <2>1. /\ UNCHANGED lock /\ req[p].at = "target"
          /\ \E t : Goto(p, [req[p] EXCEPT !.at = "pick", !.pick = t])
      BY <1>9 DEF PickTarget
    <2>2. req'[p].at = "pick"
      BY <1>0, <2>1 DEF Goto, RequestRow
    <2> QED BY <2>1, <2>2 DEF Turns
  <1>10. CASE PickWrite(p)
    <2>1. req[p].at = "pick" /\ Lock(p, req[p].reg) /\ Goto(p, [req[p] EXCEPT !.at = "recheck"])
      BY <1>10 DEF PickWrite, Fail
    <2> QED BY <1>2, <2>1 DEF Turns
  <1>11. CASE RemoveDelete(p)
    <2> DEFINE T == {j \in Regs \ {req[p].reg} : regs[j].pick = req[p].reg}
    <2>1. req[p].at = "remove" /\ Lock(p, req[p].reg)
          /\ Goto(p, [req[p] EXCEPT !.at = "unpick", !.todo = T])
      BY <1>11 DEF RemoveDelete, Fail
    <2>2. T \subseteq RegId \ {req[p].reg}
      BY <1>0
    <2> HIDE DEF T
    <2> QED BY <1>4, <2>1, <2>2 DEF Turns
  <1>12. CASE RevealRead(p)
    <2> DEFINE plan == Assignments(req[p].seats)
    <2> HIDE DEF plan
    <2>1. /\ req[p].at = "reveal" /\ UNCHANGED lock
          /\ Goto(p, [req[p] EXCEPT !.at = "assign", !.todo = Regs, !.plan = plan])
      BY <1>12 DEF RevealRead, Fail, plan
    <2>2. req'[p] = [req[p] EXCEPT !.at = "assign", !.todo = Regs, !.plan = plan]
      BY <1>0, <2>1 DEF Goto
    <2>3. req'[p].at = "assign" /\ req'[p].todo = Regs
      BY <1>0, <2>2 DEF RequestRow
    <2> QED BY <2>1, <2>3 DEF Turns
  <1>13. CASE ResetRead(p)
    BY <1>4, <1>13 DEF ResetRead, Turns
  <1>14. CASE RemoveUnpick(p) \/ RevealAssign(p) \/ ResetWipe(p)
    <2>1. /\ req[p].at \in Writing
          /\ \E j \in req[p].todo : /\ UNCHANGED lock \/ Lock(p, j)
                                    /\ Goto(p, [req[p] EXCEPT !.todo = @ \ {j}])
      BY <1>14 DEF RemoveUnpick, RevealAssign, ResetWipe, Fail, Writing
    <2>2. PICK j \in req[p].todo : /\ UNCHANGED lock \/ Lock(p, j)
                                   /\ Goto(p, [req[p] EXCEPT !.todo = req[p].todo \ {j}])
      BY <2>1
    <2> QED BY <1>3, <2>1, <2>2 DEF Turns
  <1>15. ~OpenCommit(p) /\ ~CloseWrite(p) /\ ~Reply(p) /\ ~RemoveCommit(p)
         /\ ~PickCommit(p) /\ ~RevealCommit(p) /\ ~ResetCommit(p)
    BY DEF OpenCommit, CloseWrite, Reply, RemoveCommit, PickCommit, RevealCommit, ResetCommit,
       Fail
  <1> QED
    BY <1>5, <1>6, <1>7, <1>8, <1>9, <1>10, <1>11, <1>12, <1>13, <1>14, <1>15 DEF Step

\* What a request can be doing next: it begins, it ends, or it turns.
LEMMA EveryTurn ==
    ASSUME TypeOK, NEW p \in Req, Handler(p) \/ Step(p) \/ Abort(p)
    PROVE  \/ req[p].at = "idle" /\ req'[p].at \notin Writing \cup {"backfill"} /\ UNCHANGED lock
           \/ req'[p].at = "idle" /\ \A x \in Row : lock'[x] # p
           \/ Turns(req[p], req'[p], p)
  <1>1. CASE End(p)
    BY <1>1, EndMoves DEF Idle
  <1>2. CASE Handler(p)
    <2>1. req[p].at = "idle" /\ UNCHANGED lock /\ req'[p].at \in FirstPoint
      BY <1>2, HandlerBegins DEF Begin, TypeOK
    <2> QED BY <2>1 DEF FirstPoint, Writing
  <1>3. Abort(p) => End(p)
    BY DEF Abort, Fail
  <1> QED BY <1>1, <1>2, <1>3, StepTurns

\* The game row is locked by an open that is about to commit and by nobody
\* else, and what a transaction has yet to lock it has not locked.
LocksAhead ==
    /\ lock[GameRow] # Free => req[lock[GameRow]].at = "backfill"
    /\ \A p \in Req : req[p].at \in Writing => \A x \in req[p].todo : lock[x] # p

LEMMA TurnLocksAhead ==
    ASSUME TypeOK, TypeOK', LocksOwned, LocksAhead, NEW p \in Req,
           Handler(p) \/ Step(p) \/ Abort(p)
    PROVE  LocksAhead'
  <1> DEFINE q == req[p]
             r == req'[p]
  <1>1. /\ q \in Request /\ q.todo \subseteq RegId
        /\ q.at \in {"pick", "remove"} => q.reg \in RegId
    BY DEF TypeOK, Request, RequestRow, Owning
  <1>2. GameRow \in Row /\ GameRow \notin RegId /\ RegId \subseteq Row /\ Regs \subseteq RegId
    BY RegsAreIds, BoundAssumption DEF GameRow, Row, RegId
  <1>3. Moves(p)
    BY StepMoves
  <1>4. \/ q.at = "idle" /\ r.at \notin Writing \cup {"backfill"} /\ UNCHANGED lock
        \/ r.at = "idle" /\ \A x \in Row : lock'[x] # p
        \/ Turns(q, r, p)
    BY EveryTurn
  <1>5. \A x \in Row : Lock(p, x) => \A y \in Row : lock'[y] = IF y = x THEN p ELSE lock[y]
    BY DEF Lock, TypeOK
  <1>6. q.at \notin TxPoint => \A x \in Row : lock[x] # p
    BY NullAssumption DEF LocksOwned
  <1>7. lock[GameRow] = p => q.at = "backfill"
    BY NullAssumption DEF LocksAhead
  <1>8. q.at \in Writing => \A x \in q.todo : lock[x] # p
    BY DEF LocksAhead
  <1> HIDE DEF q, r
  <1>9. ASSUME lock'[GameRow] = p PROVE r.at = "backfill"
    <2>1. CASE UNCHANGED lock
      BY <1>2, <1>4, <1>7, <1>9, <2>1 DEF Turns, Writing
    <2>2. CASE lock[GameRow] # p
      <3>1. ASSUME NEW x \in RegId, Lock(p, x) PROVE FALSE
        BY <1>2, <1>5, <1>9, <2>2, <3>1
      <3> QED BY <1>1, <1>2, <1>4, <1>9, <2>2, <3>1 DEF Turns
    <2>3. CASE lock[GameRow] = p
      BY <1>2, <1>4, <1>7, <1>9, <2>3 DEF Turns, Writing
    <2> QED BY <2>2, <2>3
  <1>10. ASSUME r.at \in Writing, NEW x \in r.todo, lock'[x] = p PROVE FALSE
    <2>1. Turns(q, r, p)
      <3>1. r.at # "idle"
        BY <1>10 DEF Writing
      <3> QED BY <1>4, <1>10, <3>1
    <2>2. CASE q.at = "remove" /\ Lock(p, q.reg) /\ r.todo \subseteq RegId \ {q.reg}
      BY <1>1, <1>2, <1>5, <1>6, <1>10, <2>2 DEF TxPoint
    <2>3. CASE q.at \in {"reveal", "reset"} /\ r.todo = Regs /\ UNCHANGED lock
      BY <1>2, <1>6, <1>10, <2>3 DEF TxPoint
    <2>4. ASSUME q.at \in Writing, NEW j \in q.todo, r.todo = q.todo \ {j},
                 UNCHANGED lock \/ Lock(p, j)
          PROVE  FALSE
      <3>1. j \in Row /\ x \in Row /\ x \in q.todo /\ x # j
        BY <1>1, <1>2, <1>10, <2>4
      <3> QED BY <1>5, <1>8, <1>10, <2>4, <3>1
    <2> QED BY <1>10, <2>1, <2>2, <2>3, <2>4 DEF Turns, Writing
  <1>11. ASSUME NEW o \in Req \ {p}
         PROVE  req'[o] = req[o] /\ \A x \in Row : lock'[x] = o => lock[x] = o
    BY <1>3, NullAssumption DEF Moves
  <1>12. lock'[GameRow] # Free => req'[lock'[GameRow]].at = "backfill"
    <2> SUFFICES ASSUME lock'[GameRow] # Free PROVE req'[lock'[GameRow]].at = "backfill"
      OBVIOUS
    <2>1. lock'[GameRow] \in Req
      BY <1>2 DEF TypeOK
    <2>2. CASE lock'[GameRow] = p
      BY <1>9, <2>2 DEF r
    <2>3. CASE lock'[GameRow] # p
      BY <1>2, <1>11, <2>1, <2>3 DEF LocksAhead
    <2> QED BY <2>2, <2>3
  <1>13. ASSUME NEW o \in Req, req'[o].at \in Writing, NEW x \in req'[o].todo
         PROVE  lock'[x] # o
    <2>1. x \in Row
      BY <1>2, <1>13 DEF TypeOK, Request, RequestRow
    <2>2. CASE o = p
      BY <1>10, <1>13, <2>2 DEF r
    <2>3. CASE o # p
      BY <1>11, <1>13, <2>1, <2>3 DEF LocksAhead
    <2> QED BY <2>2, <2>3
  <1> QED BY <1>12, <1>13 DEF LocksAhead, GameRow

LEMMA InitLocksAhead == Init => LocksAhead
  BY BoundAssumption DEF Init, LocksAhead, Idle, Writing, GameRow, Row

LEMMA NextLocksAhead ==
    TypeOK /\ TypeOK' /\ LocksOwned /\ LocksAhead /\ [Next]_vars => LocksAhead'
  <1> SUFFICES ASSUME TypeOK, TypeOK', LocksOwned, LocksAhead, [Next]_vars PROVE LocksAhead'
    OBVIOUS
  <1>1. CASE UNCHANGED <<lock, req>>
    BY <1>1 DEF LocksAhead
  <1>2. CASE Environment
    BY <1>1, <1>2 DEF Environment, EditSeat, StartGame, EndGame, DeleteGame, UnchangedByGame
  <1> QED BY <1>1, <1>2, TurnLocksAhead DEF Next, vars

\* Requests that wait for each other's locks.
LEMMA DeadlockOfTwo ==
    ASSUME TypeOK, LocksOwned, LocksAhead, NEW S \in SUBSET Req, S # {}, Deadlocked(S)
    PROVE  \E p, q \in S : p # q /\ ManyRows(p) /\ ManyRows(q)
  <1>1. ASSUME NEW p \in S PROVE \E x \in Wants(p) : lock[x] \in S /\ ManyRows(lock[x])
    <2>1. PICK x \in Wants(p) : lock[x] \in S
      BY <1>1 DEF Deadlocked
    <2> DEFINE q == lock[x]
    <2>2. Wants(q) # {} /\ q \in Req
      BY <2>1 DEF Deadlocked
    <2>3. x \in Row
      <3>1. req[p] \in Request /\ GameRow \in Row /\ RegId \subseteq Row
        BY RegsAreIds, BoundAssumption DEF TypeOK, GameRow, Row
      <3>2. Wants(p) \subseteq {GameRow, req[p].reg} \cup req[p].todo
        BY DEF Wants
      <3> QED BY <3>1, <3>2 DEF Request, RequestRow
    <2>4. req[q].at \in TxPoint
      BY <2>1, <2>2, <2>3, NullAssumption DEF LocksOwned
    <2>5. req[q].at \in Writing
      BY <2>2, <2>4 DEF TxPoint, Wants, Writing
    <2>6. req[q].todo # {}
      <3>1. ASSUME req[q].todo = {} PROVE FALSE
        <4>1. Wants(q) = {GameRow}
          BY <2>2, <2>5, <3>1 DEF Wants, Writing
        <4>2. lock[GameRow] \in S
          BY <2>1, <4>1 DEF Deadlocked
        <4>3. req[lock[GameRow]].at = "backfill" /\ Wants(lock[GameRow]) # {}
          BY <4>2, NullAssumption DEF LocksAhead, Deadlocked
        <4> QED BY <4>3 DEF Wants
      <3> QED BY <3>1
    <2> QED BY <2>1, <2>5, <2>6 DEF ManyRows
  <1>2. PICK p \in S : ManyRows(p)
    BY <1>1
  <1>3. PICK x \in Wants(p) : lock[x] \in S /\ ManyRows(lock[x])
    BY <1>1
  <1>4. lock[x] # p
    <2>1. Wants(p) = req[p].todo
      BY <1>2 DEF ManyRows, Wants, Writing
    <2> QED BY <1>2, <1>3, <2>1 DEF LocksAhead, ManyRows
  <1> QED BY <1>2, <1>3, <1>4

\* Where requests are in flight and no next statement can run, they wait for
\* each other.
LEMMA StuckIsDeadlocked ==
    ASSUME TypeOK, LocksOwned, \A p \in Req : ~Ready(p)
    PROVE  Deadlocked(InFlight)
  <1>1. ~Minting
    <2>1. ASSUME NEW o \in Req, req[o].at = "backfill" PROVE Ready(o)
      BY <2>1 DEF Ready, InFlight, Wants
    <2> QED BY <2>1 DEF Minting
  <1>2. ASSUME NEW p \in InFlight PROVE Wants(p) # {} /\ \A x \in Wants(p) : lock[x] # Free
    BY <1>1, <1>2 DEF Ready, InFlight
  <1>3. ASSUME NEW p \in InFlight, NEW x \in Wants(p) PROVE x \in Row
    <2>1. req[p] \in Request /\ GameRow \in Row /\ RegId \subseteq Row
      BY RegsAreIds, BoundAssumption DEF TypeOK, GameRow, Row, InFlight
    <2>2. Wants(p) \subseteq {GameRow, req[p].reg} \cup req[p].todo
      BY DEF Wants
    <2> QED BY <1>3, <2>1, <2>2 DEF Request, RequestRow
  <1>4. ASSUME NEW x \in Row, lock[x] # Free PROVE lock[x] \in InFlight
    <2>1. lock[x] \in Req
      BY <1>4 DEF TypeOK
    <2>2. req[lock[x]].at \in TxPoint
      BY <1>4 DEF LocksOwned
    <2> QED BY <2>1, <2>2 DEF TxPoint, InFlight
  <1> QED BY <1>2, <1>3, <1>4 DEF Deadlocked

\* Two transactions can wait for each other only where both are among the
\* three kinds that update one row after another - a reveal, a reset, a
\* removal - and both have rows left.  A pick, a claim, an open, a close or a
\* join is never part of the knot, and one such transaction alone ties none.
OnlyWritersDeadlock ==
    \A S \in SUBSET Req : S # {} /\ Deadlocked(S) =>
        \E p, q \in S : p # q /\ ManyRows(p) /\ ManyRows(q)

\* While requests are in flight one of them can go on, or there is a deadlock
\* for the detector to find: no lost wakeup, no lock without an owner, no queue
\* behind a request that has gone.
NeverSilentlyStuck ==
    InFlight # {} => (\E p \in Req : Ready(p)) \/ Deadlocked(InFlight)

\* Deadlocks of the token bag take two transactions of many rows (RevealTokenBag,
\* ResetTokenBag, RemoveRegistration), and where nothing can move there is one.
THEOREM WhoDeadlocks == Spec => [](OnlyWritersDeadlock /\ NeverSilentlyStuck)
  <1>1. TypeOK /\ LocksOwned /\ LocksAhead => OnlyWritersDeadlock /\ NeverSilentlyStuck
    BY DeadlockOfTwo, StuckIsDeadlocked DEF OnlyWritersDeadlock, NeverSilentlyStuck
  <1> QED BY <1>1, InitLocksAhead, NextLocksAhead, TypeCorrect, LocksAreOwned, PTL DEF Spec

\* A statement of a request brings it nearer to its end, and no other request
\* sets it back.
ShortenStep ==
    \A p \in Req : req[p].at # "idle" =>
        req'[p] = req[p] \/ (Left(p)' \in Nat /\ Left(p)' < Left(p))

LEMMA RowsFinite ==
    ASSUME NEW T \in SUBSET RegId
    PROVE  IsFiniteSet(T) /\ Cardinality(T) \in 0..MaxId
  <1>1. IsFiniteSet(RegId) /\ Cardinality(RegId) = MaxId
    BY FS_Interval, BoundAssumption DEF RegId
  <1> QED BY <1>1, FS_Subset, FS_CardinalityType, BoundAssumption

LEMMA StepShortens ==
    ASSUME TypeOK, TypeOK', NEW p \in Req, Handler(p) \/ Step(p) \/ Abort(p), req[p].at # "idle"
    PROVE  Left(p)' \in Nat /\ Left(p)' < Left(p)
  <1> DEFINE q == req[p]
             r == req'[p]
             c == Cardinality(req[p].todo)
             d == Cardinality(req'[p].todo)
             m == Left(p)'
             n == Left(p)
  <1>0. q.todo \in SUBSET RegId /\ r.todo \in SUBSET RegId
    BY DEF TypeOK, Request, RequestRow
  <1>1. MaxId \in Nat /\ c \in 0..MaxId /\ d \in 0..MaxId
    BY <1>0, RowsFinite, BoundAssumption
  <1>2. q.at \in Writing /\ (\E j \in q.todo : r.todo = q.todo \ {j}) => d = c - 1
    BY <1>0, RowsFinite, FS_RemoveElement
  <1>3. /\ q.at \in Writing => n = c + 1
        /\ q.at \in {"reveal", "remove", "reset"} => n = MaxId + 2
        /\ q.at \in {"lookup", "target"} => n = 4
        /\ q.at \in {"count", "pick"} => n = 3
        /\ q.at \in {"open", "claim", "insert", "recheck"} => n = 2
        /\ q.at \in {"backfill", "close", "reply", "save"} => n = 1
    BY DEF Left, Writing
  <1>4. /\ r.at \in Writing => m = d + 1
        /\ r.at \in {"count", "pick"} => m = 3
        /\ r.at \in {"claim", "insert", "recheck"} => m = 2
        /\ r.at \in {"backfill", "reply", "save"} => m = 1
        /\ r.at = "idle" => m = 0
    BY DEF Left, Writing
  <1>5. q.at \in Point
    BY DEF TypeOK, Request, RequestRow
  <1>6. r.at = "idle" \/ Turns(q, r, p)
    BY EveryTurn
  <1> HIDE DEF q, r, c, d, m, n
  <1>7. CASE r.at = "idle"
    <2>1. n \in Nat /\ n > 0
      BY <1>1, <1>3, <1>5 DEF Point, Writing, q
    <2> QED BY <1>4, <1>7, <2>1 DEF m, n
  <1>8. CASE Turns(q, r, p)
    <2>1. m \in Nat /\ m < n
      BY <1>1, <1>2, <1>3, <1>4, <1>8 DEF Turns, Writing
    <2> QED BY <2>1 DEF m, n
  <1> QED BY <1>6, <1>7, <1>8

\* Every request is done after at most MaxId + 4 statements of its own, however
\* the others interleave: the handlers of the bag do not retry and do not loop.
THEOREM RequestsAreShort == Spec => [][ShortenStep]_vars
  <1>1. TypeOK /\ TypeOK' /\ [Next]_vars => [ShortenStep]_vars
    <2> SUFFICES ASSUME TypeOK, TypeOK', Next PROVE ShortenStep
      OBVIOUS
    <2>1. ASSUME NEW o \in Req, Handler(o) \/ Step(o) \/ Abort(o) PROVE ShortenStep
      BY <2>1, StepMoves, StepShortens DEF Moves, ShortenStep
    <2>2. CASE Environment
      BY <2>2 DEF Environment, EditSeat, StartGame, EndGame, DeleteGame, UnchangedByGame,
         ShortenStep
    <2> QED BY <2>1, <2>2 DEF Next
  <1> QED BY <1>1, TypeCorrect, PTL DEF Spec
=============================================================================
