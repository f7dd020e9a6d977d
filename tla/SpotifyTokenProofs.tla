------------------------- MODULE SpotifyTokenProofs -------------------------
(***************************************************************************)
(* The stored refresh token is the one Spotify accepts, a connection that  *)
(* works is never dropped, and playlists stay with their account: for any  *)
(* number of requests, authorizations and rotations.                       *)
(***************************************************************************)
EXTENDS SpotifyToken, TLAPS

\* The mutex is held by whoever is at Spotify or has its answer, and by nobody else.
MutexHeld == \A p \in Req : Holding(p) <=> mutex = p

\* Everybody's grants are ones that were given, and come with a token.
GrantsGiven ==
    /\ conn.grant <= grants
    /\ \A g \in 1..grants : latest[g] # 0
    /\ \A p \in Req :
          /\ req[p].row.grant <= grants
          /\ Linking(p) => req[p].token <= grants

\* A grant that is not connected yet is known to its request only, and unused.
LinkingAlone ==
    \A p \in Req : Linking(p) =>
        /\ latest[req[p].token] = 1 /\ conn.grant # req[p].token
        /\ \A q \in Req : req[q].row.grant # req[p].token
        /\ \A q \in Req \ {p} : Linking(q) => req[q].token # req[p].token

\* What the holder of the mutex has read is what the row still says, if it is the
\* same row, and what it was answered is the latest token.
CopyCurrent ==
    \A p \in Req :
        /\ req[p].at \in {"wait", "refresh"} => req[p].token = 0
        /\ req[p].at = "refresh" /\ conn.grant = req[p].row.grant
              => conn.refresh = req[p].row.refresh
        /\ req[p].at = "answered" /\ req[p].token # 0
              => latest[req[p].row.grant] = req[p].token

\* A refresh is rejected only where the row is another one by now, or for good.
RejectedForGood ==
    \A p \in Req : req[p].at = "rejected" =>
        conn.grant # req[p].row.grant \/ req[p].row.grant \in revoked \cup lost

IInv ==
    /\ TypeOK /\ MutexHeld /\ GrantsGiven /\ LinkingAlone /\ CopyCurrent
    /\ RejectedForGood /\ RotatedTokenKept /\ SlotsOfThisConnection

-----------------------------------------------------------------------------
(* Types.                                                                  *)

\* What a request may become.
RequestTyped(q) ==
    /\ q \in Request
    /\ q.token \in IF q.at \in {"connect", "linked"} THEN Grant ELSE 0..MaxRotations
    /\ q.at \in {"refresh", "answered", "rejected"} => q.row # NoCopy

LEMMA IdleTyped == RequestTyped(Idle)
  BY BoundAssumption DEF RequestTyped, Idle, Request, Point, RowCopy, NoCopy

LEMMA CopyTyped ==
    ASSUME conn \in Row
    PROVE  /\ Copy \in RowCopy /\ Copy.grant = conn.grant /\ Copy.refresh = conn.refresh
           /\ Connected => Copy # NoCopy
  BY DEF Copy, Row, RowCopy, NoConn, NoCopy, Connected, Grant

\* The records with which requests begin.
LEMMA BeginTyped ==
    /\ \A force \in BOOLEAN : RequestTyped([Idle EXCEPT !.at = "wait", !.force = force])
    /\ \A g \in Grant : RequestTyped([Idle EXCEPT !.at = "connect", !.token = g])
    /\ \A row \in RowCopy : RequestTyped([Idle EXCEPT !.at = "slots", !.row = row])
<1>0. Idle \in Request /\ Idle.token = 0
  BY IdleTyped DEF RequestTyped, Idle
<1>1. ASSUME NEW force \in BOOLEAN
      PROVE  RequestTyped([Idle EXCEPT !.at = "wait", !.force = force])
  <2> DEFINE q == [Idle EXCEPT !.at = "wait", !.force = force]
  <2>1. q \in Request /\ q.at = "wait" /\ q.token = 0
    BY <1>0 DEF Request, Point
  <2> QED
    BY <2>1, BoundAssumption DEF RequestTyped
<1>2. ASSUME NEW g \in Grant
      PROVE  RequestTyped([Idle EXCEPT !.at = "connect", !.token = g])
  <2> DEFINE q == [Idle EXCEPT !.at = "connect", !.token = g]
  <2>0. g \in Nat
    BY BoundAssumption DEF Grant
  <2>1. q \in Request /\ q.at = "connect" /\ q.token = g
    BY <1>0, <2>0 DEF Request, Point
  <2> QED
    BY <2>1 DEF RequestTyped
<1>3. ASSUME NEW row \in RowCopy
      PROVE  RequestTyped([Idle EXCEPT !.at = "slots", !.row = row])
  <2> DEFINE q == [Idle EXCEPT !.at = "slots", !.row = row]
  <2>1. q \in Request /\ q.at = "slots" /\ q.token = 0
    BY <1>0 DEF Request, Point
  <2> QED
    BY <2>1, BoundAssumption DEF RequestTyped
<1>4. QED
  BY <1>1, <1>2, <1>3

\* The steps of a request leave the other requests alone.
LEMMA EndTyped ==
    ASSUME TypeOK, NEW p \in Req, End(p)
    PROVE  /\ req' \in [Req -> Request] /\ \A x \in Req : RequestTyped(req'[x])
           /\ mutex' \in Req \cup {NoReq}
  BY IdleTyped DEF End, TypeOK, Linking, Holding, RequestTyped

LEMMA GoTyped ==
    ASSUME TypeOK, NEW p \in Req, NEW q, RequestTyped(q), req' = [req EXCEPT ![p] = q]
    PROVE  req' \in [Req -> Request] /\ \A x \in Req : RequestTyped(req'[x])
  BY DEF TypeOK, Linking, Holding, RequestTyped

\* Every step keeps the types.
LEMMA StepTypeOK == TypeOK /\ [Next]_vars => TypeOK'
<1> SUFFICES ASSUME TypeOK, [Next]_vars PROVE TypeOK'
  OBVIOUS
<1> USE BoundAssumption DEF spotify
<1> DEFINE ReqTyped == req \in [Req -> Request] /\ \A x \in Req : RequestTyped(req[x])
<1>0. TypeOK <=> /\ conn \in Row /\ mutex \in Req \cup {NoReq} /\ ReqTyped
                 /\ grants \in 0..MaxGrants /\ latest \in [Grant -> 0..MaxRotations]
                 /\ revoked \subseteq Grant /\ lost \subseteq Grant
  BY DEF TypeOK, RequestTyped, Linking, Holding
<1>1. TypeOK' <=> /\ conn' \in Row /\ mutex' \in Req \cup {NoReq} /\ ReqTyped'
                  /\ grants' \in 0..MaxGrants /\ latest' \in [Grant -> 0..MaxRotations]
                  /\ revoked' \subseteq Grant /\ lost' \subseteq Grant
  BY DEF TypeOK, RequestTyped, Linking, Holding
<1> HIDE DEF ReqTyped
<1>2. ASSUME NEW p \in Req, NEW force \in BOOLEAN, BeginToken(p, force) PROVE TypeOK'
  BY <1>0, <1>1, <1>2, BeginTyped, GoTyped DEF BeginToken, ReqTyped
<1>3. ASSUME NEW p \in Req, BeginConnect(p) PROVE TypeOK'
  <2>1. grants + 1 \in Grant
    BY <1>0, <1>3 DEF BeginConnect, Grant
  <2>2. ReqTyped'
    BY <1>3, <2>1, BeginTyped, GoTyped DEF BeginConnect, ReqTyped
  <2> QED
    BY <1>0, <1>1, <1>3, <2>1, <2>2 DEF BeginConnect, Grant
<1>4. ASSUME NEW p \in Req, BeginPlaylists(p) PROVE TypeOK'
  BY <1>0, <1>1, <1>4, BeginTyped, GoTyped, CopyTyped DEF BeginPlaylists, ReqTyped
<1>5. ASSUME NEW p \in Req, Acquire(p) PROVE TypeOK'
  <2>1. CASE ~Connected \/ Usable(conn, req[p].force)
    BY <1>0, <1>1, <1>5, <2>1, EndTyped DEF Acquire, ReqTyped
  <2>2. CASE ~(~Connected \/ Usable(conn, req[p].force))
    <3> DEFINE q == [req[p] EXCEPT !.at = "refresh", !.row = Copy]
    <3>1. q \in Request /\ q.at = "refresh" /\ q.token = req[p].token /\ q.row # NoCopy
      BY <2>2, <1>0, CopyTyped DEF TypeOK, Request, Point
    <3>2. RequestTyped(q)
      BY <1>5, <3>1 DEF TypeOK, Linking, RequestTyped, Acquire
    <3>3. req' = [req EXCEPT ![p] = q]
      BY <1>5, <2>2 DEF Acquire, TypeOK
    <3> HIDE DEF q
    <3> QED
      BY <1>0, <1>1, <1>5, <2>2, <3>2, <3>3, GoTyped DEF Acquire, ReqTyped
  <2> QED
    BY <2>1, <2>2
<1>6. ASSUME NEW p \in Req, SpotifyRefreshes(p) PROVE TypeOK'
  <2> DEFINE g == req[p].row.grant
             q == [req[p] EXCEPT !.at = "answered"]
             r == [req[p] EXCEPT !.at = "answered", !.token = latest[g] + 1]
  <2>0. req[p].row # NoCopy
    BY <1>6 DEF TypeOK, Holding, SpotifyRefreshes
  <2>1. q \in Request /\ q.at = "answered" /\ q.token = req[p].token /\ q.row = req[p].row
    BY <1>0 DEF TypeOK, Request, Point
  <2>2. RequestTyped(q)
    BY <1>6, <2>0, <2>1 DEF TypeOK, Linking, RequestTyped, SpotifyRefreshes
  <2>3. CASE latest' = latest /\ req' = [req EXCEPT ![p] = q]
    <3> HIDE DEF q
    <3> QED
      BY <1>0, <1>1, <1>6, <2>2, <2>3, GoTyped DEF SpotifyRefreshes, ReqTyped
  <2>4. CASE /\ latest[g] < MaxRotations
             /\ latest' = [latest EXCEPT ![g] = @ + 1] /\ req' = [req EXCEPT ![p] = r]
    <3>1. g \in Grant
      BY <2>0 DEF TypeOK, Request, RowCopy
    <3> DEFINE t == latest[g] + 1
    <3>2. t \in 0..MaxRotations /\ t \in Nat
      BY <1>0, <2>4, <3>1
    <3> HIDE DEF t
    <3>3. r \in Request /\ r.at = "answered" /\ r.token = t /\ r.row = req[p].row
      BY <1>0, <3>2 DEF TypeOK, Request, Point, t
    <3>4. RequestTyped(r)
      BY <2>0, <3>2, <3>3 DEF RequestTyped
    <3> HIDE DEF r
    <3> QED
      BY <1>0, <1>1, <1>6, <2>4, <3>2, <3>4, GoTyped DEF SpotifyRefreshes, ReqTyped, t
  <2> QED
    BY <1>6, <2>3, <2>4 DEF SpotifyRefreshes, TypeOK
<1>7. ASSUME NEW p \in Req, SpotifyRejects(p) PROVE TypeOK'
  <2> DEFINE q == [req[p] EXCEPT !.at = "rejected"]
  <2>1. q \in Request /\ q.at = "rejected" /\ q.token = req[p].token /\ q.row = req[p].row
    BY <1>0 DEF TypeOK, Request, Point
  <2>2. RequestTyped(q)
    BY <1>7, <2>1 DEF TypeOK, Linking, Holding, RequestTyped, SpotifyRejects
  <2>3. req' = [req EXCEPT ![p] = q]
    BY <1>7 DEF SpotifyRejects
  <2> HIDE DEF q
  <2> QED
    BY <1>0, <1>1, <1>7, <2>2, <2>3, GoTyped DEF SpotifyRejects, ReqTyped
<1>8. ASSUME NEW p \in Req, CallFails(p) PROVE TypeOK'
  BY <1>0, <1>1, <1>8, EndTyped DEF CallFails, ReqTyped
<1>9. ASSUME NEW p \in Req, AnswerLost(p) PROVE TypeOK'
  <2> DEFINE g == req[p].row.grant
  <2>1. g \in Grant
    BY <1>9 DEF TypeOK, Holding, AnswerLost, Request, RowCopy
  <2> QED
    BY <1>0, <1>1, <1>9, <2>1, EndTyped DEF AnswerLost, ReqTyped
<1>10. ASSUME NEW p \in Req, Persist(p) PROVE TypeOK'
  <2>1. conn.grant = req[p].row.grant => conn \in Row \ {NoConn}
    BY <1>0, <1>10 DEF Persist, TypeOK, Holding, Request, RowCopy, NoConn, Grant
  <2>2. ~Linking(p) /\ req[p].token \in 0..MaxRotations
    BY <1>10 DEF Persist, TypeOK, Linking
  <2>3. conn \in Row \ {NoConn} => Refreshed(conn, req[p].token) \in Row
    <3> SUFFICES ASSUME conn \in Row \ {NoConn} PROVE Refreshed(conn, req[p].token) \in Row
      OBVIOUS
    <3> DEFINE t == req[p].token
    <3>1. t = 0 \/ t \in 1..MaxRotations
      BY <2>2
    <3> HIDE DEF t
    <3>2. [conn EXCEPT !.age = "fresh", !.refresh = IF t = 0 THEN @ ELSE t] \in Row
      BY <3>1 DEF Row, Age
    <3> QED
      BY <3>2 DEF Refreshed, t
  <2>4. conn' \in Row
    BY <1>0, <1>10, <2>1, <2>3 DEF Persist
  <2> QED
    BY <1>0, <1>1, <1>10, <2>4, EndTyped DEF Persist, ReqTyped
<1>11. ASSUME NEW p \in Req, PersistFails(p) PROVE TypeOK'
  <2>1. req[p].row.grant \in Grant
    BY <1>11 DEF TypeOK, Holding, PersistFails, Request, RowCopy
  <2> QED
    BY <1>0, <1>1, <1>11, <2>1, EndTyped DEF PersistFails, ReqTyped
<1>12. ASSUME NEW p \in Req, DropRejected(p) PROVE TypeOK'
  BY <1>0, <1>1, <1>12, EndTyped DEF DropRejected, Row, ReqTyped
<1>13. ASSUME NEW p \in Req, DropFails(p) PROVE TypeOK'
  BY <1>0, <1>1, <1>13, EndTyped DEF DropFails, ReqTyped
<1>14. ASSUME NEW p \in Req, ConnectDelete(p) PROVE TypeOK'
  <2> DEFINE q == [req[p] EXCEPT !.at = "linked", !.row = Copy]
  <2>1. q \in Request /\ q.at = "linked" /\ q.token = req[p].token
    BY <1>0, CopyTyped DEF TypeOK, Request, Point
  <2>2. RequestTyped(q)
    BY <1>14, <2>1 DEF TypeOK, Linking, RequestTyped, ConnectDelete
  <2>3. req' = [req EXCEPT ![p] = q]
    BY <1>14 DEF ConnectDelete
  <2> HIDE DEF q
  <2> QED
    BY <1>0, <1>1, <1>14, <2>2, <2>3, GoTyped DEF ConnectDelete, ReqTyped
<1>15. ASSUME NEW p \in Req, ConnectCommit(p) PROVE TypeOK'
  <2>1. req[p].token \in Grant
    BY <1>15 DEF TypeOK, Linking, ConnectCommit
  <2>2. conn' \in Row
    BY <1>15, <2>1 DEF ConnectCommit, Linked, Row, Age
  <2> QED
    BY <1>0, <1>1, <1>15, <2>2, EndTyped DEF ConnectCommit, ReqTyped
<1>16. ASSUME NEW p \in Req, PlaylistsWrite(p) PROVE TypeOK'
  <2>1. SlotsRow(p) => conn \in Row \ {NoConn} /\ req[p].row.grant \in 0..MaxGrants
    BY <1>0 DEF SlotsRow, Connected, Row, Grant
  <2>2. conn' \in Row
    BY <1>0, <1>16, <2>1 DEF PlaylistsWrite, Row
  <2> QED
    BY <1>0, <1>1, <1>16, <2>2, EndTyped DEF PlaylistsWrite, ReqTyped
<1>17. ASSUME NEW p \in Req, Abort(p) PROVE TypeOK'
  BY <1>0, <1>1, <1>17, EndTyped DEF Abort, ReqTyped
<1>18. CASE Disconnect
  BY <1>0, <1>1, <1>18 DEF Disconnect, Row, ReqTyped
<1>19. CASE AgeToken
  <2>1. conn' \in Row
    BY <1>0, <1>19 DEF AgeToken, Connected, Row, Age
  <2> QED
    BY <1>0, <1>1, <1>19, <2>1 DEF AgeToken, ReqTyped
<1>20. ASSUME NEW g \in Grant, Revoke(g) PROVE TypeOK'
  BY <1>0, <1>1, <1>20 DEF Revoke, ReqTyped
<1>21. CASE Restart
  <2>1. lost' \subseteq Grant
    BY <1>0, <1>21 DEF Restart, TypeOK, Holding, Request, RowCopy
  <2>2. ReqTyped'
    BY <1>21, IdleTyped DEF Restart, ReqTyped, RequestTyped
  <2> QED
    BY <1>0, <1>1, <1>21, <2>1, <2>2 DEF Restart
<1>22. CASE UNCHANGED vars
  BY <1>0, <1>1, <1>22 DEF vars, ReqTyped
<1>23. QED
  BY <1>2, <1>3, <1>4, <1>5, <1>6, <1>7, <1>8, <1>9, <1>10, <1>11, <1>12, <1>13, <1>14,
     <1>15, <1>16, <1>17, <1>18, <1>19, <1>20, <1>21, <1>22
     DEF Next, Handler, Answer, Finish, World

LEMMA InitTypeOK == Init => TypeOK
<1> SUFFICES ASSUME Init PROVE TypeOK
  OBVIOUS
<1>1. \A p \in Req : RequestTyped(req[p])
  BY IdleTyped DEF Init
<1>2. QED
  BY <1>1, BoundAssumption DEF Init, TypeOK, RequestTyped, Linking, Holding, Row

\* The row, the mutex, the requests and what Spotify knows are well typed.
THEOREM TypeCorrect == Spec => []TypeOK
  BY InitTypeOK, StepTypeOK, PTL DEF Spec

-----------------------------------------------------------------------------
(* The invariant.                                                          *)

LEMMA InitIInv == Init => IInv
<1> SUFFICES ASSUME Init PROVE IInv
  OBVIOUS
<1>1. \A p \in Req : req[p] = Idle /\ mutex # p
  BY NullAssumption DEF Init
<1>2. TypeOK
  BY InitTypeOK
<1>3. MutexHeld /\ LinkingAlone /\ CopyCurrent /\ RejectedForGood
  BY <1>1 DEF MutexHeld, LinkingAlone, CopyCurrent, RejectedForGood, Holding, Linking, Idle
<1>4. GrantsGiven
  BY <1>1 DEF Init, GrantsGiven, Linking, Idle, NoCopy, NoConn
<1>5. RotatedTokenKept /\ SlotsOfThisConnection
  BY DEF Init, RotatedTokenKept, SlotsOfThisConnection, Connected, NoConn
<1> QED
  BY <1>2, <1>3, <1>4, <1>5 DEF IInv

\* What is known of the requests once they are typed.
LEMMA Typed ==
    ASSUME TypeOK, NEW p \in Req
    PROVE  /\ req[p].row.grant \in 0..MaxGrants
           /\ Holding(p) => req[p].row.grant \in Grant /\ req[p].row.refresh \in 1..MaxRotations
           /\ Linking(p) => req[p].token \in Grant
           /\ conn.grant \in 0..MaxGrants /\ conn.refresh \in 0..MaxRotations
           /\ Connected <=> conn.grant # 0
           /\ grants \in Nat /\ ~(Holding(p) /\ Linking(p))
  <1>1. /\ req[p].row.grant \in 0..MaxGrants
        /\ Holding(p) => req[p].row.grant \in Grant /\ req[p].row.refresh \in 1..MaxRotations
    BY BoundAssumption DEF TypeOK, Request, RowCopy, NoCopy, Holding, Row, NoConn, Grant
  <1>2. Linking(p) => req[p].token \in Grant
    BY BoundAssumption DEF TypeOK, Linking, Grant
  <1>3. /\ conn.grant \in 0..MaxGrants /\ conn.refresh \in 0..MaxRotations
        /\ Connected <=> conn.grant # 0
    BY BoundAssumption DEF TypeOK, Row, NoConn, Connected, Grant
  <1>4. grants \in Nat /\ ~(Holding(p) /\ Linking(p))
    BY BoundAssumption DEF TypeOK, Holding, Linking
  <1> QED
    BY <1>1, <1>2, <1>3, <1>4

LEMMA IdleRequest ==
    Idle.at = "idle" /\ Idle.row = NoCopy /\ Idle.row.grant = 0 /\ Idle.token = 0
  BY DEF Idle, NoCopy

LEMMA EndMoves ==
    ASSUME TypeOK, NEW p \in Req, End(p)
    PROVE  /\ \A q \in Req \ {p} : req'[q] = req[q]
           /\ req'[p] = Idle /\ mutex' = IF mutex = p THEN NoReq ELSE mutex
  BY DEF End, TypeOK

\* The steps that change more than the point of a request, field by field.
LEMMA AcquireMoves ==
    ASSUME TypeOK, NEW p \in Req, Acquire(p)
    PROVE  /\ \A q \in Req \ {p} : req'[q] = req[q] /\ mutex # q
           /\ mutex # p /\ UNCHANGED <<conn, lost, spotify>>
           /\ \/ req'[p] = Idle /\ mutex' = mutex
              \/ /\ mutex' = p
                 /\ req'[p].at = "refresh" /\ req'[p].row = Copy
                 /\ req[p].at = "wait" /\ req'[p].token = req[p].token
<1>1. \A q \in Req : mutex # q
  BY NullAssumption DEF Acquire
<1>2. CASE ~Connected \/ Usable(conn, req[p].force)
  BY <1>1, <1>2 DEF Acquire, End, TypeOK
<1>3. CASE ~(~Connected \/ Usable(conn, req[p].force))
  <2> DEFINE q == [req[p] EXCEPT !.at = "refresh", !.row = Copy]
  <2>1. q.at = "refresh" /\ q.row = Copy /\ q.token = req[p].token
    BY DEF TypeOK, Request
  <2>2. req' = [req EXCEPT ![p] = q]
    BY <1>3 DEF Acquire, TypeOK
  <2> HIDE DEF q
  <2> QED
    BY <1>1, <1>3, <2>1, <2>2 DEF Acquire, TypeOK
<1> QED
  BY <1>2, <1>3

LEMMA RefreshMoves ==
    ASSUME TypeOK, NEW p \in Req, SpotifyRefreshes(p)
    PROVE  /\ \A q \in Req \ {p} : req'[q] = req[q]
           /\ req[p].at = "refresh" /\ req[p].row.grant \in Grant
           /\ Good(req[p].row.grant, req[p].row.refresh)
           /\ req'[p].at = "answered" /\ req'[p].row = req[p].row
           /\ UNCHANGED <<conn, mutex, grants, revoked, lost>>
           /\ \/ latest' = latest /\ req'[p].token = req[p].token
              \/ /\ latest' = [latest EXCEPT ![req[p].row.grant] = @ + 1]
                 /\ req'[p].token = latest'[req[p].row.grant]
<1>1. req[p].row.grant \in Grant
  BY DEF TypeOK, Holding, SpotifyRefreshes, Request, RowCopy
<1> DEFINE g == req[p].row.grant
           q == [req[p] EXCEPT !.at = "answered"]
           r == [req[p] EXCEPT !.at = "answered", !.token = latest[g] + 1]
<1>2. /\ q.at = "answered" /\ q.row = req[p].row /\ q.token = req[p].token
      /\ r.at = "answered" /\ r.row = req[p].row /\ r.token = latest[g] + 1
  BY DEF TypeOK, Request
<1>3. CASE latest' = latest /\ req' = [req EXCEPT ![p] = q]
  <2> HIDE DEF q
  <2> QED
    BY <1>1, <1>2, <1>3 DEF SpotifyRefreshes, TypeOK
<1>4. CASE latest' = [latest EXCEPT ![g] = @ + 1] /\ req' = [req EXCEPT ![p] = r]
  <2> HIDE DEF r
  <2> QED
    BY <1>1, <1>2, <1>4 DEF SpotifyRefreshes, TypeOK
<1> QED
  BY <1>3, <1>4 DEF SpotifyRefreshes, TypeOK


-----------------------------------------------------------------------------
(* The invariant but for its last two parts, step by step.                 *)

Core == MutexHeld /\ GrantsGiven /\ LinkingAlone /\ CopyCurrent /\ RejectedForGood

\* A request ends: what it held it has given back, and the row is what it was, or
\* gone, unless p was the one to write it.
LEMMA EndKeepsCore ==
    ASSUME TypeOK, Core, NEW p \in Req, End(p),
           grants' = grants, revoked' = revoked, lost \subseteq lost',
           conn'.grant \in {conn.grant, 0},
           conn'.grant = conn.grant => conn'.refresh = conn.refresh \/ Holding(p),
           \/ latest' = latest
           \/ /\ Holding(p)
              /\ latest' = [latest EXCEPT ![req[p].row.grant] = @ + 1]
    PROVE  Core'
<1>1. /\ \A q \in Req \ {p} : req'[q] = req[q]
      /\ req'[p] = Idle /\ mutex' = IF mutex = p THEN NoReq ELSE mutex
  BY EndMoves
<1>2. MutexHeld'
  BY <1>1, IdleRequest, NullAssumption DEF Core, MutexHeld, Holding
<1>3. \A g \in Grant : latest'[g] # latest[g] =>
          /\ latest[g] \in Nat /\ latest'[g] = latest[g] + 1
          /\ Holding(p) /\ g = req[p].row.grant
  BY Typed DEF TypeOK
<1>4. GrantsGiven'
  <2>1. \A g \in 1..grants : latest'[g] # 0
    <3> SUFFICES ASSUME NEW g \in 1..grants PROVE latest'[g] # 0
      OBVIOUS
    <3>1. g \in Grant /\ latest[g] # 0
      BY BoundAssumption DEF Core, GrantsGiven, TypeOK, Grant
    <3> QED
      BY <1>3, <3>1
  <2>2. conn'.grant <= grants
    BY Typed DEF Core, GrantsGiven
  <2>3. \A q \in Req : req'[q].row.grant <= grants /\ (Linking(q)' => req'[q].token <= grants)
    BY <1>1, Typed, IdleRequest DEF Core, GrantsGiven, Linking
  <2> QED
    BY <2>1, <2>2, <2>3 DEF GrantsGiven
<1>5. LinkingAlone'
  <2> SUFFICES ASSUME NEW x \in Req, Linking(x)'
               PROVE  /\ latest'[req'[x].token] = 1 /\ conn'.grant # req'[x].token
                      /\ \A q \in Req : req'[q].row.grant # req'[x].token
                      /\ \A q \in Req \ {x} : Linking(q)' => req'[q].token # req'[x].token
    BY DEF LinkingAlone
  <2>1. x # p /\ Linking(x) /\ req'[x] = req[x] /\ req[x].token \in Grant
    BY <1>1, IdleRequest, Typed DEF Linking
  <2>2. /\ latest[req[x].token] = 1 /\ conn.grant # req[x].token
        /\ \A q \in Req : req[q].row.grant # req[x].token
        /\ \A q \in Req \ {x} : Linking(q) => req[q].token # req[x].token
    BY <2>1 DEF Core, LinkingAlone
  <2>3. latest'[req[x].token] = 1
    BY <1>3, <2>1, <2>2
  <2>4. req[x].token # 0
    BY <2>1 DEF Grant
  <2> QED
    BY <1>1, <2>1, <2>2, <2>3, <2>4, IdleRequest DEF Linking
<1>6. CopyCurrent'
  <2> SUFFICES ASSUME NEW x \in Req
               PROVE  /\ req'[x].at \in {"wait", "refresh"} => req'[x].token = 0
                      /\ req'[x].at = "refresh" /\ conn'.grant = req'[x].row.grant
                            => conn'.refresh = req'[x].row.refresh
                      /\ req'[x].at = "answered" /\ req'[x].token # 0
                            => latest'[req'[x].row.grant] = req'[x].token
    BY DEF CopyCurrent
  <2>1. CASE x = p
    BY <1>1, <2>1, IdleRequest
  <2>2. CASE x # p
    <3>1. Holding(x) => ~Holding(p) /\ req[x].row.grant \in Grant
      BY <2>2, Typed DEF Core, MutexHeld
    <3>2. Holding(x) => latest'[req[x].row.grant] = latest[req[x].row.grant]
      BY <1>3, <3>1
    <3>3. Holding(x) /\ conn'.grant = req[x].row.grant =>
              conn.grant = req[x].row.grant /\ conn'.refresh = conn.refresh
      BY <3>1 DEF Grant
    <3> QED
      BY <1>1, <2>2, <3>1, <3>2, <3>3 DEF Core, CopyCurrent, Holding
  <2> QED
    BY <2>1, <2>2
<1>7. RejectedForGood'
  BY <1>1, IdleRequest, Typed DEF Core, RejectedForGood, Holding, Grant
<1> QED
  BY <1>2, <1>4, <1>5, <1>6, <1>7 DEF Core

\* A request goes on, and nothing else changes but the mutex it may take.
LEMMA GoKeepsCore ==
    ASSUME TypeOK, Core, NEW p \in Req,
           \A q \in Req \ {p} : req'[q] = req[q],
           UNCHANGED <<conn, grants, latest, revoked, lost>>,
           \/ mutex' = mutex /\ (Holding(p)' <=> Holding(p))
           \/ mutex = NoReq /\ mutex' = p /\ Holding(p)',
           req'[p].row.grant \in {0, conn.grant, req[p].row.grant},
           req'[p].at \in {"connect", "linked"} =>
              Linking(p) /\ req'[p].token = req[p].token,
           req'[p].at \in {"wait", "refresh"} => req'[p].token = 0,
           req'[p].at = "refresh" => req'[p].row.grant # conn.grant \/ req'[p].row.refresh = conn.refresh,
           req'[p].at = "answered" /\ req'[p].token # 0
              => latest[req'[p].row.grant] = req'[p].token,
           req'[p].at = "rejected" =>
              conn.grant # req'[p].row.grant \/ req'[p].row.grant \in revoked \cup lost
    PROVE  Core'
<1>1. MutexHeld'
  BY NullAssumption DEF Core, MutexHeld, Holding
<1>2. GrantsGiven'
  BY Typed DEF Core, GrantsGiven, Linking
<1>3. LinkingAlone'
  <2> SUFFICES ASSUME NEW x \in Req, Linking(x)'
               PROVE  /\ latest'[req'[x].token] = 1 /\ conn'.grant # req'[x].token
                      /\ \A q \in Req : req'[q].row.grant # req'[x].token
                      /\ \A q \in Req \ {x} : Linking(q)' => req'[q].token # req'[x].token
    BY DEF LinkingAlone
  <2>1. /\ Linking(x) /\ req'[x].token = req[x].token
        /\ \A q \in Req : Linking(q)' => Linking(q) /\ req'[q].token = req[q].token
    BY DEF Linking
  <2>2. req[x].token \in Grant
    BY <2>1, Typed
  <2> QED
    BY <2>1, <2>2 DEF Core, LinkingAlone, Grant
<1>4. CopyCurrent'
  BY DEF Core, CopyCurrent
<1>5. RejectedForGood'
  BY DEF Core, RejectedForGood
<1> QED
  BY <1>1, <1>2, <1>3, <1>4, <1>5 DEF Core

LEMMA BeginKeepsCore ==
    ASSUME TypeOK, Core, NEW p \in Req, BeginConnect(p)
    PROVE  Core'
<1> DEFINE g == grants + 1
           q == [Idle EXCEPT !.at = "connect", !.token = g]
<1>1. g \in Grant /\ g # 0
  BY BoundAssumption DEF BeginConnect, TypeOK, Grant
<1>2. q.at = "connect" /\ q.token = g /\ q.row.grant = 0
  BY IdleRequest, IdleTyped DEF RequestTyped, Request
<1>3. /\ \A x \in Req \ {p} : req'[x] = req[x]
      /\ req'[p].at = "connect" /\ req'[p].token = g /\ req'[p].row.grant = 0
  <2> HIDE DEF q
  <2> QED
    BY <1>2 DEF BeginConnect, TypeOK, q
<1>4. /\ req[p].at = "idle" /\ grants' = g
      /\ latest' = [latest EXCEPT ![g] = 1] /\ latest \in [Grant -> Nat]
      /\ conn' = conn /\ mutex' = mutex /\ revoked' = revoked /\ lost' = lost
  BY BoundAssumption DEF BeginConnect, TypeOK
<1>5. /\ conn.grant < g /\ \A x \in Req : req[x].row.grant < g
      /\ \A x \in Req : Linking(x) => req[x].token < g
  BY Typed DEF Core, GrantsGiven, Grant
<1>6. MutexHeld'
  BY <1>3, <1>4 DEF Core, MutexHeld, Holding
<1>7. GrantsGiven'
  <2>1. \A x \in 1..g : latest'[x] # 0
    BY <1>1, <1>4, BoundAssumption DEF Core, GrantsGiven, Grant, TypeOK
  <2> QED
    BY <2>1, <1>1, <1>3, <1>4, <1>5, Typed DEF Core, GrantsGiven, Linking, Grant
<1>8. LinkingAlone'
  <2> SUFFICES ASSUME NEW x \in Req, Linking(x)'
               PROVE  /\ latest'[req'[x].token] = 1 /\ conn'.grant # req'[x].token
                      /\ \A y \in Req : req'[y].row.grant # req'[x].token
                      /\ \A y \in Req \ {x} : Linking(y)' => req'[y].token # req'[x].token
    BY DEF LinkingAlone
  <2>1. CASE x = p
    BY <1>1, <1>3, <1>4, <1>5, <2>1, Typed DEF Linking
  <2>2. CASE x # p
    <3>1. Linking(x) /\ req'[x] = req[x] /\ req[x].token \in Grant /\ req[x].token # g
      BY <1>3, <1>5, <2>2, Typed DEF Linking, Grant
    <3> QED
      BY <1>1, <1>3, <1>4, <1>5, <2>2, <3>1 DEF Core, LinkingAlone, Linking, Grant
  <2> QED
    BY <2>1, <2>2
<1>9. CopyCurrent'
  <2>1. \A x \in Req : Holding(x) => req[x].row.grant \in Grant /\ latest'[req[x].row.grant] = latest[req[x].row.grant]
    BY <1>4, <1>5, Typed DEF Grant
  <2> QED
    BY <1>3, <1>4, <2>1 DEF Core, CopyCurrent, Holding
<1>10. RejectedForGood'
  BY <1>3, <1>4 DEF Core, RejectedForGood
<1> QED
  BY <1>6, <1>7, <1>8, <1>9, <1>10 DEF Core

\* A refresh that Spotify applies: the grant's tokens are p's business alone.
LEMMA RefreshKeepsCore ==
    ASSUME TypeOK, Core, NEW p \in Req, SpotifyRefreshes(p)
    PROVE  Core'
<1> DEFINE g == req[p].row.grant
<1>1. /\ \A q \in Req \ {p} : req'[q] = req[q]
      /\ req[p].at = "refresh" /\ g \in Grant /\ g # 0
      /\ req'[p].at = "answered" /\ req'[p].row = req[p].row
      /\ conn' = conn /\ mutex' = mutex /\ grants' = grants /\ revoked' = revoked /\ lost' = lost
      /\ \/ latest' = latest /\ req'[p].token = 0
         \/ latest' = [latest EXCEPT ![g] = @ + 1] /\ req'[p].token = latest'[g]
  BY RefreshMoves DEF Core, CopyCurrent, Grant
<1>2. \A x \in Grant : latest'[x] # latest[x] =>
          x = g /\ latest[x] \in Nat /\ latest'[x] = latest[x] + 1
  BY <1>1 DEF TypeOK
<1>3. \A q \in Req \ {p} : ~Holding(q)
  BY <1>1 DEF Core, MutexHeld, Holding
<1>4. MutexHeld'
  BY <1>1 DEF Core, MutexHeld, Holding
<1>5. GrantsGiven'
  <2>1. \A x \in 1..grants : x \in Grant /\ latest'[x] # 0
    BY <1>2, BoundAssumption DEF Core, GrantsGiven, TypeOK, Grant
  <2> QED
    BY <1>1, <2>1 DEF Core, GrantsGiven, Linking
<1>6. LinkingAlone'
  <2>1. \A x \in Req : Linking(x)' => x # p /\ Linking(x) /\ req'[x] = req[x]
    BY <1>1 DEF Linking
  <2>2. \A x \in Req : Linking(x) => latest'[req[x].token] = 1
    BY <1>2, Typed DEF Core, LinkingAlone
  <2> QED
    BY <1>1, <2>1, <2>2 DEF Core, LinkingAlone
<1>7. CopyCurrent'
  BY <1>1, <1>3 DEF Core, CopyCurrent, Holding
<1>8. RejectedForGood'
  BY <1>1 DEF Core, RejectedForGood
<1> QED
  BY <1>4, <1>5, <1>6, <1>7, <1>8 DEF Core

\* A new connection has a grant that nobody else has seen.
LEMMA CommitKeepsCore ==
    ASSUME TypeOK, Core, NEW p \in Req, ConnectCommit(p)
    PROVE  Core'
<1> DEFINE g == req[p].token
<1>1. /\ \A q \in Req \ {p} : req'[q] = req[q]
      /\ req'[p] = Idle /\ mutex' = IF mutex = p THEN NoReq ELSE mutex
  BY EndMoves DEF ConnectCommit
<1>2. /\ Linking(p) /\ ~Holding(p) /\ g \in Grant /\ g # 0 /\ g <= grants /\ latest[g] = 1
      /\ \A q \in Req : req[q].row.grant # g
      /\ \A q \in Req \ {p} : Linking(q) => req[q].token # g
  BY Typed DEF ConnectCommit, Linking, Core, GrantsGiven, LinkingAlone, Grant
<1>3. /\ conn'.grant = g /\ conn'.refresh = 1 /\ mutex' = mutex
      /\ UNCHANGED <<grants, latest, revoked, lost>>
  BY <1>1, <1>2 DEF ConnectCommit, Linked, spotify, Core, MutexHeld
<1>4. MutexHeld'
  BY <1>1, <1>2, <1>3, IdleRequest DEF Core, MutexHeld, Holding
<1>5. GrantsGiven'
  BY <1>1, <1>2, <1>3, IdleRequest, Typed DEF Core, GrantsGiven, Linking
<1>6. LinkingAlone'
  BY <1>1, <1>2, <1>3, IdleRequest, Typed DEF Core, LinkingAlone, Linking, Grant
<1>7. CopyCurrent'
  BY <1>1, <1>2, <1>3, IdleRequest DEF Core, CopyCurrent
<1>8. RejectedForGood'
  BY <1>1, <1>2, <1>3, IdleRequest DEF Core, RejectedForGood
<1> QED
  BY <1>4, <1>5, <1>6, <1>7, <1>8 DEF Core

\* The steps of the world leave the requests alone, or end them all.
LEMMA WorldKeepsCore ==
    ASSUME TypeOK, Core, World
    PROVE  Core'
<1>1. /\ grants' = grants /\ latest' = latest /\ revoked \subseteq revoked' /\ lost \subseteq lost'
      /\ conn'.grant = 0 \/ (conn'.grant = conn.grant /\ conn'.refresh = conn.refresh)
      /\ \/ req' = req /\ mutex' = mutex
         \/ req' = [p \in Req |-> Idle] /\ mutex' = NoReq
  <2>1. CASE Disconnect
    BY <2>1 DEF Disconnect, spotify, NoConn
  <2>2. CASE AgeToken
    BY <2>2 DEF AgeToken, Connected, spotify, Row, TypeOK
  <2>3. CASE Restart
    BY <2>3 DEF Restart, spotify
  <2>4. ASSUME NEW g \in Grant, Revoke(g) 
             PROVE  /\ grants' = grants /\ latest' = latest
                    /\ revoked \subseteq revoked' /\ lost \subseteq lost'
                    /\ conn' = conn /\ req' = req /\ mutex' = mutex
    BY <2>4 DEF Revoke
  <2> QED
    BY <2>1, <2>2, <2>3, <2>4 DEF World
<1>2. MutexHeld'
  BY <1>1, NullAssumption, IdleRequest DEF Core, MutexHeld, Holding
<1>3. GrantsGiven'
  BY <1>1, IdleRequest, Typed DEF Core, GrantsGiven, Linking, TypeOK
<1>4. LinkingAlone'
  BY <1>1, IdleRequest, Typed DEF Core, LinkingAlone, Linking, Grant
<1>5. CopyCurrent'
  BY <1>1, IdleRequest, Typed DEF Core, CopyCurrent, Holding, Grant
<1>6. RejectedForGood'
  BY <1>1, IdleRequest, Typed DEF Core, RejectedForGood, Holding, Grant
<1> QED
  BY <1>2, <1>3, <1>4, <1>5, <1>6 DEF Core

LEMMA NextKeepsCore == TypeOK /\ Core /\ RotatedTokenKept /\ [Next]_vars => Core'
<1> SUFFICES ASSUME TypeOK, Core, RotatedTokenKept, [Next]_vars PROVE Core'
  OBVIOUS
<1>1. ASSUME NEW p \in Req, NEW force \in BOOLEAN, BeginToken(p, force) PROVE Core'
  <2> DEFINE q == [Idle EXCEPT !.at = "wait", !.force = force]
  <2>1. q.at = "wait" /\ q.token = 0 /\ q.row.grant = 0
    BY IdleRequest, IdleTyped DEF RequestTyped, Request
  <2> HIDE DEF q
  <2>2. /\ req' = [req EXCEPT ![p] = q] /\ req[p].at = "idle"
        /\ UNCHANGED <<conn, mutex, grants, latest, revoked, lost>>
    BY <1>1 DEF BeginToken, spotify, q
  <2> QED
    BY <2>1, <2>2, GoKeepsCore DEF TypeOK, Holding
<1>2. ASSUME NEW p \in Req, BeginPlaylists(p) PROVE Core'
  <2> DEFINE q == [Idle EXCEPT !.at = "slots", !.row = Copy]
  <2>1. q.at = "slots" /\ q.row.grant = conn.grant
    BY IdleTyped, CopyTyped DEF RequestTyped, Request, TypeOK
  <2> HIDE DEF q
  <2>2. /\ req' = [req EXCEPT ![p] = q] /\ req[p].at = "idle"
        /\ UNCHANGED <<conn, mutex, grants, latest, revoked, lost>>
    BY <1>2 DEF BeginPlaylists, spotify, q
  <2> QED
    BY <2>1, <2>2, GoKeepsCore DEF TypeOK, Holding
<1>3. ASSUME NEW p \in Req, Acquire(p) PROVE Core'
  <2>1. CASE End(p)
    BY <1>3, <2>1, AcquireMoves, EndKeepsCore DEF spotify
  <2>2. CASE mutex' = p /\ req'[p].at = "refresh" /\ req'[p].row = Copy
    <3>1. mutex = NoReq /\ req[p].at = "wait" /\ req'[p].token = 0
      BY <1>3, <2>2, AcquireMoves DEF Acquire, Core, CopyCurrent
    <3>2. /\ \A q \in Req \ {p} : req'[q] = req[q]
          /\ UNCHANGED <<conn, grants, latest, revoked, lost>>
      BY <1>3, AcquireMoves DEF spotify
    <3>3. req'[p].row.grant = conn.grant /\ req'[p].row.refresh = conn.refresh
      BY <2>2, CopyTyped DEF TypeOK
    <3> QED
      BY <2>2, <3>1, <3>2, <3>3, GoKeepsCore DEF Holding
  <2> QED
    BY <1>3, <2>1, <2>2, AcquireMoves DEF Acquire
<1>4. ASSUME NEW p \in Req, SpotifyRejects(p) PROVE Core'
  <2> DEFINE q == [req[p] EXCEPT !.at = "rejected"]
  <2>1. q.at = "rejected" /\ q.row = req[p].row /\ q.token = req[p].token
    BY DEF TypeOK, Request
  <2> HIDE DEF q
  <2>2. /\ req' = [req EXCEPT ![p] = q] /\ req[p].at = "refresh"
        /\ UNCHANGED <<conn, mutex, grants, latest, revoked, lost>>
    BY <1>4 DEF SpotifyRejects, spotify, q
  <2>3. conn.grant # req[p].row.grant \/ req[p].row.grant \in revoked \cup lost
    <3>1. \A x \in Req \ {p} : req[x].at # "answered"
      BY <2>2 DEF Core, MutexHeld, Holding
    <3>2. conn.grant = req[p].row.grant => Connected /\ conn.refresh = req[p].row.refresh
      BY <2>2, Typed DEF Core, CopyCurrent, Holding, Grant
    <3> QED
      BY <1>4, <2>2, <3>1, <3>2 DEF SpotifyRejects, Good, RotatedTokenKept
  <2> QED
    BY <2>1, <2>2, <2>3, GoKeepsCore DEF TypeOK, Holding
<1>5. ASSUME NEW p \in Req, ConnectDelete(p) PROVE Core'
  <2> DEFINE q == [req[p] EXCEPT !.at = "linked", !.row = Copy]
  <2>1. q.at = "linked" /\ q.row.grant = conn.grant /\ q.token = req[p].token
    BY CopyTyped DEF TypeOK, Request
  <2> HIDE DEF q
  <2>2. /\ req' = [req EXCEPT ![p] = q] /\ req[p].at = "connect"
        /\ UNCHANGED <<conn, mutex, grants, latest, revoked, lost>>
    BY <1>5 DEF ConnectDelete, spotify, q
  <2> QED
    BY <2>1, <2>2, GoKeepsCore DEF TypeOK, Holding, Linking
<1>6. ASSUME NEW p \in Req,
             CallFails(p) \/ PersistFails(p) \/ DropFails(p) \/ DropRejected(p) \/ Abort(p)
      PROVE  Core'
  <2>1. /\ End(p) /\ conn' \in {conn, NoConn} /\ lost \subseteq lost'
        /\ grants' = grants /\ latest' = latest /\ revoked' = revoked
    BY <1>6 DEF CallFails, PersistFails, DropFails, DropRejected, Abort, spotify
  <2>2. conn'.grant \in {conn.grant, 0} /\ (conn'.grant = conn.grant => conn' = conn)
    BY <2>1, Typed DEF NoConn, Connected
  <2> QED
    BY <2>1, <2>2, EndKeepsCore
<1>7. ASSUME NEW p \in Req, AnswerLost(p) PROVE Core'
  BY <1>7, EndKeepsCore DEF AnswerLost, Holding
<1>8. ASSUME NEW p \in Req, Persist(p) PROVE Core'
  <2>1. /\ End(p) /\ conn'.grant = conn.grant /\ Holding(p)
        /\ UNCHANGED <<grants, latest, revoked, lost>>
    BY <1>8 DEF Persist, Refreshed, Holding, spotify, TypeOK, Row
  <2> QED
    BY <2>1, EndKeepsCore
<1>9. ASSUME NEW p \in Req, PlaylistsWrite(p) PROVE Core'
  <2>1. /\ End(p) /\ conn'.grant = conn.grant /\ conn'.refresh = conn.refresh
        /\ UNCHANGED <<grants, latest, revoked, lost>>
    BY <1>9 DEF PlaylistsWrite, SlotsRow, Connected, spotify, TypeOK, Row
  <2> QED
    BY <2>1, EndKeepsCore
<1>10. CASE UNCHANGED vars
  BY <1>10 DEF vars, Core, MutexHeld, GrantsGiven, LinkingAlone, CopyCurrent, RejectedForGood,
     Holding, Linking
<1> QED
  BY <1>1, <1>2, <1>3, <1>4, <1>5, <1>6, <1>7, <1>8, <1>9, <1>10, BeginKeepsCore,
     RefreshKeepsCore, CommitKeepsCore, WorldKeepsCore
     DEF Next, Handler, Answer, Finish

-----------------------------------------------------------------------------
(* The stored token.                                                       *)

\* A step that leaves the row's token and the tokens at Spotify alone keeps what
\* is claimed, unless the one about to store the latest token goes without.
LEMMA StillKept ==
    ASSUME TypeOK, Core, RotatedTokenKept,
           \/ conn' = NoConn
           \/ Connected /\ conn'.grant = conn.grant /\ conn'.refresh = conn.refresh,
           latest' = latest, lost \subseteq lost',
           \A q \in Req : req[q].at = "answered" /\ req[q].token # 0
              => req'[q] = req[q] \/ req[q].row.grant \in lost'
    PROVE  RotatedTokenKept'
<1> SUFFICES ASSUME Connected', conn'.grant \notin lost'
             PROVE  \/ conn'.refresh = latest'[conn'.grant]
                    \/ \E q \in Req : /\ req'[q].at = "answered" /\ req'[q].row.grant = conn'.grant
                                      /\ req'[q].token = latest'[conn'.grant]
  BY DEF RotatedTokenKept
<1>1. conn'.grant = conn.grant /\ conn'.refresh = conn.refresh /\ Connected
  BY DEF Connected, NoConn
<1>2. conn.grant \in 1..grants /\ latest[conn.grant] # 0
  <2>1. conn.grant \in Nat \ {0} /\ grants \in Nat
    BY <1>1, BoundAssumption DEF TypeOK, Row, Connected, Grant
  <2> QED
    BY <2>1 DEF Core, GrantsGiven
<1>3. CASE conn.refresh = latest[conn.grant]
  BY <1>1, <1>3
<1>4. CASE conn.refresh # latest[conn.grant]
  <2>1. PICK q \in Req : /\ req[q].at = "answered" /\ req[q].row.grant = conn.grant
                         /\ req[q].token = latest[conn.grant]
    BY <1>1, <1>4 DEF RotatedTokenKept
  <2>2. req'[q] = req[q]
    BY <1>1, <1>2, <2>1
  <2> QED
    BY <1>1, <2>1, <2>2
<1> QED
  BY <1>3, <1>4

LEMMA NextKeepsToken == TypeOK /\ Core /\ RotatedTokenKept /\ [Next]_vars => RotatedTokenKept'
<1> SUFFICES ASSUME TypeOK, Core, RotatedTokenKept, [Next]_vars PROVE RotatedTokenKept'
  OBVIOUS
<1>0. conn = NoConn \/ Connected
  BY DEF Connected
<1>1. ASSUME NEW p \in Req, NEW force \in BOOLEAN, BeginToken(p, force) PROVE RotatedTokenKept'
  <2>1. /\ conn' = conn /\ latest' = latest /\ lost' = lost /\ req[p].at = "idle"
        /\ \A q \in Req \ {p} : req'[q] = req[q]
    BY <1>1 DEF BeginToken, spotify, TypeOK
  <2> QED
    BY <1>0, <2>1, StillKept
<1>2. ASSUME NEW p \in Req, BeginPlaylists(p) PROVE RotatedTokenKept'
  <2>1. /\ conn' = conn /\ latest' = latest /\ lost' = lost /\ req[p].at = "idle"
        /\ \A q \in Req \ {p} : req'[q] = req[q]
    BY <1>2 DEF BeginPlaylists, spotify, TypeOK
  <2> QED
    BY <1>0, <2>1, StillKept
<1>3. ASSUME NEW p \in Req, Acquire(p) PROVE RotatedTokenKept'
  <2>1. /\ conn' = conn /\ latest' = latest /\ lost' = lost /\ req[p].at = "wait"
        /\ \A q \in Req \ {p} : req'[q] = req[q]
    BY <1>3, AcquireMoves DEF Acquire, spotify
  <2> QED
    BY <1>0, <2>1, StillKept
<1>4. ASSUME NEW p \in Req, SpotifyRejects(p) \/ ConnectDelete(p) PROVE RotatedTokenKept'
  <2>1. /\ conn' = conn /\ latest' = latest /\ lost' = lost /\ req[p].at \in {"refresh", "connect"}
        /\ \A q \in Req \ {p} : req'[q] = req[q]
    BY <1>4 DEF SpotifyRejects, ConnectDelete, spotify, TypeOK
  <2> QED
    BY <1>0, <2>1, StillKept
<1>5. ASSUME NEW p \in Req,
             CallFails(p) \/ DropFails(p) \/ DropRejected(p) \/ Abort(p) \/ PersistFails(p)
      PROVE  RotatedTokenKept'
  <2>1. /\ conn' \in {conn, NoConn} /\ latest' = latest /\ lost \subseteq lost'
        /\ req[p].at = "answered" /\ req[p].token # 0 => req[p].row.grant \in lost'
        /\ \A q \in Req \ {p} : req'[q] = req[q]
    BY <1>5, EndMoves DEF CallFails, DropFails, DropRejected, Abort, PersistFails, spotify
  <2> QED
    BY <1>0, <2>1, StillKept
<1>6. ASSUME NEW p \in Req, PlaylistsWrite(p) PROVE RotatedTokenKept'
  <2>1. /\ conn'.grant = conn.grant /\ conn'.refresh = conn.refresh
        /\ conn' = conn \/ Connected
    BY <1>6 DEF PlaylistsWrite, SlotsRow, Connected, TypeOK, Row
  <2>2. /\ latest' = latest /\ lost' = lost /\ req[p].at = "slots"
        /\ \A q \in Req \ {p} : req'[q] = req[q]
    BY <1>6, EndMoves DEF PlaylistsWrite, spotify
  <2> QED
    BY <1>0, <2>1, <2>2, StillKept
<1>7. ASSUME NEW p \in Req, Persist(p) PROVE RotatedTokenKept'
  <2>1. /\ latest' = latest /\ lost' = lost /\ req[p].at = "answered"
        /\ \A q \in Req \ {p} : req'[q] = req[q]
    BY <1>7, EndMoves DEF Persist, spotify
  <2>2. CASE conn.grant = req[p].row.grant /\ req[p].token # 0
    <3>1. conn'.grant = conn.grant /\ conn'.refresh = req[p].token
      BY <1>7, <2>2 DEF Persist, Refreshed, TypeOK, Row
    <3>2. latest[conn.grant] = req[p].token
      BY <2>1, <2>2 DEF Core, CopyCurrent
    <3> QED
      BY <2>1, <3>1, <3>2 DEF RotatedTokenKept
  <2>3. CASE conn.grant = req[p].row.grant /\ req[p].token = 0
    <3>1. conn'.grant = conn.grant /\ conn'.refresh = conn.refresh /\ Connected
      BY <1>7, <2>1, <2>3, Typed DEF Persist, Refreshed, TypeOK, Row, Holding, Grant
    <3> QED
      BY <2>1, <2>3, <3>1, StillKept
  <2>4. CASE conn.grant # req[p].row.grant
    <3>1. conn' = conn
      BY <1>7, <2>4 DEF Persist
    <3> QED
      BY <2>1, <2>4, <3>1 DEF RotatedTokenKept, Connected
  <2> QED
    BY <2>2, <2>3, <2>4
<1>8. ASSUME NEW p \in Req, SpotifyRefreshes(p) PROVE RotatedTokenKept'
  <2> DEFINE g == req[p].row.grant
  <2>1. /\ \A q \in Req \ {p} : req'[q] = req[q] /\ req[q].at # "answered"
        /\ req[p].at = "refresh" /\ req'[p].at = "answered" /\ req'[p].row = req[p].row
        /\ conn' = conn /\ lost' = lost
        /\ \/ latest' = latest
           \/ latest' = [latest EXCEPT ![g] = @ + 1] /\ req'[p].token = latest'[g]
    BY <1>8, RefreshMoves DEF Core, MutexHeld, Holding
  <2>2. CASE conn.grant = g /\ latest' # latest
    BY <2>1, <2>2 DEF RotatedTokenKept
  <2>3. CASE conn.grant # g \/ latest' = latest
    <3>1. Connected => latest'[conn.grant] = latest[conn.grant]
      <4>1. Connected => conn.grant \in Grant
        BY Typed DEF Grant
      <4> QED
        BY <2>1, <2>3, <4>1 DEF TypeOK
    <3> QED
      BY <2>1, <3>1 DEF RotatedTokenKept, Connected
  <2> QED
    BY <2>2, <2>3
<1>9. ASSUME NEW p \in Req, AnswerLost(p) PROVE RotatedTokenKept'
  <2> DEFINE g == req[p].row.grant
  <2>1. /\ \A q \in Req \ {p} : req'[q] = req[q]
        /\ req[p].at = "refresh" /\ conn' = conn /\ lost' = lost \cup {g}
        /\ latest' = [latest EXCEPT ![g] = @ + 1]
    BY <1>9, EndMoves DEF AnswerLost
  <2>2. conn.grant # g /\ Connected => latest'[conn.grant] = latest[conn.grant]
    BY <2>1, Typed DEF TypeOK, Grant
  <2> QED
    BY <2>1, <2>2 DEF RotatedTokenKept, Connected
<1>10. ASSUME NEW p \in Req, BeginConnect(p) PROVE RotatedTokenKept'
  <2>1. /\ \A q \in Req \ {p} : req'[q] = req[q]
        /\ req[p].at = "idle" /\ conn' = conn /\ lost' = lost
        /\ latest' = [latest EXCEPT ![grants + 1] = 1]
    BY <1>10 DEF BeginConnect, TypeOK
  <2>2. Connected => latest'[conn.grant] = latest[conn.grant]
    BY <2>1, Typed DEF TypeOK, Grant, Core, GrantsGiven
  <2> QED
    BY <2>1, <2>2 DEF RotatedTokenKept, Connected
<1>11. ASSUME NEW p \in Req, ConnectCommit(p) PROVE RotatedTokenKept'
  <2>1. conn'.grant = req[p].token /\ conn'.refresh = 1 /\ latest' = latest
    BY <1>11 DEF ConnectCommit, Linked, spotify
  <2>2. latest[req[p].token] = 1
    BY <1>11 DEF ConnectCommit, Core, LinkingAlone, Linking
  <2> QED
    BY <2>1, <2>2 DEF RotatedTokenKept
<1>12. CASE World
  <2>1. CASE Disconnect
    BY <2>1 DEF Disconnect, RotatedTokenKept, Connected
  <2>2. CASE AgeToken
    <3>1. /\ Connected /\ conn'.grant = conn.grant /\ conn'.refresh = conn.refresh
          /\ latest' = latest /\ lost' = lost /\ req' = req
      BY <2>2 DEF AgeToken, Connected, spotify, Row, TypeOK
    <3> QED
      BY <3>1, StillKept
  <2>3. CASE Restart
    <3>1. /\ conn' = conn /\ latest' = latest /\ lost \subseteq lost'
          /\ \A q \in Req : req[q].at = "answered" /\ req[q].token # 0 => req[q].row.grant \in lost'
      BY <2>3 DEF Restart, spotify
    <3> QED
      BY <1>0, <3>1, StillKept
  <2>4. ASSUME NEW g \in Grant, Revoke(g) PROVE RotatedTokenKept'
    BY <2>4 DEF Revoke, RotatedTokenKept, Connected
  <2> QED
    BY <1>12, <2>1, <2>2, <2>3, <2>4 DEF World
<1>13. CASE UNCHANGED vars
  BY <1>13 DEF vars, RotatedTokenKept, Connected
<1> QED
  BY <1>1, <1>2, <1>3, <1>4, <1>5, <1>6, <1>7, <1>8, <1>9, <1>10, <1>11, <1>12, <1>13
     DEF Next, Handler, Answer, Finish

LEMMA NextKeepsSlots ==
    TypeOK /\ SlotsOfThisConnection /\ [Next]_vars => SlotsOfThisConnection'
<1> SUFFICES ASSUME TypeOK, SlotsOfThisConnection, [Next]_vars PROVE SlotsOfThisConnection'
  OBVIOUS
<1> USE DEF SlotsOfThisConnection
<1>1. ASSUME NEW p \in Req, ConnectCommit(p) PROVE SlotsOfThisConnection'
  BY <1>1 DEF ConnectCommit, Linked
<1>2. ASSUME NEW p \in Req, Persist(p) PROVE SlotsOfThisConnection'
  BY <1>2 DEF Persist, Refreshed, TypeOK, Row
<1>3. ASSUME NEW p \in Req, PlaylistsWrite(p) PROVE SlotsOfThisConnection'
  BY <1>3 DEF PlaylistsWrite, SlotsRow, Connected, TypeOK, Row
<1>4. ASSUME NEW p \in Req, DropRejected(p) PROVE SlotsOfThisConnection'
  BY <1>4 DEF DropRejected, NoConn
<1>5. CASE Disconnect
  BY <1>5 DEF Disconnect, NoConn
<1>6. CASE AgeToken
  BY <1>6 DEF AgeToken, Connected, TypeOK, Row
<1>7. CASE conn' = conn
  BY <1>7
<1> QED
  <2>1. ASSUME NEW p \in Req, Handler(p) \/ Acquire(p) \/ Answer(p) PROVE conn' = conn
    BY <2>1 DEF Handler, Acquire, Answer, BeginToken, BeginConnect, BeginPlaylists,
       SpotifyRefreshes, SpotifyRejects, CallFails, AnswerLost
  <2>2. ASSUME NEW p \in Req, PersistFails(p) \/ DropFails(p) \/ ConnectDelete(p) \/ Abort(p)
        PROVE  conn' = conn
    BY <2>2 DEF PersistFails, DropFails, ConnectDelete, Abort
  <2>3. Restart \/ (\E g \in Grant : Revoke(g)) \/ UNCHANGED vars => conn' = conn
    BY DEF Restart, Revoke, vars
  <2> QED
    BY <1>1, <1>2, <1>3, <1>4, <1>5, <1>6, <1>7, <2>1, <2>2, <2>3 DEF Next, Finish, World

LEMMA Inductive == Spec => []IInv
<1>1. IInv /\ [Next]_vars => IInv'
  BY StepTypeOK, NextKeepsCore, NextKeepsToken, NextKeepsSlots DEF IInv, Core
<1> QED
  BY InitIInv, <1>1, PTL DEF Spec

\* The stored refresh token is the one Spotify accepts, or the holder of the mutex
\* is about to store that one, unless an answer of Spotify's was lost.
THEOREM RotatedTokenStays == Spec => []RotatedTokenKept
<1>1. IInv => RotatedTokenKept
  BY DEF IInv
<1> QED
  BY Inductive, <1>1, PTL

\* The playlists stored with a connection came by a request that had found this very
\* connection: a reconnect takes the slots away, and no request that had read the
\* old row puts its own there.
THEOREM SlotsStay == Spec => []SlotsOfThisConnection
<1>1. IInv => SlotsOfThisConnection
  BY DEF IInv
<1> QED
  BY Inductive, <1>1, PTL

\* A rejected refresh drops a connection only if it is revoked or its token is lost:
\* the delete is scoped to a token that the row then still has.
THEOREM LiveConnectionStays == Spec => LiveConnectionKept
<1>1. IInv /\ [Next]_vars =>
        [(\E p \in Req : DropRejected(p)) /\ conn' # conn => conn.grant \in revoked \cup lost]_vars
  <2> SUFFICES ASSUME IInv, NEW p \in Req, DropRejected(p), conn' # conn
               PROVE  conn.grant \in revoked \cup lost
    OBVIOUS
  <2>1. req[p].at = "rejected" /\ conn.grant = req[p].row.grant
    BY DEF DropRejected, Drops
  <2> QED
    BY <2>1 DEF IInv, RejectedForGood
<1> QED
  BY Inductive, <1>1, PTL DEF Spec, LiveConnectionKept

-----------------------------------------------------------------------------
(* The mutex and the length of a request.                                  *)

\* Of one user's refreshes at most one is at Spotify or has an answer that is not
\* stored yet, and whoever waits for the mutex waits for that one: no way out of
\* a refresh leaves the mutex locked behind it.
RefreshesTakeTurns ==
    /\ \A p, q \in Req : Holding(p) /\ Holding(q) => p = q
    /\ mutex # NoReq => mutex \in Req /\ Holding(mutex)

\* Refreshes are serialized by the user's mutex, which every one of them frees.
THEOREM RefreshesAreSerial == Spec => []RefreshesTakeTurns
<1>1. IInv => RefreshesTakeTurns
  BY DEF IInv, TypeOK, MutexHeld, RefreshesTakeTurns
<1> QED
  BY Inductive, <1>1, PTL

\* The steps a request has left, at most.
Left(p) ==
    CASE req[p].at = "wait" -> 3
      [] req[p].at \in {"refresh", "connect"} -> 2
      [] req[p].at \in {"answered", "rejected", "linked", "slots"} -> 1
      [] OTHER -> 0

\* A step of a request brings it nearer to its end, and no other sets it back.
ShortenStep ==
    \A p \in Req : req[p].at # "idle" => req'[p] = req[p] \/ Left(p)' < Left(p)

LEMMA StepShortens ==
    ASSUME TypeOK, NEW p \in Req, Handler(p) \/ Acquire(p) \/ Answer(p) \/ Finish(p)
    PROVE  /\ \A q \in Req \ {p} : req'[q] = req[q]
           /\ req[p].at # "idle" => Left(p)' < Left(p)
<1>1. req \in [Req -> Request] /\ req[p].at \in Point
  BY DEF TypeOK, Request
<1>2. Left(p) \in 0..3 /\ Left(p)' \in 0..3 /\ (req[p].at # "idle" => Left(p) > 0)
  BY <1>1 DEF Left, Point
<1>3. CASE Handler(p)
  BY <1>1, <1>3 DEF Handler, BeginToken, BeginConnect, BeginPlaylists
<1>4. CASE End(p)
  <2>1. req'[p].at = "idle" /\ \A q \in Req \ {p} : req'[q] = req[q]
    BY <1>4, EndMoves, IdleRequest
  <2>2. Left(p)' = 0
    BY <2>1 DEF Left
  <2> QED
    BY <1>2, <2>1, <2>2
<1>5. CASE Acquire(p)
  <2>1. /\ \A q \in Req \ {p} : req'[q] = req[q]
        /\ req[p].at = "wait" /\ req'[p].at \in {"idle", "refresh"}
    BY <1>5, AcquireMoves, IdleRequest DEF Acquire
  <2> QED
    BY <2>1 DEF Left
<1>6. CASE SpotifyRefreshes(p)
  <2>1. /\ \A q \in Req \ {p} : req'[q] = req[q]
        /\ req[p].at = "refresh" /\ req'[p].at = "answered"
    BY <1>6, RefreshMoves
  <2> QED
    BY <2>1 DEF Left
<1>7. CASE SpotifyRejects(p)
  <2>1. req[p].at = "refresh" /\ req' = [req EXCEPT ![p].at = "rejected"]
    BY <1>7 DEF SpotifyRejects
  <2>2. req'[p].at = "rejected" /\ \A q \in Req \ {p} : req'[q] = req[q]
    BY <1>1, <2>1 DEF Request
  <2> QED
    BY <2>1, <2>2 DEF Left
<1>8. CASE ConnectDelete(p)
  <2>1. req[p].at = "connect" /\ req' = [req EXCEPT ![p].at = "linked", ![p].row = Copy]
    BY <1>8 DEF ConnectDelete
  <2>2. req'[p].at = "linked" /\ \A q \in Req \ {p} : req'[q] = req[q]
    BY <1>1, <2>1 DEF Request
  <2>3. Left(p) = 2
    BY <2>1 DEF Left
  <2>4. Left(p)' = 1
    BY <2>2 DEF Left
  <2> QED
    BY <2>2, <2>3, <2>4
<1>9. CallFails(p) \/ AnswerLost(p) \/ Persist(p) \/ PersistFails(p) \/ DropRejected(p)
        \/ DropFails(p) \/ ConnectCommit(p) \/ PlaylistsWrite(p) \/ Abort(p) => End(p)
  BY DEF CallFails, AnswerLost, Persist, PersistFails, DropRejected, DropFails,
     ConnectCommit, PlaylistsWrite, Abort
<1> QED
  BY <1>3, <1>4, <1>5, <1>6, <1>7, <1>8, <1>9 DEF Answer, Finish

\* A request is over after at most three steps of its own, however the others
\* interleave: nothing in it is retried.
THEOREM RequestsAreShort == Spec => [][ShortenStep]_vars
<1>1. TypeOK /\ [Next]_vars => [ShortenStep]_vars
  <2> SUFFICES ASSUME TypeOK, Next PROVE ShortenStep
    OBVIOUS
  <2>1. ASSUME NEW p \in Req, Handler(p) \/ Acquire(p) \/ Answer(p) \/ Finish(p)
        PROVE  ShortenStep
    BY <2>1, StepShortens DEF ShortenStep
  <2>2. CASE req' = req
    BY <2>2 DEF ShortenStep
  <2>3. CASE Restart
    <3> SUFFICES ASSUME NEW p \in Req, req[p].at # "idle" PROVE Left(p)' < Left(p)
      BY DEF ShortenStep
    <3>1. req'[p].at = "idle"
      BY <2>3, IdleRequest DEF Restart
    <3>2. req[p].at \in Point
      BY DEF TypeOK, Request
    <3> QED
      BY <3>1, <3>2 DEF Left, Point
  <2> QED
    BY <2>1, <2>2, <2>3 DEF Next, World, Disconnect, AgeToken, Revoke
<1> QED
  BY <1>1, TypeCorrect, PTL DEF Spec
=============================================================================
